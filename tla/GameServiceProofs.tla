------------------------- MODULE GameServiceProofs --------------------------
(***************************************************************************)
(* The game service for every number of players, games, chats, goroutines, *)
(* requests and seats, and for every limit of the history: the indices     *)
(* agree with the games, who is skipped has had a turn's time, who was     *)
(* answered is not told to be late, and the rooms are those of ChatRooms.  *)
(***************************************************************************)
EXTENDS GameService, SiftingProofs, FiniteSetTheorems, TLAPS

USE ServiceAssumption, NothingAssumption

-----------------------------------------------------------------------------
(* Rounds *)

LEMMA EmptyRoundSound == R!EmptyRound(FALSE) \in R!Rounds /\ R!EmptyRound(FALSE).seated = {}
BY EmptySeq DEF R!EmptyRound, R!Rounds

LEMMA OverSound ==
  ASSUME NEW r \in R!Rounds, NEW l \in Players \cup {None}
  PROVE  R!Over(r, l) \in R!Rounds /\ R!Over(r, l).seated = r.seated /\ R!Over(r, l).roster = r.roster
BY DEF R!Over, R!Rounds

\* A round begins with a turn of somebody seated.
LEMMA BegunSound ==
  ASSUME NEW r \in R!Rounds, NEW after \in R!Begun(r)
  PROVE  \E t \in r.seated, c \in BOOLEAN : after = [r EXCEPT !.stage = "Playing", !.turn = t, !.choosing = c]
<1>1. after \in UNION {{[r EXCEPT !.stage = "Playing", !.turn = t, !.choosing = c] : c \in BOOLEAN} : t \in r.seated}
  BY Zenon DEF R!Begun, R!When
<1>2. PICK t \in r.seated : after \in {[r EXCEPT !.stage = "Playing", !.turn = t, !.choosing = c] : c \in BOOLEAN}
  BY <1>1, Zenon
<1>3. \E c \in BOOLEAN : after = [r EXCEPT !.stage = "Playing", !.turn = t, !.choosing = c]
  BY <1>2, Zenon
<1> QED
  BY <1>3, Zenon

\* Who is seated is on the roster, whatever is played.
LEMMA MovesSound ==
  ASSUME NEW r \in R!Rounds, r.seated \subseteq r.roster,
         NEW kind \in R!Kinds, NEW p \in Players \cup {None},
         kind # "SkipTurn" => p \in Players,
         NEW after \in R!Moves(r, kind, p)
  PROVE  after \in R!Rounds /\ after.seated \subseteq after.roster
<1>0. /\ r.seated \subseteq Players /\ r.roster \subseteq Players
      /\ r.finishers \in Seq(Players) /\ r.turn \in Players \cup {None} /\ r.last \in Players \cup {None}
  BY DEF R!Rounds
<1>1. CASE kind = "SetRules"
  <2>1. after \in R!NewRules(r)
    BY <1>1 DEF R!Moves
  <2>2. after = [r EXCEPT !.firstWins = FALSE]
    BY <2>1 DEF R!NewRules, R!When
  <2> QED
    BY <2>2 DEF R!Rounds
<1>2. CASE kind = "JoinGame"
  <2>1. after \in R!Entered(r, p) /\ p \in Players
    BY <1>2 DEF R!Moves
  <2>2. after = [r EXCEPT !.roster = @ \cup {p}, !.seated = @ \cup {p}]
    BY <2>1 DEF R!Entered, R!When
  <2> QED
    BY <2>1, <2>2 DEF R!Rounds
<1>3. CASE kind = "LeaveGame"
  <2> DEFINE rest == r.seated \ {p}
             out == [r EXCEPT !.seated = rest]
  <2>1. after \in R!Departed(r, p)
    BY <1>3 DEF R!Moves
  <2>2. out \in R!Rounds /\ out.seated = rest /\ out.roster = r.roster /\ rest \subseteq Players /\ rest \subseteq r.roster
    BY <1>0 DEF R!Rounds
  <2>3. \/ after = out
        \/ \E l \in rest : after = R!Over(out, l)
        \/ \E t \in rest \cup {r.turn} : after = [r EXCEPT !.seated = rest, !.turn = t]
    BY <2>1 DEF R!Departed, R!When
  <2>4. ASSUME NEW t \in rest \cup {r.turn}, after = [r EXCEPT !.seated = rest, !.turn = t]
        PROVE  after \in R!Rounds /\ after.seated \subseteq after.roster
    BY <1>0, <2>4 DEF R!Rounds
  <2> HIDE DEF out, rest
  <2>5. ASSUME NEW l \in rest, after = R!Over(out, l)
        PROVE  after \in R!Rounds /\ after.seated \subseteq after.roster
    BY <2>2, <2>5, OverSound
  <2> QED
    BY <2>2, <2>3, <2>4, <2>5
<1>4. CASE kind = "StartGame"
  <2>1. after \in R!Begun(r)
    BY <1>4 DEF R!Moves
  <2>2. PICK t \in r.seated, c \in BOOLEAN :
          after = [r EXCEPT !.stage = "Playing", !.turn = t, !.choosing = c]
    BY <2>1, BegunSound
  <2> QED
    BY <1>0, <2>2 DEF R!Rounds
<1>5. CASE kind = "CancelGame"
  <2>1. after \in R!Cancelled(r)
    BY <1>5 DEF R!Moves
  <2>2. after = R!Over(r, r.last)
    BY <2>1 DEF R!Cancelled, R!When
  <2> QED
    BY <1>0, <2>2, OverSound
<1>6. CASE kind = "TurnAction"
  <2>1. after \in R!TurnTaken(r, p) /\ p \in Players
    BY <1>6 DEF R!Moves
  <2>2. r.turn = p /\ (after \in R!Continued(r) \/ after \in R!WentOut(r))
    BY <2>1 DEF R!TurnTaken, R!When
  <2>3. CASE after \in R!Continued(r)
    <3>1. \/ after = [r EXCEPT !.choosing = TRUE]
          \/ \E t \in r.seated : after = [r EXCEPT !.choosing = FALSE, !.turn = t]
      BY <2>3, Zenon DEF R!Continued
    <3>2. ASSUME after = [r EXCEPT !.choosing = TRUE]
          PROVE  after \in R!Rounds /\ after.seated \subseteq after.roster
      BY <1>0, <3>2 DEF R!Rounds
    <3>3. ASSUME NEW t \in r.seated, after = [r EXCEPT !.choosing = FALSE, !.turn = t]
          PROVE  after \in R!Rounds /\ after.seated \subseteq after.roster
      BY <1>0, <3>3 DEF R!Rounds
    <3> QED
      BY <3>1, <3>2, <3>3
  <2>4. CASE after \in R!WentOut(r)
    <3> DEFINE rest == r.seated \ {r.turn}
               out == [r EXCEPT !.finishers = Append(@, r.turn), !.seated = rest, !.choosing = FALSE]
    <3>1. Append(r.finishers, r.turn) \in Seq(Players)
      BY <1>0, <2>1, <2>2, AppendProperties
    <3>2. out \in R!Rounds /\ out.seated = rest /\ out.roster = r.roster /\ rest \subseteq Players /\ rest \subseteq r.roster
      BY <1>0, <3>1 DEF R!Rounds
    <3>3. \/ \E l \in rest \cup {None} : after = R!Over(out, l)
          \/ \E t \in rest : after = [out EXCEPT !.turn = t]
      BY <2>4 DEF R!WentOut
    <3> HIDE DEF out, rest
    <3>4. ASSUME NEW l \in rest \cup {None}, after = R!Over(out, l)
          PROVE  after \in R!Rounds /\ after.seated \subseteq after.roster
      BY <3>2, <3>4, OverSound
    <3>5. ASSUME NEW t \in rest, after = [out EXCEPT !.turn = t]
          PROVE  after \in R!Rounds /\ after.seated \subseteq after.roster
      BY <3>2, <3>5 DEF R!Rounds
    <3> QED
      BY <3>3, <3>4, <3>5
  <2> QED
    BY <2>2, <2>3, <2>4
<1>7. CASE kind = "SkipTurn"
  <2>1. after \in R!Skipped(r, p)
    BY <1>7 DEF R!Moves
  <2> QED
    BY <1>0, <2>1 DEF R!Skipped, R!When, R!Rounds
<1> QED
  BY <1>1, <1>2, <1>3, <1>4, <1>5, <1>6, <1>7 DEF R!Kinds

\* A rematch seats who is required, and is in play.
LEMMA FirstRoundsSound ==
  ASSUME NEW people \in SUBSET Players, NEW r \in FirstRounds(people)
  PROVE  r \in R!Rounds /\ r.seated = people /\ r.roster = people
<1> DEFINE e == [R!EmptyRound(FALSE) EXCEPT !.roster = people, !.seated = people]
<1>1. e \in R!Rounds /\ e.seated = people /\ e.roster = people
  BY EmptySeq DEF R!EmptyRound, R!Rounds
<1>2. r \in R!Begun(e)
  BY DEF FirstRounds
<1> HIDE DEF e
<1>3. \E t \in people, c \in BOOLEAN : r = [e EXCEPT !.stage = "Playing", !.turn = t, !.choosing = c]
  <2>1. PICK t \in e.seated, c \in BOOLEAN : r = [e EXCEPT !.stage = "Playing", !.turn = t, !.choosing = c]
    BY <1>1, <1>2, BegunSound
  <2> QED
    BY <1>1, <2>1
<1>4. PICK t \in people, c \in BOOLEAN : r = [e EXCEPT !.stage = "Playing", !.turn = t, !.choosing = c]
  BY <1>3
<1> QED
  BY <1>1, <1>4 DEF R!Rounds

-----------------------------------------------------------------------------
(* The inductive invariant *)

\* A call has what its operation needs, and only an identified request is answered.
CallSound(k) ==
  /\ k.op \in {"action", "skip", "vote", "publish"} => k.game \in Games
  /\ k.op = "action" => k.request \in ActionRequests \cup {None}
  /\ k.op = "action" /\ k.request # None => k.player \in Players
  /\ k.op \in {"vote", "publish"} => k.player \in Players /\ k.request \in VoteRequests
  /\ k.op = "reset" => k.chat \in Chats
  /\ k.answer # "none" => k.op = "action" /\ k.request # None

CallsSound == \A c \in Callers : CallSound(call[c])

Publishing(c, g) == call[c].op = "publish" /\ call[c].game = g

\* Who holds a game over two steps is alone, and finds it as it was: over, not
\* reset, without a rematch.
PublishHolds ==
  \A g \in Games :
    /\ \A c \in Callers : Publishing(c, g) => IsFinal(g) /\ games[g].next = None
    /\ \A c, d \in Callers : Publishing(c, g) /\ Publishing(d, g) => c = d

\* The routes of a player are dropped by the roster, so it has everybody seated.
SeatsOnRoster == \A g \in Games : IsOpen(g) => games[g].engine.seated \subseteq games[g].engine.roster

\* An answer given stays on record.
DoneHasReceipt ==
  \A c \in Callers : call[c].answer = "done" =>
    Exists(call[c].game) /\ <<call[c].player, call[c].request>> \in games[call[c].game].receipts

ServiceInv ==
  /\ StateTypeOK
  /\ CallsSound
  /\ PublishHolds
  /\ SeatsOnRoster
  /\ DoneHasReceipt
  /\ IndicesAgree

\* A game with an engine is an open game, one without a closed game.
LEMMA GameIs ==
  ASSUME StateTypeOK, NEW g \in Games
  PROVE  /\ IsOpen(g) => games[g] \in OpenGame /\ games[g].engine \in R!Rounds
         /\ Exists(g) /\ ~IsOpen(g) => games[g] \in ClosedGame
         /\ Exists(g) => games[g].chat \in Chats \cup {None}
         /\ IsFinal(g) => ~IsOpen(g)
<1>1. games[g] \in OpenGame \cup ClosedGame \cup {None}
  BY DEF StateTypeOK
<1>2. CASE games[g] \in OpenGame
  <2>1. games[g] # None /\ games[g].engine \in R!Rounds /\ games[g].engine # None
    BY <1>2 DEF OpenGame
  <2>2. games[g].chat \in Chats \cup {None}
    BY <1>2 DEF OpenGame
  <2> QED
    BY <1>2, <2>1, <2>2 DEF IsOpen, Exists, IsFinal
<1>3. CASE games[g] \in ClosedGame
  <2>1. games[g] # None /\ games[g].engine = None
    BY <1>3 DEF ClosedGame
  <2>2. games[g].chat \in Chats \cup {None}
    BY <1>3 DEF ClosedGame
  <2> QED
    BY <1>3, <2>1, <2>2 DEF IsOpen, Exists, IsFinal
<1> QED
  BY <1>1, <1>2, <1>3 DEF IsOpen, Exists, IsFinal

Record(d) ==
  d = [chat |-> d.chat, creator |-> d.creator, owner |-> d.owner, locked |-> d.locked, started |-> d.started,
       deadline |-> d.deadline, revision |-> d.revision, engine |-> d.engine, reset |-> d.reset,
       receipts |-> d.receipts, required |-> d.required, accepted |-> d.accepted,
       ballotReceipts |-> d.ballotReceipts, next |-> d.next]

OpenFields(d) ==
  /\ d.chat \in Chats \cup {None} /\ d.creator \in Players /\ d.owner \in Players
  /\ d.locked \in BOOLEAN /\ d.started \in BOOLEAN /\ d.deadline \in 0 .. TurnTime
  /\ d.revision \in Nat /\ d.engine \in R!Rounds /\ d.reset = FALSE
  /\ d.receipts \in SUBSET (Players \X ActionRequests)
  /\ d.required = {} /\ d.accepted = {} /\ d.ballotReceipts = {} /\ d.next = None

ClosedFields(d) ==
  /\ d.chat \in Chats \cup {None} /\ d.creator \in Players /\ d.owner = None
  /\ d.locked \in BOOLEAN /\ d.started \in BOOLEAN /\ d.deadline = 0
  /\ d.revision \in Nat /\ d.engine = None /\ d.reset \in BOOLEAN
  /\ d.receipts \in SUBSET (Players \X ActionRequests)
  /\ d.required \in SUBSET Players /\ d.accepted \in SUBSET Players
  /\ d.ballotReceipts \in SUBSET (Players \X VoteRequests) /\ d.next \in Games \cup {None}

\* What it takes to be an open game, field by field.
LEMMA OpenIs == \A d : d \in OpenGame <=> Record(d) /\ OpenFields(d)
<1>1. ASSUME NEW d \in OpenGame PROVE Record(d) /\ OpenFields(d)
  <2>1. Record(d)
    BY DEF Record, OpenGame
  <2>2. OpenFields(d)
    BY DEF OpenFields, OpenGame
  <2> QED
    BY <2>1, <2>2
<1>2. ASSUME NEW d, Record(d), OpenFields(d) PROVE d \in OpenGame
  BY <1>2 DEF Record, OpenFields, OpenGame
<1> QED
  BY <1>1, <1>2

\* And a closed one.
LEMMA ClosedIs == \A d : d \in ClosedGame <=> Record(d) /\ ClosedFields(d)
<1>1. ASSUME NEW d \in ClosedGame PROVE Record(d) /\ ClosedFields(d)
  <2>1. Record(d)
    BY DEF Record, ClosedGame
  <2>2. ClosedFields(d)
    BY DEF ClosedFields, ClosedGame
  <2> QED
    BY <2>1, <2>2
<1>2. ASSUME NEW d, Record(d), ClosedFields(d) PROVE d \in ClosedGame
  BY <1>2 DEF Record, ClosedFields, ClosedGame
<1> QED
  BY <1>1, <1>2

\* A game that has moved on is an open game or a closed one.
LEMMA AdvancedSound ==
  ASSUME StateTypeOK, NEW g \in Games, IsOpen(g), SeatsOnRoster,
         NEW kind \in R!Kinds, NEW p \in Players \cup {None}, kind # "SkipTurn" => p \in Players,
         NEW after \in R!Moves(games[g].engine, kind, p),
         NEW owner \in Owners(games[g], after)
  PROVE  LET e == games[g]
             n == Advanced(e, kind, after, owner)
         IN  /\ n \in OpenGame \cup ClosedGame
             /\ n.chat = e.chat /\ n.reset = FALSE /\ n.next = None /\ n.receipts = e.receipts
             /\ n.engine = IF after.stage = "Over" THEN None ELSE after
             /\ n.deadline = Deadline(e, after)
             /\ after \in R!Rounds /\ after.seated \subseteq after.roster
<1> DEFINE e == games[g]
           n == Advanced(e, kind, after, owner)
<1>1. e \in OpenGame /\ e.engine \in R!Rounds /\ e.engine.seated \subseteq e.engine.roster
  BY GameIs DEF SeatsOnRoster
<1>2. after \in R!Rounds /\ after.seated \subseteq after.roster
  BY <1>1, MovesSound
<1>3. /\ e.chat \in Chats \cup {None} /\ e.creator \in Players /\ e.owner \in Players
      /\ e.locked \in BOOLEAN /\ e.started \in BOOLEAN /\ e.deadline \in 0 .. TurnTime
      /\ e.revision \in Nat /\ e.reset = FALSE /\ e.receipts \in SUBSET (Players \X ActionRequests)
      /\ e.accepted = {} /\ e.ballotReceipts = {} /\ e.next = None
  BY <1>1 DEF OpenGame
<1>4. /\ DOMAIN e = {"chat", "creator", "owner", "locked", "started", "deadline", "revision", "engine",
                     "reset", "receipts", "required", "accepted", "ballotReceipts", "next"}
      /\ after.stage \in {"Lobby", "Playing", "Over"} /\ after.turn \in Players \cup {None}
      /\ after.seated \subseteq Players /\ after.roster \subseteq Players
  BY <1>1, <1>2 DEF OpenGame, R!Rounds
<1> DEFINE en == IF after.stage = "Over" THEN None ELSE after
           st == e.started \/ kind = "StartGame"
           dl == Deadline(e, after)
           rq == IF after.stage = "Over" THEN Offered(kind, after) ELSE {}
<1>5. /\ n.chat = e.chat /\ n.reset = FALSE /\ n.next = None /\ n.receipts = e.receipts
      /\ n.engine = en /\ n.deadline = dl
      /\ n = [chat |-> e.chat, creator |-> e.creator, owner |-> owner, locked |-> e.locked,
              started |-> st, deadline |-> dl, revision |-> e.revision + 1, engine |-> en,
              reset |-> e.reset, receipts |-> e.receipts, required |-> rq,
              accepted |-> e.accepted, ballotReceipts |-> e.ballotReceipts, next |-> e.next]
  <2>1. n = [e EXCEPT !.engine = en, !.revision = @ + 1, !.started = st, !.owner = owner,
                      !.deadline = dl, !.required = rq]
    BY DEF Advanced
  <2> HIDE DEF e, n, en, st, dl, rq
  <2> QED
    BY <1>1, <1>3, <2>1 DEF OpenGame
<1>6. /\ after.stage = "Over" => owner = None /\ Deadline(e, after) = 0 /\ Offered(kind, after) \subseteq Players
      /\ after.stage # "Over" => owner \in Players /\ Deadline(e, after) \in 0 .. TurnTime
  <2>1. CASE after.stage = "Over"
    BY <1>4, <2>1 DEF Owners, Deadline, Offered
  <2>2. CASE after.stage # "Over"
    <3>1. owner \in Players
      BY <1>3, <1>4, <2>2 DEF Owners
    <3>2. Deadline(e, after) \in 0 .. TurnTime
      <4>1. TurnTime \in 0 .. TurnTime
        OBVIOUS
      <4> QED
        BY <1>3, <2>2, <4>1, Zenon DEF Deadline
    <3> QED
      BY <2>2, <3>1, <3>2
  <2> QED
    BY <2>1, <2>2
<1>7. st \in BOOLEAN
  BY <1>3
<1> HIDE DEF e, n, st, dl, en, rq
<1>8. ASSUME after.stage = "Over" PROVE n \in ClosedGame
  <2>1. en = None /\ rq \in SUBSET Players /\ dl = 0 /\ owner = None
    BY <1>6, <1>8 DEF en, rq, dl
  <2>2. e.accepted \in SUBSET Players /\ e.ballotReceipts \in SUBSET (Players \X VoteRequests) /\ e.reset \in BOOLEAN
    BY <1>3
  <2> QED
    BY <1>3, <1>5, <1>7, <2>1, <2>2 DEF ClosedGame
<1>9. ASSUME after.stage # "Over" PROVE n \in OpenGame
  <2>1. en \in R!Rounds /\ rq = {} /\ dl \in 0 .. TurnTime /\ owner \in Players
    BY <1>2, <1>6, <1>9 DEF en, rq, dl
  <2>2. Record(n)
    BY <1>5 DEF Record
  <2>3. OpenFields(n)
    BY <1>3, <1>5, <1>7, <2>1 DEF OpenFields
  <2> QED
    BY <2>2, <2>3, OpenIs
<1> QED
  BY <1>2, <1>5, <1>8, <1>9 DEF e, n, dl, en

-----------------------------------------------------------------------------
(* The indices *)

\* A summary is one, whatever became of its game.
LEMMA SummarySound ==
  ASSUME NEW n \in OpenGame \cup ClosedGame
  PROVE  Summary(n) \in Summaries /\ Summary(n) # None /\ Summary(n).chat = n.chat
<1>1. /\ n.chat \in Chats \cup {None} /\ n.owner \in Players \cup {None}
      /\ n.locked \in BOOLEAN /\ n.revision \in Nat
  BY OpenIs, ClosedIs DEF OpenFields, ClosedFields
<1>2. (n.engine = None) \in BOOLEAN
  OBVIOUS
<1>3. Summary(n) \in Summaries
  BY <1>1, <1>2 DEF Summary, Summaries
<1> QED
  BY <1>3 DEF Summary

\* A game that stays where and what it was stays in the same indices.
LEMMA SameAgrees ==
  ASSUME StateTypeOK, IndicesAgree, NEW g \in Games, Exists(g),
         NEW n \in OpenGame \cup ClosedGame,
         n.chat = games[g].chat, n.engine = games[g].engine, n.reset = games[g].reset,
         games' = [games EXCEPT ![g] = n],
         byID' = [x \in Games |-> IF x = g /\ Listed(g) THEN Summary(n) ELSE byID[x]],
         byChat' = byChat, byPlayer' = byPlayer, history' = history
  PROVE  IndicesAgree' /\ byID' \in [Games -> Summaries \cup {None}]
<1>1. games \in [Games -> OpenGame \cup ClosedGame \cup {None}] /\ byID \in [Games -> Summaries \cup {None}]
  BY DEF StateTypeOK
<1>2. Summary(n) \in Summaries /\ Summary(n) # None
  BY SummarySound
<1>3. n # None
  OBVIOUS
<1>4. ASSUME NEW x \in Games
      PROVE  /\ Exists(x)' <=> Exists(x)
             /\ IsOpen(x)' <=> IsOpen(x)
             /\ Listed(x)' <=> Listed(x)
             /\ games'[x].chat = games[x].chat /\ games'[x].engine = games[x].engine
             /\ games'[x].reset = games[x].reset
  BY <1>1, <1>2, <1>3 DEF Exists, IsOpen, Listed
<1>5. ChatsAgree'
  BY <1>4 DEF IndicesAgree, ChatsAgree
<1>6. PlayersAgree'
  BY <1>4 DEF IndicesAgree, PlayersAgree
<1>7. SummariesAgree'
  <2>1. ASSUME NEW x \in Games, Listed(x)' PROVE byID'[x] = Summary(games'[x])
    BY <1>1, <1>4, <2>1 DEF IndicesAgree, SummariesAgree
  <2> QED
    BY <1>4, <2>1 DEF IndicesAgree, SummariesAgree
<1>8. HistoryAgrees'
  BY <1>4 DEF IndicesAgree, HistoryAgrees
<1>9. byID' \in [Games -> Summaries \cup {None}]
  BY <1>1, <1>2
<1> QED
  BY <1>5, <1>6, <1>7, <1>8, <1>9 DEF IndicesAgree

\* A new game enters every index, and the others are for the indices what they were.
Enters(n, fresh) ==
  /\ byID' = [byID EXCEPT ![n] = Summary(fresh)]
  /\ byChat' = IF fresh.chat = None THEN byChat ELSE [byChat EXCEPT ![fresh.chat] = n]
  /\ byPlayer' = [p \in Players |-> IF p \in fresh.engine.seated THEN byPlayer[p] \cup {n} ELSE byPlayer[p]]
  /\ history' = history

OthersStay(n) ==
  \A x \in Games \ {n} :
    /\ games'[x] # None <=> games[x] # None
    /\ games'[x].chat = games[x].chat /\ games'[x].engine = games[x].engine
    /\ games'[x].reset = games[x].reset /\ Summary(games'[x]) = Summary(games[x])
    /\ games'[x].receipts = games[x].receipts

\* A new game in a vacant place agrees with every index.
LEMMA OpensAgree ==
  ASSUME StateTypeOK, IndicesAgree, NEW n \in Games, games[n] = None,
         NEW fresh \in OpenGame, fresh.chat # None => byChat[fresh.chat] = None,
         games'[n] = fresh, OthersStay(n), Enters(n, fresh)
  PROVE  /\ IndicesAgree'
         /\ byID' \in [Games -> Summaries \cup {None}]
         /\ byChat' \in [Chats -> Games \cup {None}]
         /\ byPlayer' \in [Players -> SUBSET Games]
<1>1. /\ byID \in [Games -> Summaries \cup {None}] /\ byChat \in [Chats -> Games \cup {None}]
      /\ byPlayer \in [Players -> SUBSET Games] /\ history \in Seq(Games)
  BY DEF StateTypeOK
<1>0. /\ byID' = [byID EXCEPT ![n] = Summary(fresh)]
      /\ byChat' = IF fresh.chat = None THEN byChat ELSE [byChat EXCEPT ![fresh.chat] = n]
      /\ byPlayer' = [p \in Players |-> IF p \in fresh.engine.seated THEN byPlayer[p] \cup {n} ELSE byPlayer[p]]
      /\ history' = history
  BY DEF Enters
<1>2. Summary(fresh) \in Summaries /\ Summary(fresh) # None
  BY SummarySound
<1>3. fresh # None /\ fresh.engine # None /\ fresh.reset = FALSE /\ fresh.chat \in Chats \cup {None}
  BY OpenIs DEF OpenFields
<1>4. ~Exists(n) /\ ~IsOpen(n) /\ ~Listed(n)
  BY DEF Exists, IsOpen, IndicesAgree, SummariesAgree
<1>5. Exists(n)' /\ IsOpen(n)' /\ Listed(n)'
  BY <1>0, <1>1, <1>2, <1>3 DEF Exists, IsOpen, Listed
<1>6. ASSUME NEW x \in Games, x # n
      PROVE  /\ Exists(x)' <=> Exists(x)
             /\ IsOpen(x)' <=> IsOpen(x)
             /\ Listed(x)' <=> Listed(x)
             /\ games'[x].chat = games[x].chat /\ games'[x].engine = games[x].engine
             /\ games'[x].reset = games[x].reset /\ Summary(games'[x]) = Summary(games[x])
             /\ byID'[x] = byID[x]
  BY <1>0, <1>1, <1>6 DEF Exists, IsOpen, Listed, OthersStay
<1>7. ChatsAgree'
  <2> SUFFICES ASSUME NEW chat \in Chats, NEW x \in Games
               PROVE  byChat'[chat] = x <=> IsOpen(x)' /\ games'[x].chat = chat
    BY DEF ChatsAgree
  <2>1. byChat[chat] = x <=> IsOpen(x) /\ games[x].chat = chat
    BY DEF IndicesAgree, ChatsAgree
  <2>2. CASE x = n
    BY <1>0, <1>1, <1>3, <1>4, <1>5, <2>1, <2>2 DEF Chats
  <2>3. CASE x # n
    BY <1>0, <1>1, <1>3, <1>6, <2>1, <2>3
  <2> QED
    BY <2>2, <2>3
<1>8. PlayersAgree'
  <2> SUFFICES ASSUME NEW p \in Players, NEW x \in Games
               PROVE  x \in byPlayer'[p] <=> IsOpen(x)' /\ p \in games'[x].engine.seated
    BY DEF PlayersAgree
  <2>1. x \in byPlayer[p] <=> IsOpen(x) /\ p \in games[x].engine.seated
    BY DEF IndicesAgree, PlayersAgree
  <2>2. CASE x = n
    BY <1>0, <1>4, <1>5, <2>1, <2>2
  <2>3. CASE x # n
    BY <1>0, <1>6, <2>1, <2>3
  <2> QED
    BY <2>2, <2>3
<1>9. SummariesAgree'
  <2> SUFFICES ASSUME NEW x \in Games
               PROVE  /\ Listed(x)' => Exists(x)' /\ byID'[x] = Summary(games'[x]) /\ ~games'[x].reset
                      /\ IsOpen(x)' => Listed(x)'
    BY DEF SummariesAgree
  <2>1. CASE x = n
    BY <1>0, <1>1, <1>3, <1>5, <2>1
  <2>2. CASE x # n
    BY <1>6, <2>2 DEF IndicesAgree, SummariesAgree
  <2> QED
    BY <2>1, <2>2
<1>10. HistoryAgrees'
  <2>1. ASSUME NEW x \in Games
        PROVE  (\E i \in DOMAIN history : history[i] = x) <=> Listed(x)' /\ ~IsOpen(x)'
    <3>1. (\E i \in DOMAIN history : history[i] = x) <=> Listed(x) /\ ~IsOpen(x)
      BY DEF IndicesAgree, HistoryAgrees
    <3>2. CASE x = n
      BY <1>4, <1>5, <3>1, <3>2
    <3>3. CASE x # n
      BY <1>6, <3>1, <3>3
    <3> QED
      BY <3>2, <3>3
  <2> QED
    BY <1>0, <2>1 DEF IndicesAgree, HistoryAgrees
<1>11. /\ byID' \in [Games -> Summaries \cup {None}]
       /\ byChat' \in [Chats -> Games \cup {None}]
       /\ byPlayer' \in [Players -> SUBSET Games]
  BY <1>0, <1>1, <1>2, <1>3
<1> QED
  BY <1>7, <1>8, <1>9, <1>10, <1>11 DEF IndicesAgree

\* What publishing does to an open game, in the indices of everybody.
LEMMA PublishAgrees ==
  ASSUME StateTypeOK, IndicesAgree, SeatsOnRoster, NEW g \in Games, IsOpen(g),
         NEW n \in OpenGame \cup ClosedGame, n.chat = games[g].chat, n.reset = FALSE,
         NEW owed, Publish(g, n, owed)
  PROVE  /\ IndicesAgree'
         /\ byID' \in [Games -> Summaries \cup {None}]
         /\ byChat' \in [Chats -> Games \cup {None}]
         /\ byPlayer' \in [Players -> SUBSET Games]
         /\ history' \in Seq(Games)
         /\ pendingResults' \subseteq Games
<1> DEFINE closes == n.engine = None
           closed == Append(history, g)
           evicted == IF closes /\ Len(closed) > HistoryLimit THEN {Head(closed)} ELSE {}
<1>1. /\ games \in [Games -> OpenGame \cup ClosedGame \cup {None}]
      /\ byID \in [Games -> Summaries \cup {None}] /\ byChat \in [Chats -> Games \cup {None}]
      /\ byPlayer \in [Players -> SUBSET Games] /\ history \in Seq(Games) /\ pendingResults \subseteq Games
  BY DEF StateTypeOK
<1>2. /\ games' = [games EXCEPT ![g] = n]
      /\ byPlayer' = Routes(g, games[g].engine, n.engine)
      /\ pendingResults' = pendingResults \cup (IF owed THEN {g} ELSE {})
      /\ byID' = [x \in Games |-> IF x \in evicted THEN None ELSE IF x = g THEN Summary(n) ELSE byID[x]]
      /\ byChat' = IF closes /\ n.chat # None THEN [byChat EXCEPT ![n.chat] = None] ELSE byChat
      /\ history' = IF ~closes THEN history ELSE IF evicted # {} THEN Tail(closed) ELSE closed
  BY DEF Publish
<1>3. Summary(n) \in Summaries /\ Summary(n) # None /\ n # None /\ n.chat \in Chats \cup {None}
  BY SummarySound, GameIs DEF IsOpen
<1>4. Exists(g) /\ Listed(g) /\ games[g].engine.seated \subseteq games[g].engine.roster
  BY DEF IndicesAgree, SummariesAgree, SeatsOnRoster, IsOpen
<1>5. \A i \in DOMAIN history : history[i] # g
  BY DEF IndicesAgree, HistoryAgrees
<1>6. /\ closed \in Seq(Games) /\ closed # <<>> /\ Len(closed) = Len(history) + 1 /\ Len(history) \in Nat
      /\ \A i \in 1 .. Len(history) : closed[i] = history[i]
      /\ closed[Len(history) + 1] = g /\ Head(closed) = closed[1]
      /\ DOMAIN history = 1 .. Len(history) /\ DOMAIN closed = 1 .. Len(closed)
  BY <1>1, AppendProperties
<1>7. /\ Tail(closed) \in Seq(Games) /\ Len(Tail(closed)) = Len(history)
      /\ \A i \in 1 .. Len(history) : Tail(closed)[i] = closed[i + 1]
  BY <1>6
<1> HIDE DEF closed
<1>8. \A i, j \in 1 .. Len(closed) : closed[i] = closed[j] => i = j
  BY <1>5, <1>6 DEF IndicesAgree, HistoryAgrees
<1>9. evicted \subseteq Games
  BY <1>6
\* Nobody is evicted but a closed game, this one included.
<1>10. ASSUME NEW x \in evicted PROVE closes /\ (x = g \/ (~IsOpen(x) /\ x # g))
  <2>1. closes /\ x = closed[1]
    BY <1>6
  <2>2. CASE Len(history) = 0
    BY <1>6, <2>1, <2>2
  <2>3. CASE Len(history) > 0
    <3>1. x = history[1] /\ 1 \in DOMAIN history
      BY <1>6, <2>1, <2>3
    <3> QED
      BY <1>5, <1>9, <2>1, <3>1 DEF IndicesAgree, HistoryAgrees
  <2> QED
    BY <1>6, <2>2, <2>3
<1> HIDE DEF evicted
<1>11. ASSUME NEW x \in Games, x # g
       PROVE  /\ Exists(x)' <=> Exists(x)
              /\ IsOpen(x)' <=> IsOpen(x)
              /\ games'[x] = games[x]
              /\ Listed(x)' <=> (Listed(x) /\ x \notin evicted)
              /\ x \notin evicted => byID'[x] = byID[x]
  BY <1>1, <1>2, <1>11 DEF Exists, IsOpen, Listed
<1>12. /\ games'[g] = n /\ Exists(g)' /\ (IsOpen(g)' <=> ~closes)
       /\ Listed(g)' <=> g \notin evicted
       /\ g \notin evicted => byID'[g] = Summary(n)
  BY <1>1, <1>2, <1>3 DEF Exists, IsOpen, Listed
<1> HIDE DEF closes
<1>13. ChatsAgree'
  <2> SUFFICES ASSUME NEW chat \in Chats, NEW x \in Games
               PROVE  byChat'[chat] = x <=> IsOpen(x)' /\ games'[x].chat = chat
    BY DEF ChatsAgree
  <2>1. byChat[chat] = x <=> IsOpen(x) /\ games[x].chat = chat
    BY DEF IndicesAgree, ChatsAgree
  <2>2. byChat[chat] = g <=> games[g].chat = chat
    BY DEF IndicesAgree, ChatsAgree
  <2>3. chat # None /\ x # None
    BY DEF Chats
  <2>4. CASE x = g
    BY <1>1, <1>2, <1>12, <2>2, <2>3, <2>4
  <2>5. CASE x # g
    BY <1>1, <1>2, <1>11, <2>1, <2>2, <2>3, <2>5
  <2> QED
    BY <2>4, <2>5
<1>14. PlayersAgree'
  <2> SUFFICES ASSUME NEW p \in Players, NEW x \in Games
               PROVE  x \in byPlayer'[p] <=> IsOpen(x)' /\ p \in games'[x].engine.seated
    BY DEF PlayersAgree
  <2>1. x \in byPlayer[p] <=> IsOpen(x) /\ p \in games[x].engine.seated
    BY DEF IndicesAgree, PlayersAgree
  <2>2. byPlayer'[p] = IF n.engine # None /\ p \in n.engine.seated THEN byPlayer[p] \cup {g}
                       ELSE IF p \in games[g].engine.roster THEN byPlayer[p] \ {g} ELSE byPlayer[p]
    BY <1>2 DEF Routes
  <2>3. CASE x = g
    BY <1>4, <1>12, <2>1, <2>2, <2>3 DEF closes
  <2>4. CASE x # g
    BY <1>11, <2>1, <2>2, <2>4
  <2> QED
    BY <2>3, <2>4
<1>15. SummariesAgree'
  <2> SUFFICES ASSUME NEW x \in Games
               PROVE  /\ Listed(x)' => Exists(x)' /\ byID'[x] = Summary(games'[x]) /\ ~games'[x].reset
                      /\ IsOpen(x)' => Listed(x)'
    BY DEF SummariesAgree
  <2>1. CASE x = g
    BY <1>10, <1>12, <2>1
  <2>2. CASE x # g
    BY <1>10, <1>11, <2>2 DEF IndicesAgree, SummariesAgree
  <2> QED
    BY <2>1, <2>2
<1>16. HistoryAgrees'
  <2>1. Len(history) <= HistoryLimit /\ HistoryLimit \in Nat
    BY DEF IndicesAgree, HistoryAgrees
  <2>2. \A i, j \in DOMAIN history : history[i] = history[j] => i = j
    BY DEF IndicesAgree, HistoryAgrees
  <2>3. \A x \in Games : (\E i \in DOMAIN history : history[i] = x) <=> Listed(x) /\ ~IsOpen(x)
    BY DEF IndicesAgree, HistoryAgrees
  <2>4. CASE ~closes
    <3>1. history' = history /\ evicted = {}
      BY <1>2, <2>4 DEF evicted
    <3>2. ASSUME NEW x \in Games
          PROVE  (\E i \in DOMAIN history : history[i] = x) <=> Listed(x)' /\ ~IsOpen(x)'
      <4>1. CASE x = g
        BY <1>5, <1>12, <2>4, <4>1
      <4>2. CASE x # g
        BY <1>11, <2>3, <3>1, <4>2
      <4> QED
        BY <4>1, <4>2
    <3> QED
      BY <2>1, <2>2, <3>1, <3>2 DEF HistoryAgrees
  <2>5. ASSUME closes, NEW x \in Games
        PROVE  (\E i \in 1 .. Len(closed) : closed[i] = x) <=> x = g \/ (Listed(x) /\ ~IsOpen(x))
    <3>1. (\E i \in 1 .. Len(closed) : closed[i] = x) <=> x = g \/ \E i \in 1 .. Len(history) : history[i] = x
      BY <1>6
    <3> QED
      BY <1>6, <2>3, <3>1
  <2>6. CASE closes /\ evicted = {}
    <3>1. history' = closed /\ Len(closed) <= HistoryLimit
      <4>1. ASSUME Len(closed) > HistoryLimit PROVE FALSE
        <5>1. evicted = {Head(closed)}
          BY <2>6, <4>1, Zenon DEF evicted
        <5> QED
          BY <2>6, <5>1, Zenon
      <4>2. Len(closed) <= HistoryLimit
        BY <1>6, <2>1, <4>1
      <4> QED
        BY <1>2, <2>6, <4>2
    <3>2. ASSUME NEW x \in Games
          PROVE  (\E i \in 1 .. Len(closed) : closed[i] = x) <=> Listed(x)' /\ ~IsOpen(x)'
      BY <1>11, <1>12, <2>5, <2>6
    <3> QED
      BY <1>6, <1>8, <3>1, <3>2 DEF HistoryAgrees
  <2>7. CASE closes /\ evicted # {}
    <3>1. history' = Tail(closed) /\ evicted = {closed[1]}
      BY <1>2, <1>6, <2>7 DEF evicted
    <3>2. Len(history') = Len(history) /\ DOMAIN history' = 1 .. Len(history)
      BY <1>7, <3>1
    <3>3. \A i, j \in 1 .. Len(history) : history'[i] = history'[j] => i = j
      <4> SUFFICES ASSUME NEW i \in 1 .. Len(history), NEW j \in 1 .. Len(history), history'[i] = history'[j]
                   PROVE  i = j
        OBVIOUS
      <4>1. closed[i + 1] = closed[j + 1] /\ i + 1 \in 1 .. Len(closed) /\ j + 1 \in 1 .. Len(closed)
        BY <1>6, <1>7, <3>1
      <4>2. i + 1 = j + 1
        BY <1>8, <4>1
      <4> QED
        BY <1>6, <4>2
    <3>4. ASSUME NEW x \in Games
          PROVE  (\E i \in 1 .. Len(history) : history'[i] = x)
                   <=> (\E i \in 1 .. Len(closed) : closed[i] = x) /\ x # closed[1]
      <4>1. ASSUME NEW i \in 1 .. Len(history), history'[i] = x
            PROVE  (\E k \in 1 .. Len(closed) : closed[k] = x) /\ x # closed[1]
        <5>1. closed[i + 1] = x /\ i + 1 \in 1 .. Len(closed) /\ 1 \in 1 .. Len(closed) /\ i + 1 # 1
          BY <1>6, <1>7, <3>1, <4>1
        <5> QED
          BY <1>8, <5>1
      <4>2. ASSUME NEW k \in 1 .. Len(closed), closed[k] = x, x # closed[1]
            PROVE  \E i \in 1 .. Len(history) : history'[i] = x
        <5>1. k - 1 \in 1 .. Len(history) /\ (k - 1) + 1 = k
          BY <1>6, <4>2
        <5>2. history'[k - 1] = closed[k]
          BY <1>7, <3>1, <5>1
        <5> QED
          BY <4>2, <5>1, <5>2
      <4> QED
        BY <4>1, <4>2
    <3>5. ASSUME NEW x \in Games
          PROVE  (\E i \in 1 .. Len(history) : history'[i] = x) <=> Listed(x)' /\ ~IsOpen(x)'
      <4>1. (\E i \in 1 .. Len(history) : history'[i] = x)
              <=> (x = g \/ (Listed(x) /\ ~IsOpen(x))) /\ x \notin evicted
        <5>1. x \notin evicted <=> x # closed[1]
          BY <3>1
        <5> HIDE DEF evicted
        <5> QED
          BY <2>5, <2>7, <3>4, <5>1, Zenon
      <4>2. CASE x = g
        BY <1>12, <2>7, <4>1, <4>2, Zenon
      <4>3. CASE x # g
        BY <1>11, <4>1, <4>3, Zenon
      <4> QED
        BY <4>2, <4>3
    <3> QED
      BY <2>1, <3>2, <3>3, <3>5 DEF HistoryAgrees
  <2> QED
    BY <2>4, <2>6, <2>7
<1>17. byID' \in [Games -> Summaries \cup {None}] /\ byChat' \in [Chats -> Games \cup {None}]
  BY <1>1, <1>2, <1>3
<1>18. byPlayer' \in [Players -> SUBSET Games]
  BY <1>1, <1>2 DEF Routes
<1>19. history' \in Seq(Games) /\ pendingResults' \subseteq Games
  BY <1>1, <1>2, <1>6, <1>7
<1> QED
  BY <1>13, <1>14, <1>15, <1>16, <1>17, <1>18, <1>19 DEF IndicesAgree

\* A reset takes a whole chat out of the indices, its open game closed with it.
LEMMA PurgeAgrees ==
  ASSUME StateTypeOK, IndicesAgree, NEW chat \in Chats, Purge(chat),
         \A x \in Games : \/ games'[x] = games[x]
                          \/ IsOpen(x) /\ games[x].chat = chat /\ Exists(x)' /\ ~IsOpen(x)',
         \A x \in Games : byChat[chat] = x => ~IsOpen(x)'
  PROVE  /\ IndicesAgree'
         /\ byID' \in [Games -> Summaries \cup {None}]
         /\ byChat' \in [Chats -> Games \cup {None}]
         /\ byPlayer' \in [Players -> SUBSET Games]
         /\ history' \in Seq(Games)
         /\ purged' \subseteq Games
<1> DEFINE removed == {g \in Games : Listed(g) /\ byID[g].chat = chat}
           kept == Games \ removed
<1>1. /\ byID \in [Games -> Summaries \cup {None}] /\ byChat \in [Chats -> Games \cup {None}]
      /\ byPlayer \in [Players -> SUBSET Games] /\ history \in Seq(Games) /\ purged \subseteq Games
  BY DEF StateTypeOK
<1>2. /\ byID' = [g \in Games |-> IF g \in removed THEN None ELSE byID[g]]
      /\ byChat' = [byChat EXCEPT ![chat] = None]
      /\ byPlayer' = [p \in Players |-> byPlayer[p] \ removed]
      /\ history' = Sift(history, kept)
      /\ purged' = purged \cup removed
  BY DEF Purge
<1>3. ASSUME NEW x \in Games PROVE x \in removed <=> Listed(x) /\ games[x].chat = chat
  <2>1. Listed(x) => byID[x] = Summary(games[x])
    BY DEF IndicesAgree, SummariesAgree
  <2>2. Summary(games[x]).chat = games[x].chat
    BY DEF Summary
  <2> QED
    BY <2>1, <2>2
<1>4. removed \subseteq Games /\ kept \subseteq Games
  OBVIOUS
<1>5. ASSUME NEW x \in Games, x \in removed PROVE ~IsOpen(x)' /\ ~Listed(x)'
  <2>1. ~Listed(x)'
    BY <1>2, <1>5 DEF Listed
  <2>2. CASE games'[x] = games[x] /\ IsOpen(x)
    <3>1. byChat[chat] = x
      BY <1>3, <1>5, <2>2 DEF IndicesAgree, ChatsAgree
    <3> QED
      BY <2>1, <3>1
  <2>3. CASE games'[x] = games[x] /\ ~IsOpen(x)
    BY <2>1, <2>3 DEF IsOpen, Exists
  <2> QED
    BY <2>1, <2>2, <2>3
<1>6. ASSUME NEW x \in Games, x \notin removed
      PROVE  games'[x] = games[x] /\ byID'[x] = byID[x]
  <2>1. IsOpen(x) => Listed(x)
    BY DEF IndicesAgree, SummariesAgree
  <2>2. games'[x] = games[x]
    BY <1>3, <1>6, <2>1
  <2> QED
    BY <1>2, <1>6, <2>2
<1>7. ASSUME NEW x \in Games, x \notin removed
      PROVE  /\ Exists(x)' <=> Exists(x)
             /\ IsOpen(x)' <=> IsOpen(x)
             /\ Listed(x)' <=> Listed(x)
  BY <1>6, <1>7 DEF Exists, IsOpen, Listed
<1> HIDE DEF removed
<1>8. ChatsAgree'
  <2> SUFFICES ASSUME NEW d \in Chats, NEW x \in Games
               PROVE  byChat'[d] = x <=> IsOpen(x)' /\ games'[x].chat = d
    BY DEF ChatsAgree
  <2>1. byChat[d] = x <=> IsOpen(x) /\ games[x].chat = d
    BY DEF IndicesAgree, ChatsAgree
  <2>2. byChat'[d] = IF d = chat THEN None ELSE byChat[d]
    BY <1>1, <1>2
  <2>3. IsOpen(x) => Listed(x)
    BY DEF IndicesAgree, SummariesAgree
  <2>4. CASE x \in removed
    BY <1>3, <1>5, <2>1, <2>2, <2>4
  <2>5. CASE x \notin removed
    BY <1>3, <1>6, <1>7, <2>1, <2>2, <2>3, <2>5
  <2> QED
    BY <2>4, <2>5
<1>9. PlayersAgree'
  <2> SUFFICES ASSUME NEW p \in Players, NEW x \in Games
               PROVE  x \in byPlayer'[p] <=> IsOpen(x)' /\ p \in games'[x].engine.seated
    BY DEF PlayersAgree
  <2>1. x \in byPlayer[p] <=> IsOpen(x) /\ p \in games[x].engine.seated
    BY DEF IndicesAgree, PlayersAgree
  <2>2. CASE x \in removed
    BY <1>2, <1>5, <2>2
  <2>3. CASE x \notin removed
    BY <1>2, <1>6, <1>7, <2>1, <2>3
  <2> QED
    BY <2>2, <2>3
<1>10. SummariesAgree'
  <2> SUFFICES ASSUME NEW x \in Games
               PROVE  /\ Listed(x)' => Exists(x)' /\ byID'[x] = Summary(games'[x]) /\ ~games'[x].reset
                      /\ IsOpen(x)' => Listed(x)'
    BY DEF SummariesAgree
  <2>1. CASE x \in removed
    BY <1>5, <2>1
  <2>2. CASE x \notin removed
    BY <1>6, <1>7, <2>2 DEF IndicesAgree, SummariesAgree
  <2> QED
    BY <2>1, <2>2
<1>11. history' \in Seq(Games) /\ Len(history') <= Len(history) /\ Len(history') \in Nat /\ Len(history) \in Nat
  <2>1. Sift(history, kept) \in Seq(Games) /\ Len(Sift(history, kept)) <= Len(history)
    BY <1>1, SiftIsSeq
  <2> QED
    BY <1>1, <1>2, <2>1, LenProperties
<1>12. HistoryAgrees'
  <2>1. Len(history) <= HistoryLimit
    BY DEF IndicesAgree, HistoryAgrees
  <2>2. DOMAIN history = 1 .. Len(history) /\ DOMAIN history' = 1 .. Len(history')
    BY <1>1, <1>11, LenProperties
  <2>3. \A i, j \in 1 .. Len(history) : history[i] = history[j] => i = j
    BY <2>2 DEF IndicesAgree, HistoryAgrees
  <2>4. \A i, j \in 1 .. Len(history') : history'[i] = history'[j] => i = j
    BY <1>1, <1>2, <2>3, SiftInjective
  <2>5. ASSUME NEW x \in Games
        PROVE  (\E i \in 1 .. Len(history') : history'[i] = x) <=> Listed(x)' /\ ~IsOpen(x)'
    <3>1. (\E i \in 1 .. Len(history') : history'[i] = x)
            <=> x \in kept /\ \E i \in 1 .. Len(history) : history[i] = x
      <4> HIDE DEF kept
      <4>1. \A y : (\E i \in 1 .. Len(Sift(history, kept)) : Sift(history, kept)[i] = y)
                     <=> y \in kept /\ \E i \in 1 .. Len(history) : history[i] = y
        BY <1>1, SiftElements
      <4> QED
        BY <1>2, <4>1
    <3>2. (\E i \in 1 .. Len(history) : history[i] = x) <=> Listed(x) /\ ~IsOpen(x)
      BY <2>2 DEF IndicesAgree, HistoryAgrees
    <3>3. CASE x \in removed
      BY <1>5, <3>1, <3>3
    <3>4. CASE x \notin removed
      BY <1>7, <3>1, <3>2, <3>4
    <3> QED
      BY <3>3, <3>4
  <2> QED
    BY <1>11, <2>1, <2>2, <2>4, <2>5, ServiceAssumption DEF HistoryAgrees
<1>13. /\ byID' \in [Games -> Summaries \cup {None}] /\ byChat' \in [Chats -> Games \cup {None}]
       /\ byPlayer' \in [Players -> SUBSET Games] /\ purged' \subseteq Games
  BY <1>1, <1>2, <1>4
<1> QED
  BY <1>8, <1>9, <1>10, <1>11, <1>12, <1>13 DEF IndicesAgree

-----------------------------------------------------------------------------
(* Steps that change calls only *)

LEMMA IdleSound == Idle \in Calls /\ CallSound(Idle) /\ Idle.op = "idle" /\ Idle.answer = "none"
BY DEF Idle, Calls, CallSound

\* What the calls rely on stays, as long as games keep their receipts and a
\* game that is held keeps still.
LEMMA CallsKept ==
  ASSUME ServiceInv,
         \A d \in Callers :
           \/ call'[d] = call[d]
           \/ /\ CallSound(call'[d]) /\ call'[d].op # "publish"
              /\ call'[d].answer = "done" =>
                   /\ games'[call'[d].game] # None
                   /\ <<call'[d].player, call'[d].request>> \in games'[call'[d].game].receipts,
         \A g \in Games : Exists(g) => games'[g] # None /\ games[g].receipts \subseteq games'[g].receipts,
         \A d \in Callers, g \in Games :
           Publishing(d, g) /\ call'[d] = call[d] => IsFinal(g)' /\ games'[g].next = None
  PROVE  CallsSound' /\ PublishHolds' /\ DoneHasReceipt'
<1>1. CallsSound'
  BY DEF CallsSound, ServiceInv
<1>2. ASSUME NEW d \in Callers, NEW g \in Games, Publishing(d, g)'
      PROVE  call'[d] = call[d] /\ Publishing(d, g) /\ IsFinal(g)' /\ games'[g].next = None
  BY <1>2 DEF Publishing
<1>3. PublishHolds'
  <2>1. ASSUME NEW g \in Games, NEW c \in Callers, NEW d \in Callers, Publishing(c, g)', Publishing(d, g)'
        PROVE  c = d
    BY <1>2, <2>1 DEF ServiceInv, PublishHolds
  <2> QED
    BY <1>2, <2>1 DEF PublishHolds
<1>4. DoneHasReceipt'
  <2> SUFFICES ASSUME NEW d \in Callers, call'[d].answer = "done"
               PROVE  /\ games'[call'[d].game] # None
                      /\ <<call'[d].player, call'[d].request>> \in games'[call'[d].game].receipts
    BY DEF DoneHasReceipt, Exists
  <2>1. CASE call'[d] = call[d]
    <3>1. call[d].game \in Games
      BY <2>1 DEF ServiceInv, CallsSound, CallSound
    <3>2. Exists(call[d].game) /\ <<call[d].player, call[d].request>> \in games[call[d].game].receipts
      BY <2>1 DEF ServiceInv, DoneHasReceipt
    <3> QED
      BY <2>1, <3>1, <3>2
  <2> QED
    BY <2>1
<1> QED
  BY <1>1, <1>3, <1>4

\* Nothing but the call of one goroutine changes.
LEMMA CallOnly ==
  ASSUME ServiceInv, UNCHANGED <<games, indices, auxiliary>>, NEW c \in Callers,
         NEW k \in Calls, CallSound(k), k.op # "publish", k.answer # "done",
         call' = [call EXCEPT ![c] = k]
  PROVE  ServiceInv'
<1>1. /\ games' = games /\ byID' = byID /\ byChat' = byChat /\ byPlayer' = byPlayer
      /\ history' = history /\ pendingResults' = pendingResults /\ voted' = voted /\ purged' = purged
  BY DEF indices, auxiliary
<1>2. call \in [Callers -> Calls]
  BY DEF ServiceInv, StateTypeOK
<1>3. StateTypeOK'
  BY <1>1, <1>2 DEF ServiceInv, StateTypeOK
<1>4. \A d \in Callers : call'[d] = IF d = c THEN k ELSE call[d]
  BY <1>2
<1>5. ASSUME NEW g \in Games, IsFinal(g) PROVE IsFinal(g)'
  BY <1>1, <1>5 DEF IsFinal, Exists
<1>6. ASSUME NEW d \in Callers, NEW g \in Games, Publishing(d, g)
      PROVE  IsFinal(g)' /\ games'[g].next = None
  BY <1>1, <1>5, <1>6 DEF ServiceInv, PublishHolds
<1>7. \A g \in Games : Exists(g) => games'[g] # None /\ games[g].receipts \subseteq games'[g].receipts
  BY <1>1 DEF Exists
<1>8. CallsSound' /\ PublishHolds' /\ DoneHasReceipt'
  BY <1>4, <1>6, <1>7, CallsKept
<1>9. SeatsOnRoster'
  BY <1>1 DEF ServiceInv, SeatsOnRoster, IsOpen, Exists
<1>10. ChatsAgree' /\ PlayersAgree'
  BY <1>1 DEF ServiceInv, IndicesAgree, ChatsAgree, PlayersAgree, IsOpen, Exists
<1>11. SummariesAgree' /\ HistoryAgrees'
  BY <1>1 DEF ServiceInv, IndicesAgree, SummariesAgree, HistoryAgrees, IsOpen, Exists, Listed, Summary
<1> QED
  BY <1>3, <1>8, <1>9, <1>10, <1>11 DEF ServiceInv, IndicesAgree

LEMMA FindKeeps ==
  ASSUME ServiceInv, NEW c \in Callers, Find(c)
  PROVE  ServiceInv'
<1>1. PICK g \in Games, p \in Players \cup {None}, r \in ActionRequests \cup {None} :
        /\ Listed(g) /\ (p = None <=> r = None)
        /\ call' = [call EXCEPT ![c] = [Idle EXCEPT !.op = "action", !.game = g, !.player = p,
                                                    !.revision = byID[g].revision, !.request = r]]
  BY DEF Find
<1> DEFINE k == [Idle EXCEPT !.op = "action", !.game = g, !.player = p,
                             !.revision = byID[g].revision, !.request = r]
<1>2. byID[g].revision \in Nat
  BY <1>1 DEF ServiceInv, StateTypeOK, Listed, Summaries
<1>3. k \in Calls
  BY <1>2 DEF Calls, Idle
<1>4. CallSound(k) /\ k.op # "publish" /\ k.answer # "done"
  BY <1>1 DEF CallSound, Idle
<1>5. UNCHANGED <<games, indices, auxiliary>>
  BY DEF Find
<1> HIDE DEF k
<1> QED
  BY <1>1, <1>3, <1>4, <1>5, CallOnly DEF k

LEMMA RefuseLateKeeps ==
  ASSUME ServiceInv, NEW c \in Callers, RefuseLate(c)
  PROVE  ServiceInv'
<1> DEFINE k == [call[c] EXCEPT !.answer = "late"]
<1>1. call[c] \in Calls /\ CallSound(call[c]) /\ call[c].op = "action" /\ call[c].request # None
  BY DEF ServiceInv, StateTypeOK, CallsSound, RefuseLate
<1>2. k \in Calls
  BY <1>1 DEF Calls
<1>3. CallSound(k) /\ k.op # "publish" /\ k.answer # "done"
  BY <1>1 DEF CallSound, Calls
<1>4. call' = [call EXCEPT ![c] = k] /\ UNCHANGED <<games, indices, auxiliary>>
  BY DEF RefuseLate
<1> HIDE DEF k
<1> QED
  BY <1>2, <1>3, <1>4, CallOnly

LEMMA GiveUpKeeps ==
  ASSUME ServiceInv, NEW c \in Callers, GiveUp(c)
  PROVE  ServiceInv'
BY IdleSound, CallOnly DEF GiveUp, Returns

LEMMA ScanKeeps ==
  ASSUME ServiceInv, NEW c \in Callers, Scan(c)
  PROVE  ServiceInv'
<1>1. PICK g \in Games :
        /\ Listed(g) /\ Late(g)
        /\ call' = [call EXCEPT ![c] = [Idle EXCEPT !.op = "skip", !.game = g,
                                                    !.player = games[g].engine.turn,
                                                    !.revision = games[g].revision]]
  BY DEF Scan
<1> DEFINE k == [Idle EXCEPT !.op = "skip", !.game = g, !.player = games[g].engine.turn,
                             !.revision = games[g].revision]
<1>2. games[g] \in OpenGame /\ games[g].engine \in R!Rounds
  BY <1>1, GameIs DEF ServiceInv, Late
<1>3. games[g].revision \in Nat /\ games[g].engine.turn \in Players \cup {None}
  BY <1>2 DEF OpenGame, R!Rounds
<1>4. k \in Calls
  BY <1>3 DEF Calls, Idle
<1>5. CallSound(k) /\ k.op # "publish" /\ k.answer # "done"
  BY <1>1 DEF CallSound, Idle
<1>6. UNCHANGED <<games, indices, auxiliary>>
  BY DEF Scan
<1> HIDE DEF k
<1> QED
  BY <1>1, <1>4, <1>5, <1>6, CallOnly DEF k

LEMMA FindClosedKeeps ==
  ASSUME ServiceInv, NEW c \in Callers, FindClosed(c)
  PROVE  ServiceInv'
<1>1. PICK b \in Ballots :
        call' = [call EXCEPT ![c] = [Idle EXCEPT !.op = "vote", !.game = b.game,
                                                 !.player = b.player, !.request = b.request]]
  BY DEF FindClosed
<1> DEFINE k == [Idle EXCEPT !.op = "vote", !.game = b.game, !.player = b.player, !.request = b.request]
<1>2. b.game \in Games /\ b.player \in Players /\ b.request \in VoteRequests
  BY DEF Ballots
<1>3. k \in Calls
  BY <1>2 DEF Calls, Idle
<1>4. CallSound(k) /\ k.op # "publish" /\ k.answer # "done"
  BY <1>2 DEF CallSound, Idle
<1>5. UNCHANGED <<games, indices, auxiliary>>
  BY DEF FindClosed
<1> HIDE DEF k
<1> QED
  BY <1>1, <1>3, <1>4, <1>5, CallOnly DEF k

LEMMA ReadActiveKeeps ==
  ASSUME ServiceInv, NEW c \in Callers, ReadActive(c)
  PROVE  ServiceInv'
<1>1. PICK chat \in Chats :
        call' = [call EXCEPT ![c] = [Idle EXCEPT !.op = "reset", !.chat = chat, !.game = byChat[chat]]]
  BY DEF ReadActive
<1> DEFINE k == [Idle EXCEPT !.op = "reset", !.chat = chat, !.game = byChat[chat]]
<1>2. byChat[chat] \in Games \cup {None}
  BY DEF ServiceInv, StateTypeOK
<1>3. k \in Calls
  BY <1>2 DEF Calls, Idle
<1>4. CallSound(k) /\ k.op # "publish" /\ k.answer # "done"
  BY DEF CallSound, Idle
<1>5. UNCHANGED <<games, indices, auxiliary>>
  BY DEF ReadActive
<1> HIDE DEF k
<1> QED
  BY <1>1, <1>3, <1>4, <1>5, CallOnly DEF k

LEMMA ReadAgainKeeps ==
  ASSUME ServiceInv, NEW c \in Callers, ReadAgain(c)
  PROVE  ServiceInv'
<1> DEFINE k == [call[c] EXCEPT !.game = byChat[call[c].chat]]
<1>1. call[c] \in Calls /\ CallSound(call[c]) /\ call[c].op = "reset"
  BY DEF ServiceInv, StateTypeOK, CallsSound, ReadAgain
<1>2. call[c].chat \in Chats /\ byChat[call[c].chat] \in Games \cup {None}
  BY <1>1 DEF ServiceInv, StateTypeOK, CallSound
<1>3. k \in Calls
  BY <1>1, <1>2 DEF Calls
<1>4. CallSound(k) /\ k.op # "publish" /\ k.answer # "done"
  BY <1>1 DEF CallSound, Calls
<1>5. call' = [call EXCEPT ![c] = k] /\ UNCHANGED <<games, indices, auxiliary>>
  <2>1. call' = [call EXCEPT ![c].game = byChat[call[c].chat]]
    BY DEF ReadAgain
  <2> QED
    BY <2>1 DEF ReadAgain
<1> HIDE DEF k
<1> QED
  BY <1>3, <1>4, <1>5, CallOnly

-----------------------------------------------------------------------------
(* Steps that move one game on *)

\* Nobody holds an open game over two steps.
LEMMA OpenIsNotHeld ==
  ASSUME ServiceInv, NEW g \in Games, IsOpen(g), NEW d \in Callers
  PROVE  ~Publishing(d, g)
BY GameIs DEF ServiceInv, PublishHolds

\* One game changes and keeps its receipts; calls end or get an answer that is
\* on record; who held the game lets it go.
LEMMA GameMoves ==
  ASSUME ServiceInv, NEW g \in Games, Exists(g),
         NEW n \in OpenGame \cup ClosedGame, games' = [games EXCEPT ![g] = n],
         games[g].receipts \subseteq n.receipts,
         n.engine # None => n.engine.seated \subseteq n.engine.roster,
         \A d \in Callers : ~(Publishing(d, g) /\ call'[d] = call[d]),
         \A d \in Callers :
           \/ call'[d] = call[d]
           \/ /\ CallSound(call'[d]) /\ call'[d].op # "publish"
              /\ call'[d].answer = "done" =>
                   call'[d].game = g /\ <<call'[d].player, call'[d].request>> \in n.receipts
  PROVE  /\ CallsSound' /\ PublishHolds' /\ DoneHasReceipt' /\ SeatsOnRoster'
         /\ games' \in [Games -> OpenGame \cup ClosedGame \cup {None}]
<1>1. games \in [Games -> OpenGame \cup ClosedGame \cup {None}]
  BY DEF ServiceInv, StateTypeOK
<1>2. games' \in [Games -> OpenGame \cup ClosedGame \cup {None}]
  BY <1>1
<1>3. \A x \in Games : games'[x] = IF x = g THEN n ELSE games[x]
  BY <1>1
<1>4. n # None
  OBVIOUS
<1>5. \A x \in Games : Exists(x) => games'[x] # None /\ games[x].receipts \subseteq games'[x].receipts
  BY <1>3, <1>4 DEF Exists
<1>6. ASSUME NEW d \in Callers, NEW x \in Games, Publishing(d, x), call'[d] = call[d]
      PROVE  IsFinal(x)' /\ games'[x].next = None
  <2>1. x # g /\ games'[x] = games[x]
    BY <1>3, <1>6
  <2>2. IsFinal(x) /\ games[x].next = None
    BY <1>6 DEF ServiceInv, PublishHolds
  <2> QED
    BY <2>1, <2>2 DEF IsFinal, Exists
<1>7. \A d \in Callers :
        \/ call'[d] = call[d]
        \/ /\ CallSound(call'[d]) /\ call'[d].op # "publish"
           /\ call'[d].answer = "done" =>
                /\ games'[call'[d].game] # None
                /\ <<call'[d].player, call'[d].request>> \in games'[call'[d].game].receipts
  BY <1>3, <1>4
<1>8. CallsSound' /\ PublishHolds' /\ DoneHasReceipt'
  BY <1>5, <1>6, <1>7, CallsKept
<1>9. SeatsOnRoster'
  BY <1>3 DEF ServiceInv, SeatsOnRoster, IsOpen, Exists
<1> QED
  BY <1>2, <1>8, <1>9

\* A new receipt leaves the rest of a game alone.
LEMMA ReceiptsSound ==
  ASSUME NEW a \in OpenGame \cup ClosedGame, NEW S \in SUBSET (Players \X ActionRequests)
  PROVE  LET n == [a EXCEPT !.receipts = @ \cup S]
         IN  /\ n \in OpenGame \cup ClosedGame
             /\ n.receipts = a.receipts \cup S
             /\ n.chat = a.chat /\ n.engine = a.engine /\ n.reset = a.reset /\ n.next = a.next
             /\ n.deadline = a.deadline
<1> DEFINE n == [a EXCEPT !.receipts = @ \cup S]
           q == a.receipts \cup S
<1>1. n = [a EXCEPT !.receipts = q]
  OBVIOUS
<1> HIDE DEF n, q
<1>2. n = [chat |-> a.chat, creator |-> a.creator, owner |-> a.owner, locked |-> a.locked,
           started |-> a.started, deadline |-> a.deadline, revision |-> a.revision, engine |-> a.engine,
           reset |-> a.reset, receipts |-> q, required |-> a.required, accepted |-> a.accepted,
           ballotReceipts |-> a.ballotReceipts, next |-> a.next]
  <2>1. CASE a \in OpenGame
    BY <1>1, <2>1 DEF OpenGame
  <2>2. CASE a \in ClosedGame
    BY <1>1, <2>2 DEF ClosedGame
  <2> QED
    BY <2>1, <2>2
<1>3. Record(n)
  BY <1>2 DEF Record
<1>4. /\ n.chat = a.chat /\ n.creator = a.creator /\ n.owner = a.owner /\ n.locked = a.locked
      /\ n.started = a.started /\ n.deadline = a.deadline /\ n.revision = a.revision /\ n.engine = a.engine
      /\ n.reset = a.reset /\ n.receipts = q /\ n.required = a.required /\ n.accepted = a.accepted
      /\ n.ballotReceipts = a.ballotReceipts /\ n.next = a.next
  BY <1>2
<1>5. a.receipts \in SUBSET (Players \X ActionRequests)
  BY OpenIs, ClosedIs DEF OpenFields, ClosedFields
<1>6. q \in SUBSET (Players \X ActionRequests)
  BY <1>5 DEF q
<1>7. CASE a \in OpenGame
  BY <1>3, <1>4, <1>6, <1>7, OpenIs DEF OpenFields, n, q
<1>8. CASE a \in ClosedGame
  BY <1>3, <1>4, <1>6, <1>8, ClosedIs DEF ClosedFields, n, q
<1> QED
  BY <1>7, <1>8

\* What an accepted action, or a skip, publishes.
MovedOn(c, g, n, owed, after) ==
  /\ Publish(g, n, owed)
  /\ n.chat = games[g].chat /\ n.reset = FALSE /\ n.next = None
  /\ games[g].receipts \subseteq n.receipts
  /\ n.engine = IF after.stage = "Over" THEN None ELSE after
  /\ n.deadline = Deadline(games[g], after)
  /\ after.seated \subseteq after.roster
  /\ owed => n.engine = None
  /\ call[c].op = "action" => Receipt(call[c]) \subseteq n.receipts

LEMMA ApplyMoves ==
  ASSUME ServiceInv, NEW c \in Callers, Apply(c)
  PROVE  /\ call[c].game \in Games /\ IsOpen(call[c].game)
         /\ \E n \in OpenGame \cup ClosedGame, owed \in BOOLEAN, after \in R!Rounds :
              MovedOn(c, call[c].game, n, owed, after)
<1> DEFINE k == call[c]
           g == k.game
           e == games[g]
<1>1. CallSound(k) /\ k.op = "action" /\ IsOpen(g) /\ k \in Calls
  BY DEF ServiceInv, StateTypeOK, CallsSound, Apply
<1>2. g \in Games /\ StateTypeOK /\ SeatsOnRoster /\ e \in OpenGame
  BY <1>1, GameIs DEF CallSound, ServiceInv
<1>3. PICK p \in Actors(k) : \E kind \in Permitted(e, p) :
        \E after \in R!Moves(e.engine, kind, p) : \E owner \in Owners(e, after) :
          Publish(g, [Advanced(e, kind, after, owner) EXCEPT !.receipts = @ \cup Receipt(k)],
                  after.stage = "Over" /\ kind # "CancelGame" /\ e.started)
  BY DEF Apply
<1>a. PICK kind \in Permitted(e, p) :
        \E after \in R!Moves(e.engine, kind, p) : \E owner \in Owners(e, after) :
          Publish(g, [Advanced(e, kind, after, owner) EXCEPT !.receipts = @ \cup Receipt(k)],
                  after.stage = "Over" /\ kind # "CancelGame" /\ e.started)
  BY <1>3
<1>b. PICK after \in R!Moves(e.engine, kind, p) : \E owner \in Owners(e, after) :
          Publish(g, [Advanced(e, kind, after, owner) EXCEPT !.receipts = @ \cup Receipt(k)],
                  after.stage = "Over" /\ kind # "CancelGame" /\ e.started)
  BY <1>a
<1>4. PICK owner \in Owners(e, after) :
          Publish(g, [Advanced(e, kind, after, owner) EXCEPT !.receipts = @ \cup Receipt(k)],
                  after.stage = "Over" /\ kind # "CancelGame" /\ e.started)
  BY <1>b
<1> DEFINE a == Advanced(e, kind, after, owner)
           n == [a EXCEPT !.receipts = @ \cup Receipt(k)]
           owed == after.stage = "Over" /\ kind # "CancelGame" /\ e.started
<1>5. p \in Players /\ kind \in R!Kinds /\ kind # "SkipTurn"
  <2>1. k.player \in Players \cup {None}
    BY <1>1 DEF Calls
  <2> QED
    BY <2>1 DEF Actors, Permitted
<1>6. Receipt(k) \in SUBSET (Players \X ActionRequests)
  BY <1>1 DEF Receipt, CallSound
<1>7. /\ a \in OpenGame \cup ClosedGame
      /\ a.chat = e.chat /\ a.reset = FALSE /\ a.next = None /\ a.receipts = e.receipts
      /\ a.engine = IF after.stage = "Over" THEN None ELSE after
      /\ a.deadline = Deadline(e, after)
      /\ after \in R!Rounds /\ after.seated \subseteq after.roster
  BY <1>1, <1>2, <1>5, AdvancedSound
<1> HIDE DEF a
<1>8. /\ n \in OpenGame \cup ClosedGame
      /\ n.receipts = a.receipts \cup Receipt(k)
      /\ n.chat = a.chat /\ n.engine = a.engine /\ n.reset = a.reset /\ n.next = a.next
      /\ n.deadline = a.deadline
  BY <1>6, <1>7, ReceiptsSound
<1>9. owed \in BOOLEAN /\ (owed => after.stage = "Over")
  OBVIOUS
<1>10. Publish(g, n, owed)
  BY <1>4 DEF a
<1> HIDE DEF n, owed
<1>11. MovedOn(c, g, n, owed, after)
  BY <1>7, <1>8, <1>9, <1>10 DEF MovedOn
<1> QED
  BY <1>1, <1>2, <1>7, <1>8, <1>9, <1>11

LEMMA SkipMoves ==
  ASSUME ServiceInv, NEW c \in Callers, SkipTurn(c)
  PROVE  /\ call[c].game \in Games /\ IsOpen(call[c].game)
         /\ \E n \in OpenGame \cup ClosedGame, owed \in BOOLEAN, after \in R!Rounds :
              MovedOn(c, call[c].game, n, owed, after)
<1> DEFINE k == call[c]
           g == k.game
           e == games[g]
<1>1. CallSound(k) /\ k.op = "skip" /\ IsOpen(g) /\ k \in Calls
  BY DEF ServiceInv, StateTypeOK, CallsSound, SkipTurn, StillDue, Late
<1>2. g \in Games /\ StateTypeOK /\ SeatsOnRoster /\ e \in OpenGame
  BY <1>1, GameIs DEF CallSound, ServiceInv
<1>a. PICK after \in R!Moves(e.engine, "SkipTurn", k.player) :
        \E owner \in Owners(e, after) : Publish(g, Advanced(e, "SkipTurn", after, owner), FALSE)
  BY DEF SkipTurn
<1>3. PICK owner \in Owners(e, after) : Publish(g, Advanced(e, "SkipTurn", after, owner), FALSE)
  BY <1>a
<1> DEFINE n == Advanced(e, "SkipTurn", after, owner)
<1>4. "SkipTurn" \in R!Kinds /\ k.player \in Players \cup {None}
  BY <1>1 DEF R!Kinds, Calls
<1>5. /\ n \in OpenGame \cup ClosedGame
      /\ n.chat = e.chat /\ n.reset = FALSE /\ n.next = None /\ n.receipts = e.receipts
      /\ n.engine = IF after.stage = "Over" THEN None ELSE after
      /\ n.deadline = Deadline(e, after)
      /\ after \in R!Rounds /\ after.seated \subseteq after.roster
  BY <1>1, <1>2, <1>4, AdvancedSound
<1>6. Publish(g, n, FALSE)
  BY <1>3
<1> HIDE DEF n
<1>7. MovedOn(c, g, n, FALSE, after)
  BY <1>1, <1>5, <1>6 DEF MovedOn
<1> QED
  BY <1>1, <1>2, <1>5, <1>7

\* What publishing a move keeps.
LEMMA MovedOnKeeps ==
  ASSUME ServiceInv, NEW c \in Callers, NEW g \in Games, IsOpen(g),
         NEW n \in OpenGame \cup ClosedGame, NEW owed \in BOOLEAN, NEW after \in R!Rounds,
         MovedOn(c, g, n, owed, after), UNCHANGED <<voted, purged>>,
         NEW k \in Calls, call' = [call EXCEPT ![c] = k], CallSound(k), k.op # "publish",
         k.answer = "done" => k.game = g /\ <<k.player, k.request>> \in n.receipts
  PROVE  ServiceInv'
<1>1. StateTypeOK /\ IndicesAgree /\ SeatsOnRoster /\ Exists(g) /\ call \in [Callers -> Calls]
  BY DEF ServiceInv, StateTypeOK, IsOpen
<1>2. /\ IndicesAgree'
      /\ byID' \in [Games -> Summaries \cup {None}]
      /\ byChat' \in [Chats -> Games \cup {None}]
      /\ byPlayer' \in [Players -> SUBSET Games]
      /\ history' \in Seq(Games)
      /\ pendingResults' \subseteq Games
  <2>1. Publish(g, n, owed) /\ n.chat = games[g].chat /\ n.reset = FALSE
    BY DEF MovedOn
  <2> QED
    BY <1>1, <2>1, PublishAgrees
<1>3. games' = [games EXCEPT ![g] = n]
  BY DEF MovedOn, Publish
<1>4. n.engine # None => n.engine.seated \subseteq n.engine.roster
  BY DEF MovedOn
<1>5. \A d \in Callers : call'[d] = IF d = c THEN k ELSE call[d]
  BY <1>1
<1>6. \A d \in Callers : ~Publishing(d, g)
  BY OpenIsNotHeld
<1>7. /\ CallsSound' /\ PublishHolds' /\ DoneHasReceipt' /\ SeatsOnRoster'
      /\ games' \in [Games -> OpenGame \cup ClosedGame \cup {None}]
  BY <1>1, <1>3, <1>4, <1>5, <1>6, GameMoves DEF MovedOn
<1>8. call' \in [Callers -> Calls] /\ voted' \subseteq Ballots /\ purged' \subseteq Games
  BY <1>1 DEF StateTypeOK
<1>9. StateTypeOK'
  BY <1>2, <1>7, <1>8 DEF StateTypeOK
<1> QED
  BY <1>2, <1>7, <1>9 DEF ServiceInv

LEMMA ApplyKeeps ==
  ASSUME ServiceInv, NEW c \in Callers, Apply(c)
  PROVE  ServiceInv'
<1> DEFINE k == call[c]
           g == k.game
           told == IF k.request = None THEN Idle ELSE [k EXCEPT !.answer = "done"]
<1>1. CallSound(k) /\ k.op = "action" /\ k \in Calls
  BY DEF ServiceInv, StateTypeOK, CallsSound, Apply
<1>2. PICK n \in OpenGame \cup ClosedGame, owed \in BOOLEAN, after \in R!Rounds : MovedOn(c, g, n, owed, after)
  BY ApplyMoves
<1>3. g \in Games /\ IsOpen(g)
  BY ApplyMoves
<1>4. call' = [call EXCEPT ![c] = told] /\ UNCHANGED <<voted, purged>>
  BY DEF Apply
<1>5. CASE k.request = None
  <2>1. call' = [call EXCEPT ![c] = Idle] /\ UNCHANGED <<voted, purged>>
    BY <1>4, <1>5
  <2>2. Idle \in Calls /\ CallSound(Idle) /\ Idle.op # "publish" /\ Idle.answer # "done"
    BY IdleSound
  <2> HIDE DEF k, g, told
  <2> QED
    BY <1>2, <1>3, <2>1, <2>2, MovedOnKeeps
<1>6. CASE k.request # None
  <2> DEFINE d == [k EXCEPT !.answer = "done"]
  <2>1. d \in Calls /\ d.game = g /\ d.player = k.player /\ d.request = k.request /\ d.op = "action"
    BY <1>1 DEF Calls
  <2>2. CallSound(d)
    BY <1>1, <1>6, <2>1 DEF CallSound
  <2>3. <<d.player, d.request>> \in n.receipts
    BY <1>1, <1>2, <1>6, <2>1 DEF MovedOn, Receipt
  <2>4. call' = [call EXCEPT ![c] = d]
    BY <1>4, <1>6
  <2> HIDE DEF d
  <2> QED
    BY <1>2, <1>3, <1>4, <2>1, <2>2, <2>3, <2>4, MovedOnKeeps
<1> QED
  BY <1>5, <1>6

LEMMA SkipTurnKeeps ==
  ASSUME ServiceInv, NEW c \in Callers, SkipTurn(c)
  PROVE  ServiceInv'
<1>1. PICK n \in OpenGame \cup ClosedGame, owed \in BOOLEAN, after \in R!Rounds :
        MovedOn(c, call[c].game, n, owed, after)
  BY SkipMoves
<1>2. call[c].game \in Games /\ IsOpen(call[c].game)
  BY SkipMoves
<1>3. call' = [call EXCEPT ![c] = Idle] /\ UNCHANGED <<voted, purged>>
  BY DEF SkipTurn, Returns
<1>4. Idle \in Calls /\ CallSound(Idle) /\ Idle.op # "publish" /\ Idle.answer # "done"
  BY IdleSound
<1> DEFINE g == call[c].game
           k == Idle
<1>5. g \in Games /\ IsOpen(g) /\ MovedOn(c, g, n, owed, after) /\ k \in Calls /\ CallSound(k)
      /\ k.op # "publish" /\ k.answer # "done" /\ call' = [call EXCEPT ![c] = k]
  BY <1>1, <1>2, <1>3, <1>4
<1>6. UNCHANGED <<voted, purged>>
  BY <1>3
<1> HIDE DEF g, k
<1> QED
  BY <1>5, <1>6, MovedOnKeeps

-----------------------------------------------------------------------------
(* Steps that change a game where it is *)

\* A game changes, and neither where nor what it is; a call may end.
LEMMA GameStays ==
  ASSUME ServiceInv, NEW g \in Games, Exists(g),
         NEW n \in OpenGame \cup ClosedGame,
         n.chat = games[g].chat, n.engine = games[g].engine, n.reset = games[g].reset,
         games[g].receipts \subseteq n.receipts,
         games' = [games EXCEPT ![g] = n],
         byID' = [x \in Games |-> IF x = g /\ Listed(g) THEN Summary(n) ELSE byID[x]],
         byChat' = byChat, byPlayer' = byPlayer, history' = history,
         pendingResults' = pendingResults, purged' = purged, voted' \subseteq Ballots,
         call' \in [Callers -> Calls],
         \A d \in Callers : ~(Publishing(d, g) /\ call'[d] = call[d]),
         \A d \in Callers :
           \/ call'[d] = call[d]
           \/ CallSound(call'[d]) /\ call'[d].op # "publish" /\ call'[d].answer # "done"
  PROVE  ServiceInv'
<1>1. StateTypeOK /\ IndicesAgree
  BY DEF ServiceInv
<1>2. IndicesAgree' /\ byID' \in [Games -> Summaries \cup {None}]
  BY <1>1, SameAgrees
<1>3. n.engine # None => n.engine.seated \subseteq n.engine.roster
  BY DEF ServiceInv, SeatsOnRoster, IsOpen
<1>4. /\ CallsSound' /\ PublishHolds' /\ DoneHasReceipt' /\ SeatsOnRoster'
      /\ games' \in [Games -> OpenGame \cup ClosedGame \cup {None}]
  BY <1>3, GameMoves
<1>5. StateTypeOK'
  BY <1>1, <1>2, <1>4 DEF StateTypeOK
<1> QED
  BY <1>2, <1>4, <1>5 DEF ServiceInv

LEMMA SetLockedKeeps ==
  ASSUME ServiceInv, NEW c \in Callers, SetLocked(c)
  PROVE  ServiceInv'
<1> DEFINE g == call[c].game
           e == games[g]
<1>1. CallSound(call[c]) /\ call[c].op = "action" /\ IsOpen(g) /\ g \in Games
  BY DEF ServiceInv, CallsSound, CallSound, SetLocked
<1>2. PICK locked \in LockRequests :
        /\ games' = [games EXCEPT ![g] = [e EXCEPT !.locked = locked]]
        /\ byID' = [byID EXCEPT ![g] = Summary([e EXCEPT !.locked = locked])]
  BY DEF SetLocked
<1> DEFINE n == [e EXCEPT !.locked = locked]
<1>3. e \in OpenGame /\ Exists(g) /\ Listed(g)
  BY <1>1, GameIs DEF ServiceInv, IndicesAgree, SummariesAgree, IsOpen
<1>4. n \in OpenGame
  <2>1. n = [chat |-> e.chat, creator |-> e.creator, owner |-> e.owner, locked |-> locked,
             started |-> e.started, deadline |-> e.deadline, revision |-> e.revision, engine |-> e.engine,
             reset |-> e.reset, receipts |-> e.receipts, required |-> e.required, accepted |-> e.accepted,
             ballotReceipts |-> e.ballotReceipts, next |-> e.next]
    <3> HIDE DEF e
    <3> QED
      BY <1>3 DEF OpenGame
  <2>2. OpenFields(e) /\ locked \in BOOLEAN
    BY <1>3, OpenIs
  <2> HIDE DEF e, n
  <2>3. Record(n) /\ OpenFields(n)
    BY <2>1, <2>2 DEF Record, OpenFields
  <2> QED
    BY <2>3, OpenIs
<1>5. n.chat = e.chat /\ n.engine = e.engine /\ n.reset = e.reset /\ n.receipts = e.receipts
  BY <1>3 DEF OpenGame
<1>6. byID \in [Games -> Summaries \cup {None}] /\ call \in [Callers -> Calls] /\ voted \subseteq Ballots
  BY DEF ServiceInv, StateTypeOK
<1>7. games' = [games EXCEPT ![g] = n] /\ byID' = [byID EXCEPT ![g] = Summary(n)]
  BY <1>2
<1> HIDE DEF n
<1>8. byID' = [x \in Games |-> IF x = g /\ Listed(g) THEN Summary(n) ELSE byID[x]]
  BY <1>3, <1>6, <1>7
<1>9. /\ call' = [call EXCEPT ![c] = Idle] /\ byChat' = byChat /\ byPlayer' = byPlayer
      /\ history' = history /\ pendingResults' = pendingResults /\ voted' = voted /\ purged' = purged
  BY DEF SetLocked, Returns, auxiliary
<1>10. \A d \in Callers : ~Publishing(d, g)
  BY <1>1, OpenIsNotHeld
<1>11. call' \in [Callers -> Calls]
  BY <1>6, <1>9, IdleSound
<1>12. \A d \in Callers :
         \/ call'[d] = call[d]
         \/ CallSound(call'[d]) /\ call'[d].op # "publish" /\ call'[d].answer # "done"
  BY <1>6, <1>9, IdleSound
<1> HIDE DEF g
<1> QED
  BY <1>1, <1>3, <1>4, <1>5, <1>6, <1>7, <1>8, <1>9, <1>10, <1>11, <1>12, GameStays

LEMMA TickKeeps ==
  ASSUME ServiceInv, NEW g \in Games, Tick(g)
  PROVE  ServiceInv'
<1> DEFINE e == games[g]
           n == [e EXCEPT !.deadline = @ - 1]
<1>1. IsOpen(g) /\ e.deadline > 0 /\ games' = [games EXCEPT ![g] = n]
  BY DEF Tick
<1>2. /\ byID' = byID /\ byChat' = byChat /\ byPlayer' = byPlayer /\ history' = history
      /\ pendingResults' = pendingResults /\ call' = call /\ voted' = voted /\ purged' = purged
  BY DEF Tick, indices, auxiliary
<1>3. e \in OpenGame /\ Exists(g) /\ Listed(g) /\ byID[g] = Summary(e)
  BY <1>1, GameIs DEF ServiceInv, IndicesAgree, SummariesAgree, IsOpen
<1>4. n \in OpenGame
  <2>1. n = [chat |-> e.chat, creator |-> e.creator, owner |-> e.owner, locked |-> e.locked,
             started |-> e.started, deadline |-> e.deadline - 1, revision |-> e.revision, engine |-> e.engine,
             reset |-> e.reset, receipts |-> e.receipts, required |-> e.required, accepted |-> e.accepted,
             ballotReceipts |-> e.ballotReceipts, next |-> e.next]
    <3> HIDE DEF e
    <3> QED
      BY <1>3 DEF OpenGame
  <2>2. OpenFields(e) /\ e.deadline - 1 \in 0 .. TurnTime
    <3>1. OpenFields(e) /\ e.deadline > 0
      BY <1>1, <1>3, OpenIs
    <3> HIDE DEF e
    <3> QED
      BY <3>1 DEF OpenFields
  <2> HIDE DEF e, n
  <2>3. Record(n) /\ OpenFields(n)
    BY <2>1, <2>2 DEF Record, OpenFields
  <2> QED
    BY <2>3, OpenIs
<1>5. /\ n.chat = e.chat /\ n.engine = e.engine /\ n.reset = e.reset /\ n.receipts = e.receipts
      /\ n.owner = e.owner /\ n.locked = e.locked /\ n.revision = e.revision
  BY <1>3 DEF OpenGame
<1> HIDE DEF n
<1>6. Summary(n) = Summary(e)
  BY <1>5 DEF Summary
<1>7. byID \in [Games -> Summaries \cup {None}] /\ call \in [Callers -> Calls] /\ voted \subseteq Ballots
  BY DEF ServiceInv, StateTypeOK
<1>8. byID' = [x \in Games |-> IF x = g /\ Listed(g) THEN Summary(n) ELSE byID[x]]
  BY <1>2, <1>3, <1>6, <1>7
<1>9. \A d \in Callers : ~Publishing(d, g)
  BY <1>1, OpenIsNotHeld
<1> QED
  BY <1>1, <1>2, <1>3, <1>4, <1>5, <1>7, <1>8, <1>9, GameStays

\* Votes leave everything else of a closed game alone.
LEMMA VotesSound ==
  ASSUME NEW e \in ClosedGame, NEW accepted \in SUBSET Players,
         NEW receipts \in SUBSET (Players \X VoteRequests), NEW next \in Games \cup {None}, NEW n,
         n = [chat |-> e.chat, creator |-> e.creator, owner |-> e.owner, locked |-> e.locked,
              started |-> e.started, deadline |-> e.deadline, revision |-> e.revision, engine |-> e.engine,
              reset |-> e.reset, receipts |-> e.receipts, required |-> e.required, accepted |-> accepted,
              ballotReceipts |-> receipts, next |-> next]
  PROVE  /\ n \in ClosedGame /\ Summary(n) = Summary(e)
         /\ n.chat = e.chat /\ n.engine = e.engine /\ n.reset = e.reset /\ n.receipts = e.receipts
         /\ n.next = next
<1>1. ClosedFields(e)
  BY ClosedIs
<1>2. Record(n) /\ ClosedFields(n)
  BY <1>1 DEF Record, ClosedFields
<1>3. n \in ClosedGame
  BY <1>2, ClosedIs
<1>4. Summary(n) = Summary(e)
  BY DEF Summary
<1> QED
  BY <1>3, <1>4

LEMMA FailRematchKeeps ==
  ASSUME ServiceInv, NEW c \in Callers, FailRematch(c)
  PROVE  ServiceInv'
<1> DEFINE k == call[c]
           g == k.game
           e == games[g]
           kept == e.ballotReceipts \ {<<k.player, k.request>>}
           n == [e EXCEPT !.ballotReceipts = kept]
<1>1. k.op = "publish" /\ g \in Games /\ IsFinal(g) /\ Publishing(c, g)
  <2>1. CallSound(k) /\ k.op = "publish"
    BY DEF ServiceInv, CallsSound, FailRematch
  <2>2. g \in Games
    BY <2>1 DEF CallSound
  <2> QED
    BY <2>1, <2>2 DEF ServiceInv, PublishHolds, Publishing
<1>2. /\ games' = [games EXCEPT ![g].ballotReceipts = @ \ {<<k.player, k.request>>}]
      /\ call' = [call EXCEPT ![c] = Idle]
      /\ byID' = byID /\ byChat' = byChat /\ byPlayer' = byPlayer /\ history' = history
      /\ pendingResults' = pendingResults /\ voted' = voted /\ purged' = purged
  BY DEF FailRematch, Returns, indices, auxiliary
<1>3. games \in [Games -> OpenGame \cup ClosedGame \cup {None}] /\ byID \in [Games -> Summaries \cup {None}]
      /\ call \in [Callers -> Calls] /\ voted \subseteq Ballots
  BY DEF ServiceInv, StateTypeOK
<1>4. games' = [games EXCEPT ![g] = n]
  BY <1>1, <1>2, <1>3
<1>5. e \in ClosedGame /\ Exists(g) /\ (Listed(g) => byID[g] = Summary(e))
  BY <1>1, GameIs DEF ServiceInv, IndicesAgree, SummariesAgree, IsFinal, IsOpen
<1>6. n = [chat |-> e.chat, creator |-> e.creator, owner |-> e.owner, locked |-> e.locked,
           started |-> e.started, deadline |-> e.deadline, revision |-> e.revision, engine |-> e.engine,
           reset |-> e.reset, receipts |-> e.receipts, required |-> e.required, accepted |-> e.accepted,
           ballotReceipts |-> kept, next |-> e.next]
  <2> HIDE DEF e, kept
  <2> QED
    BY <1>5 DEF ClosedGame
<1>7. /\ e.accepted \in SUBSET Players /\ kept \in SUBSET (Players \X VoteRequests)
      /\ e.next \in Games \cup {None}
  BY <1>5, ClosedIs DEF ClosedFields
<1> HIDE DEF n, kept, e
<1>8. /\ n \in ClosedGame /\ Summary(n) = Summary(e)
      /\ n.chat = e.chat /\ n.engine = e.engine /\ n.reset = e.reset /\ n.receipts = e.receipts
  BY <1>5, <1>6, <1>7, VotesSound
<1>9. byID' = [x \in Games |-> IF x = g /\ Listed(g) THEN Summary(n) ELSE byID[x]]
  BY <1>2, <1>3, <1>5, <1>8
<1>10. \A d \in Callers : ~(Publishing(d, g) /\ call'[d] = call[d])
  <2>1. call'[c] = Idle
    BY <1>2, <1>3
  <2>2. ASSUME NEW d \in Callers, Publishing(d, g) PROVE d = c
    BY <1>1, <2>2 DEF ServiceInv, PublishHolds
  <2>3. call'[c] # call[c]
    BY <1>1, <2>1, IdleSound
  <2> QED
    BY <2>2, <2>3
<1>11. /\ call' \in [Callers -> Calls]
       /\ \A d \in Callers :
            \/ call'[d] = call[d]
            \/ CallSound(call'[d]) /\ call'[d].op # "publish" /\ call'[d].answer # "done"
  BY <1>2, <1>3, IdleSound
<1>12. /\ n.chat = games[g].chat /\ n.engine = games[g].engine /\ n.reset = games[g].reset
       /\ games[g].receipts \subseteq n.receipts
       /\ n \in OpenGame \cup ClosedGame /\ voted' \subseteq Ballots
  BY <1>2, <1>3, <1>8 DEF e
<1>13. g \in Games /\ Exists(g)
  BY <1>1, <1>5
<1>14. byChat' = byChat /\ byPlayer' = byPlayer /\ history' = history /\ pendingResults' = pendingResults /\ purged' = purged
  BY <1>2
<1> HIDE DEF g, k
<1> QED
  BY <1>4, <1>9, <1>10, <1>11, <1>12, <1>13, <1>14, GameStays

\* The last acceptance holds its game; any other vote lets it go.
LEMMA VoteKeeps ==
  ASSUME ServiceInv, NEW c \in Callers, Vote(c)
  PROVE  ServiceInv'
<1> DEFINE k == call[c]
           g == k.game
           e == games[g]
           accepted == IF k.request \in Acceptances THEN e.accepted \cup {k.player} ELSE e.accepted \ {k.player}
           ballots == e.ballotReceipts \cup {<<k.player, k.request>>}
           n == [e EXCEPT !.accepted = accepted, !.ballotReceipts = ballots]
           held == [k EXCEPT !.op = "publish"]
<1>1. /\ k.op = "vote" /\ Unlocked(g) /\ IsFinal(g) /\ e.next = None
      /\ games' = [games EXCEPT ![g].accepted = accepted, ![g].ballotReceipts = @ \cup {<<k.player, k.request>>}]
      /\ voted' = voted \cup {BallotOf(k)}
      /\ call' = [call EXCEPT ![c] = IF accepted = e.required THEN held ELSE Idle]
      /\ byID' = byID /\ byChat' = byChat /\ byPlayer' = byPlayer /\ history' = history
      /\ pendingResults' = pendingResults /\ purged' = purged
  BY DEF Vote, indices
<1>2. k \in Calls /\ CallSound(k)
  BY DEF ServiceInv, StateTypeOK, CallsSound
<1>3. g \in Games /\ k.player \in Players /\ k.request \in VoteRequests /\ k.answer = "none"
  BY <1>1, <1>2 DEF CallSound, Calls
<1>4. /\ games \in [Games -> OpenGame \cup ClosedGame \cup {None}] /\ byID \in [Games -> Summaries \cup {None}]
      /\ call \in [Callers -> Calls] /\ voted \subseteq Ballots
  BY DEF ServiceInv, StateTypeOK
<1>5. games' = [games EXCEPT ![g] = n]
  BY <1>1, <1>3, <1>4
<1>6. e \in ClosedGame /\ Exists(g) /\ e.reset = FALSE /\ e.engine = None /\ (Listed(g) => byID[g] = Summary(e))
  <2>1. e \in ClosedGame /\ Exists(g) /\ ~e.reset /\ e.engine = None
    BY <1>1, <1>3, GameIs DEF ServiceInv, IsFinal, IsOpen
  <2>2. Listed(g) => byID[g] = Summary(e)
    BY <1>3 DEF ServiceInv, IndicesAgree, SummariesAgree
  <2>3. e.reset \in BOOLEAN
    BY <2>1, ClosedIs DEF ClosedFields
  <2> HIDE DEF e
  <2> QED
    BY <2>1, <2>2, <2>3
<1>7. accepted \in SUBSET Players /\ ballots \in SUBSET (Players \X VoteRequests)
  <2>1. e.accepted \in SUBSET Players /\ e.ballotReceipts \in SUBSET (Players \X VoteRequests)
    BY <1>6, ClosedIs DEF ClosedFields
  <2> HIDE DEF e
  <2> QED
    BY <1>3, <2>1
<1>8. n = [chat |-> e.chat, creator |-> e.creator, owner |-> e.owner, locked |-> e.locked,
           started |-> e.started, deadline |-> e.deadline, revision |-> e.revision, engine |-> e.engine,
           reset |-> e.reset, receipts |-> e.receipts, required |-> e.required, accepted |-> accepted,
           ballotReceipts |-> ballots, next |-> e.next]
  <2>1. e \in ClosedGame
    BY <1>6
  <2>2. n = [e EXCEPT !.accepted = accepted, !.ballotReceipts = ballots]
    OBVIOUS
  <2> HIDE DEF e, accepted, ballots, n
  <2> QED
    BY <2>1, <2>2 DEF ClosedGame
<1>9. voted' \subseteq Ballots
  BY <1>1, <1>3, <1>4 DEF BallotOf, Ballots
<1>10. \A d \in Callers : ~Publishing(d, g)
  BY <1>1 DEF Unlocked, Publishing
<1> HIDE DEF n, accepted, ballots
<1>11. /\ n \in ClosedGame /\ Summary(n) = Summary(e)
       /\ n.chat = e.chat /\ n.engine = e.engine /\ n.reset = e.reset /\ n.receipts = e.receipts
       /\ n.next = e.next
  <2> HIDE DEF e
  <2>1. e.next \in Games \cup {None}
    BY <1>1
  <2> QED
    BY <1>6, <1>7, <1>8, <2>1, VotesSound
<1>12. byID' = [x \in Games |-> IF x = g /\ Listed(g) THEN Summary(n) ELSE byID[x]]
  BY <1>1, <1>4, <1>6, <1>11
<1>13. n \in OpenGame \cup ClosedGame /\ games[g].receipts \subseteq n.receipts
       /\ n.chat = games[g].chat /\ n.engine = games[g].engine /\ n.reset = games[g].reset
  BY <1>11
<1>14. CASE accepted # e.required
  <2>1. call' = [call EXCEPT ![c] = Idle]
    BY <1>1, <1>14
  <2>2. /\ call' \in [Callers -> Calls]
        /\ \A d \in Callers :
             \/ call'[d] = call[d]
             \/ CallSound(call'[d]) /\ call'[d].op # "publish" /\ call'[d].answer # "done"
    BY <1>4, <2>1, IdleSound
  <2>3. byChat' = byChat /\ byPlayer' = byPlayer /\ history' = history /\ pendingResults' = pendingResults
        /\ purged' = purged /\ Exists(g)
    BY <1>1, <1>6
  <2>4. \A d \in Callers : ~(Publishing(d, g) /\ call'[d] = call[d])
    BY <1>10
  <2> HIDE DEF g, k, e
  <2> QED
    BY <1>3, <1>5, <1>9, <1>12, <1>13, <2>2, <2>3, <2>4, GameStays
<1>15. CASE accepted = e.required
  <2>1. call' = [call EXCEPT ![c] = held]
    BY <1>1, <1>15
  <2>2. held \in Calls /\ CallSound(held) /\ held.op = "publish" /\ held.game = g /\ held.answer = "none"
    BY <1>2, <1>3 DEF Calls, CallSound
  <2> HIDE DEF held
  <2>3. \A d \in Callers : call'[d] = IF d = c THEN held ELSE call[d]
    BY <1>4, <2>1
  <2>4. IndicesAgree' /\ byID' \in [Games -> Summaries \cup {None}]
    <3>1. byChat' = byChat /\ byPlayer' = byPlayer /\ history' = history /\ StateTypeOK /\ IndicesAgree /\ Exists(g)
      BY <1>1, <1>6 DEF ServiceInv
    <3> HIDE DEF g, k, e
    <3> QED
      BY <1>3, <1>5, <1>12, <1>13, <3>1, SameAgrees
  <2>5. \A x \in Games : games'[x] = IF x = g THEN n ELSE games[x]
    BY <1>4, <1>5
  <2>6. n # None
    BY <1>13
  <2>7. CallsSound'
    BY <2>2, <2>3 DEF ServiceInv, CallsSound
  <2>8. SeatsOnRoster'
    BY <1>6, <1>11, <2>5 DEF ServiceInv, SeatsOnRoster, IsOpen, Exists
  <2>9. DoneHasReceipt'
    <3> SUFFICES ASSUME NEW d \in Callers, call'[d].answer = "done"
                 PROVE  /\ games'[call'[d].game] # None
                        /\ <<call'[d].player, call'[d].request>> \in games'[call'[d].game].receipts
      BY DEF DoneHasReceipt, Exists
    <3>1. call'[d] = call[d]
      BY <2>2, <2>3
    <3>2. call[d].game \in Games
      BY <3>1 DEF ServiceInv, CallsSound, CallSound
    <3>3. Exists(call[d].game) /\ <<call[d].player, call[d].request>> \in games[call[d].game].receipts
      BY <3>1 DEF ServiceInv, DoneHasReceipt
    <3> HIDE DEF k, g
    <3> QED
      BY <1>11, <2>5, <2>6, <3>1, <3>2, <3>3 DEF Exists
  <2>10. PublishHolds'
    <3>1. ASSUME NEW d \in Callers, NEW x \in Games, Publishing(d, x)'
          PROVE  /\ IsFinal(x)' /\ games'[x].next = None
                 /\ (d = c /\ x = g) \/ (d # c /\ x # g /\ Publishing(d, x))
      <4>1. CASE d = c
        <5>1. x = g
          BY <2>2, <2>3, <3>1, <4>1 DEF Publishing
        <5> QED
          BY <1>1, <1>6, <1>11, <2>5, <2>6, <4>1, <5>1 DEF IsFinal, Exists
      <4>2. CASE d # c
        <5>1. Publishing(d, x)
          BY <2>3, <3>1, <4>2 DEF Publishing
        <5>2. x # g /\ games'[x] = games[x] /\ IsFinal(x) /\ games[x].next = None
          BY <1>10, <2>5, <5>1 DEF ServiceInv, PublishHolds
        <5> QED
          BY <4>2, <5>1, <5>2 DEF IsFinal, Exists
      <4> QED
        BY <4>1, <4>2
    <3>2. ASSUME NEW x \in Games, NEW a \in Callers, NEW d \in Callers, Publishing(a, x)', Publishing(d, x)'
          PROVE  a = d
      BY <3>1, <3>2 DEF ServiceInv, PublishHolds
    <3> QED
      BY <3>1, <3>2 DEF PublishHolds
  <2>11. StateTypeOK'
    <3>1. games' \in [Games -> OpenGame \cup ClosedGame \cup {None}]
      BY <1>4, <1>5, <1>13
    <3>2. call' \in [Callers -> Calls]
      BY <1>4, <2>1, <2>2
    <3> QED
      BY <1>1, <1>9, <2>4, <3>1, <3>2 DEF ServiceInv, StateTypeOK
  <2> QED
    BY <2>4, <2>7, <2>8, <2>9, <2>10, <2>11 DEF ServiceInv
<1> QED
  BY <1>14, <1>15

LEMMA AcknowledgeKeeps ==
  ASSUME ServiceInv, NEW g \in Games, AcknowledgeResult(g)
  PROVE  ServiceInv'
<1>1. /\ games' = games /\ byID' = byID /\ byChat' = byChat /\ byPlayer' = byPlayer
      /\ history' = history /\ call' = call /\ voted' = voted /\ purged' = purged
      /\ pendingResults' = pendingResults \ {g}
  BY DEF AcknowledgeResult, auxiliary
<1>2. StateTypeOK'
  BY <1>1 DEF ServiceInv, StateTypeOK
<1>3. CallsSound' /\ PublishHolds' /\ DoneHasReceipt' /\ SeatsOnRoster'
  BY <1>1 DEF ServiceInv, CallsSound, CallSound, PublishHolds, Publishing, DoneHasReceipt, SeatsOnRoster,
              IsFinal, IsOpen, Exists
<1>4. ChatsAgree' /\ PlayersAgree'
  BY <1>1 DEF ServiceInv, IndicesAgree, ChatsAgree, PlayersAgree, IsOpen, Exists
<1>5. SummariesAgree' /\ HistoryAgrees'
  BY <1>1 DEF ServiceInv, IndicesAgree, SummariesAgree, HistoryAgrees, IsOpen, Exists, Listed, Summary
<1> QED
  BY <1>2, <1>3, <1>4, <1>5 DEF ServiceInv, IndicesAgree

-----------------------------------------------------------------------------
(* Steps that open a game *)

LEMMA NewGameSound ==
  ASSUME NEW chat \in Chats \cup {None}, NEW owner \in Players, NEW locked \in BOOLEAN,
         NEW engine \in R!Rounds, NEW revision \in Nat
  PROVE  LET n == NewGame(chat, owner, locked, engine, revision)
         IN  n \in OpenGame /\ n.chat = chat /\ n.engine = engine
<1> DEFINE n == NewGame(chat, owner, locked, engine, revision)
           started == engine.stage # "Lobby"
<1>1. n = [chat |-> chat, creator |-> owner, owner |-> owner, locked |-> locked, started |-> started,
           deadline |-> TurnTime, revision |-> revision, engine |-> engine, reset |-> FALSE,
           receipts |-> {}, required |-> {}, accepted |-> {}, ballotReceipts |-> {}, next |-> None]
  BY DEF NewGame
<1>2. started \in BOOLEAN
  OBVIOUS
<1> HIDE DEF n, started
<1>3. Record(n) /\ OpenFields(n)
  BY <1>1, <1>2 DEF Record, OpenFields
<1>4. n \in OpenGame
  BY <1>3, OpenIs
<1> QED
  BY <1>1, <1>4 DEF n

\* A game that was never there opens, and the others stay what they were.
LEMMA GameOpens ==
  ASSUME ServiceInv, NEW n \in Games, games[n] = None,
         NEW fresh \in OpenGame, fresh.chat # None => byChat[fresh.chat] = None,
         fresh.engine.seated \subseteq fresh.engine.roster,
         games' \in [Games -> OpenGame \cup ClosedGame \cup {None}], games'[n] = fresh,
         OthersStay(n), Enters(n, fresh),
         \A x \in Games \ {n} :
           \/ games'[x].next = games[x].next
           \/ \A d \in Callers : ~(Publishing(d, x) /\ call'[d] = call[d]),
         pendingResults' = pendingResults, voted' = voted, purged' = purged,
         call' \in [Callers -> Calls],
         \A d \in Callers : call'[d] = call[d] \/ call'[d] = Idle
  PROVE  ServiceInv'
<1>1. StateTypeOK /\ IndicesAgree
  BY DEF ServiceInv
<1>2. /\ IndicesAgree'
      /\ byID' \in [Games -> Summaries \cup {None}]
      /\ byChat' \in [Chats -> Games \cup {None}]
      /\ byPlayer' \in [Players -> SUBSET Games]
  BY <1>1, OpensAgree
<1>3. fresh # None
  OBVIOUS
<1>4. \A x \in Games : Exists(x) => games'[x] # None /\ games[x].receipts \subseteq games'[x].receipts
  BY <1>3 DEF Exists, OthersStay
<1>5. ASSUME NEW d \in Callers, NEW x \in Games, Publishing(d, x), call'[d] = call[d]
      PROVE  IsFinal(x)' /\ games'[x].next = None
  <2>1. IsFinal(x) /\ games[x].next = None
    BY <1>5 DEF ServiceInv, PublishHolds
  <2>2. x # n
    BY <2>1 DEF IsFinal, Exists
  <2> QED
    BY <1>5, <2>1, <2>2 DEF IsFinal, Exists, OthersStay
<1>6. \A d \in Callers :
        \/ call'[d] = call[d]
        \/ /\ CallSound(call'[d]) /\ call'[d].op # "publish"
           /\ call'[d].answer = "done" =>
                /\ games'[call'[d].game] # None
                /\ <<call'[d].player, call'[d].request>> \in games'[call'[d].game].receipts
  BY IdleSound
<1>7. CallsSound' /\ PublishHolds' /\ DoneHasReceipt'
  BY <1>4, <1>5, <1>6, CallsKept
<1>8. SeatsOnRoster'
  <2> SUFFICES ASSUME NEW x \in Games, IsOpen(x)'
               PROVE  games'[x].engine.seated \subseteq games'[x].engine.roster
    BY DEF SeatsOnRoster
  <2>1. CASE x = n
    BY <2>1
  <2>2. CASE x # n
    BY <2>2 DEF ServiceInv, SeatsOnRoster, IsOpen, Exists, OthersStay
  <2> QED
    BY <2>1, <2>2
<1>9. StateTypeOK'
  BY <1>1, <1>2 DEF StateTypeOK, Enters
<1> QED
  BY <1>2, <1>7, <1>8, <1>9 DEF ServiceInv

\* What Create and a rematch do to the games.
LEMMA CreateOpens ==
  ASSUME ServiceInv, Create
  PROVE  \E g \in Games, p \in Players, chat \in Places :
           LET e == NewGame(chat, p, FALSE, R!EmptyRound(FALSE), 0)
           IN  /\ games[g] = None /\ (chat # None => byChat[chat] = None)
               /\ games' = [games EXCEPT ![g] = e] /\ byID' = [byID EXCEPT ![g] = Summary(e)]
               /\ byChat' = IF chat = None THEN byChat ELSE [byChat EXCEPT ![chat] = g]
               /\ chat \in Chats \cup {None}
               /\ e \in OpenGame /\ e.chat = chat /\ e.engine = R!EmptyRound(FALSE)
<1>1. PICK g \in Games, p \in Players, chat \in Places :
        LET e == NewGame(chat, p, FALSE, R!EmptyRound(FALSE), 0)
        IN  /\ games[g] = None /\ (chat # None => byChat[chat] = None)
            /\ games' = [games EXCEPT ![g] = e] /\ byID' = [byID EXCEPT ![g] = Summary(e)]
            /\ byChat' = IF chat = None THEN byChat ELSE [byChat EXCEPT ![chat] = g]
  BY DEF Create
<1>2. chat \in Chats \cup {None}
  BY DEF Chats
<1>3. R!EmptyRound(FALSE) \in R!Rounds
  BY EmptyRoundSound
<1> DEFINE e == NewGame(chat, p, FALSE, R!EmptyRound(FALSE), 0)
<1>4. e \in OpenGame /\ e.chat = chat /\ e.engine = R!EmptyRound(FALSE)
  <2> DEFINE r == R!EmptyRound(FALSE)
  <2>1. r \in R!Rounds
    BY <1>3
  <2>2. ASSUME NEW l \in BOOLEAN, NEW v \in Nat
        PROVE  LET d == NewGame(chat, p, l, r, v)
               IN  d \in OpenGame /\ d.chat = chat /\ d.engine = r
    <3> HIDE DEF r
    <3> QED
      BY <1>2, <2>1, NewGameSound
  <2> QED
    BY <2>2, Zenon
<1> WITNESS g \in Games, p \in Players, chat \in Places
<1> QED
  BY <1>1, <1>2, <1>4

LEMMA CreateKeeps ==
  ASSUME ServiceInv, Create
  PROVE  ServiceInv'
<1>1. PICK g \in Games, p \in Players, chat \in Places :
           LET e == NewGame(chat, p, FALSE, R!EmptyRound(FALSE), 0)
           IN  /\ games[g] = None /\ (chat # None => byChat[chat] = None)
               /\ games' = [games EXCEPT ![g] = e] /\ byID' = [byID EXCEPT ![g] = Summary(e)]
               /\ byChat' = IF chat = None THEN byChat ELSE [byChat EXCEPT ![chat] = g]
               /\ chat \in Chats \cup {None}
               /\ e \in OpenGame /\ e.chat = chat /\ e.engine = R!EmptyRound(FALSE)
  BY CreateOpens
<1> DEFINE e == NewGame(chat, p, FALSE, R!EmptyRound(FALSE), 0)
<1>2. /\ games[g] = None /\ (chat # None => byChat[chat] = None)
      /\ games' = [games EXCEPT ![g] = e] /\ byID' = [byID EXCEPT ![g] = Summary(e)]
      /\ byChat' = IF chat = None THEN byChat ELSE [byChat EXCEPT ![chat] = g]
      /\ e \in OpenGame /\ e.chat = chat /\ e.engine = R!EmptyRound(FALSE)
  BY <1>1
<1>3. byPlayer' = byPlayer /\ history' = history /\ pendingResults' = pendingResults /\ call' = call
      /\ voted' = voted /\ purged' = purged
  BY DEF Create, auxiliary
<1> HIDE DEF e
<1>4. games \in [Games -> OpenGame \cup ClosedGame \cup {None}] /\ byPlayer \in [Players -> SUBSET Games]
      /\ call \in [Callers -> Calls]
  BY DEF ServiceInv, StateTypeOK
<1>5. e.engine.seated = {}
  BY <1>2, EmptyRoundSound
<1>6. byPlayer' = [q \in Players |-> IF q \in e.engine.seated THEN byPlayer[q] \cup {g} ELSE byPlayer[q]]
  BY <1>3, <1>4, <1>5
<1>7. games' \in [Games -> OpenGame \cup ClosedGame \cup {None}] /\ games'[g] = e
      /\ \A x \in Games \ {g} : games'[x] = games[x]
  BY <1>2, <1>4
<1>8. Enters(g, e)
  BY <1>2, <1>3, <1>6 DEF Enters
<1>9. e.chat # None => byChat[e.chat] = None
  BY <1>2
<1>10. call' \in [Callers -> Calls] /\ \A d \in Callers : call'[d] = call[d] \/ call'[d] = Idle
  BY <1>3, <1>4
<1>11. OthersStay(g)
  BY <1>7 DEF OthersStay
<1>12. \A x \in Games \ {g} :
           \/ games'[x].next = games[x].next
           \/ \A d \in Callers : ~(Publishing(d, x) /\ call'[d] = call[d])
  BY <1>7
<1>13. e.engine.seated \subseteq e.engine.roster
  BY <1>5
<1>14. games[g] = None /\ e \in OpenGame /\ pendingResults' = pendingResults /\ voted' = voted /\ purged' = purged
  BY <1>2, <1>3
<1> QED
  BY <1>7, <1>8, <1>9, <1>10, <1>11, <1>12, <1>13, <1>14, GameOpens

\* What a rematch does to the games: the closed one leads to a new one in its place.
LEMMA RematchOpens ==
  ASSUME ServiceInv, NEW c \in Callers, PublishRematch(c)
  PROVE  LET g == call[c].game
             e == games[g]
         IN  /\ g \in Games /\ IsFinal(g) /\ e \in ClosedGame /\ e.next = None /\ Publishing(c, g)
             /\ VacantPlace(e.chat) /\ ResultStored(g)
             /\ \E n \in Games \ {g}, fresh \in OpenGame :
                  /\ games[n] = None
                  /\ fresh.chat = e.chat
                  /\ fresh.engine.seated = e.required /\ fresh.engine.roster = e.required
                  /\ games' = [games EXCEPT ![n] = fresh, ![g].next = n]
                  /\ Enters(n, fresh)
<1> DEFINE k == call[c]
           g == k.game
           e == games[g]
<1>1. CallSound(k) /\ k.op = "publish" /\ g \in Games
  <2>1. CallSound(k) /\ k.op = "publish"
    BY DEF ServiceInv, CallsSound, PublishRematch
  <2> QED
    BY <2>1 DEF CallSound
<1>2. Publishing(c, g) /\ IsFinal(g) /\ e.next = None
  BY <1>1 DEF ServiceInv, PublishHolds, Publishing
<1>3. e \in ClosedGame
  BY <1>1, <1>2, GameIs DEF ServiceInv, IsFinal, IsOpen
<1>4. /\ e.chat \in Chats \cup {None} /\ e.locked \in BOOLEAN /\ e.required \in SUBSET Players
  BY <1>3, ClosedIs DEF ClosedFields
<1>5. Cardinality(e.required) + 1 \in Nat
  <2>1. IsFiniteSet(e.required)
    BY <1>4, FS_Subset
  <2> QED
    BY <2>1, FS_CardinalityType
<1>6. VacantPlace(e.chat) /\ ResultStored(g)
  BY DEF PublishRematch
<1>7. \E n \in Games, owner \in e.required, round \in FirstRounds(e.required) :
        LET fresh == NewGame(e.chat, owner, e.locked, round, Cardinality(e.required) + 1)
        IN  /\ games[n] = None
            /\ games' = [games EXCEPT ![n] = fresh, ![g].next = n]
            /\ byID' = [byID EXCEPT ![n] = Summary(fresh)]
            /\ byChat' = IF e.chat = None THEN byChat ELSE [byChat EXCEPT ![e.chat] = n]
            /\ byPlayer' = [q \in Players |-> IF q \in e.required THEN byPlayer[q] \cup {n} ELSE byPlayer[q]]
  BY DEF PublishRematch
<1>8. PICK n \in Games, owner \in e.required, round \in FirstRounds(e.required) :
        LET fresh == NewGame(e.chat, owner, e.locked, round, Cardinality(e.required) + 1)
        IN  /\ games[n] = None
            /\ games' = [games EXCEPT ![n] = fresh, ![g].next = n]
            /\ byID' = [byID EXCEPT ![n] = Summary(fresh)]
            /\ byChat' = IF e.chat = None THEN byChat ELSE [byChat EXCEPT ![e.chat] = n]
            /\ byPlayer' = [q \in Players |-> IF q \in e.required THEN byPlayer[q] \cup {n} ELSE byPlayer[q]]
  BY <1>7
<1> DEFINE fresh == NewGame(e.chat, owner, e.locked, round, Cardinality(e.required) + 1)
<1>9. /\ games[n] = None
      /\ games' = [games EXCEPT ![n] = fresh, ![g].next = n]
      /\ byID' = [byID EXCEPT ![n] = Summary(fresh)]
      /\ byChat' = IF e.chat = None THEN byChat ELSE [byChat EXCEPT ![e.chat] = n]
      /\ byPlayer' = [q \in Players |-> IF q \in e.required THEN byPlayer[q] \cup {n} ELSE byPlayer[q]]
      /\ history' = history
  BY <1>8 DEF PublishRematch
<1>10. round \in R!Rounds /\ round.seated = e.required /\ round.roster = e.required
  BY <1>4, FirstRoundsSound
<1>11. fresh \in OpenGame /\ fresh.chat = e.chat /\ fresh.engine = round
  <2> HIDE DEF e
  <2>1. owner \in Players
    BY <1>4
  <2> QED
    BY <1>4, <1>5, <1>10, <2>1, NewGameSound
<1>12. n # g
  BY <1>2, <1>9 DEF IsFinal, Exists
<1> HIDE DEF fresh
<1>13. Enters(n, fresh)
  BY <1>9, <1>10, <1>11 DEF Enters
<1> QED
  BY <1>1, <1>2, <1>3, <1>6, <1>9, <1>10, <1>11, <1>12, <1>13

LEMMA PublishRematchKeeps ==
  ASSUME ServiceInv, NEW c \in Callers, PublishRematch(c)
  PROVE  ServiceInv'
<1> DEFINE g == call[c].game
           e == games[g]
<1>1. /\ g \in Games /\ IsFinal(g) /\ e \in ClosedGame /\ e.next = None /\ Publishing(c, g)
      /\ VacantPlace(e.chat)
  BY RematchOpens
<1>2. PICK n \in Games \ {g}, fresh \in OpenGame :
        /\ games[n] = None
        /\ fresh.chat = e.chat
        /\ fresh.engine.seated = e.required /\ fresh.engine.roster = e.required
        /\ games' = [games EXCEPT ![n] = fresh, ![g].next = n]
        /\ Enters(n, fresh)
  BY RematchOpens
<1> DEFINE old == [e EXCEPT !.next = n]
<1>3. /\ call' = [call EXCEPT ![c] = Idle]
      /\ pendingResults' = pendingResults /\ voted' = voted /\ purged' = purged
  BY DEF PublishRematch, Returns, auxiliary
<1>4. games \in [Games -> OpenGame \cup ClosedGame \cup {None}] /\ call \in [Callers -> Calls]
  BY DEF ServiceInv, StateTypeOK
<1>5. \A x \in Games : games'[x] = IF x = n THEN fresh ELSE IF x = g THEN old ELSE games[x]
  BY <1>1, <1>2, <1>4
<1>6. old = [chat |-> e.chat, creator |-> e.creator, owner |-> e.owner, locked |-> e.locked,
             started |-> e.started, deadline |-> e.deadline, revision |-> e.revision, engine |-> e.engine,
             reset |-> e.reset, receipts |-> e.receipts, required |-> e.required, accepted |-> e.accepted,
             ballotReceipts |-> e.ballotReceipts, next |-> n]
  <2>1. e \in ClosedGame
    BY <1>1
  <2>2. old = [e EXCEPT !.next = n]
    OBVIOUS
  <2> HIDE DEF e, old
  <2> QED
    BY <2>1, <2>2 DEF ClosedGame
<1> HIDE DEF old
<1>7. /\ old \in ClosedGame /\ Summary(old) = Summary(e)
      /\ old.chat = e.chat /\ old.engine = e.engine /\ old.reset = e.reset /\ old.receipts = e.receipts
  <2>1. e.accepted \in SUBSET Players /\ e.ballotReceipts \in SUBSET (Players \X VoteRequests) /\ e \in ClosedGame
    BY <1>1, ClosedIs DEF ClosedFields
  <2> HIDE DEF e
  <2> QED
    BY <1>6, <2>1, VotesSound
<1>8. games' \in [Games -> OpenGame \cup ClosedGame \cup {None}]
  <2>1. DOMAIN games' = Games /\ games' = [x \in Games |-> games'[x]]
    <3>1. DOMAIN games = Games
      BY <1>4
    <3> HIDE DEF g, e
    <3> QED
      BY <1>2, <3>1
  <2>2. \A x \in Games : games'[x] \in OpenGame \cup ClosedGame \cup {None}
    BY <1>4, <1>5, <1>7
  <2> QED
    BY <2>1, <2>2
<1>9. old # None /\ e # None
  BY <1>1, <1>7
<1>10. OthersStay(n)
  <2> SUFFICES ASSUME NEW x \in Games \ {n}
               PROVE  /\ games'[x] # None <=> games[x] # None
                      /\ games'[x].chat = games[x].chat /\ games'[x].engine = games[x].engine
                      /\ games'[x].reset = games[x].reset /\ Summary(games'[x]) = Summary(games[x])
                      /\ games'[x].receipts = games[x].receipts
    BY DEF OthersStay
  <2>1. CASE x = g
    BY <1>5, <1>7, <1>9, <2>1
  <2>2. CASE x # g
    BY <1>5, <2>2
  <2> QED
    BY <2>1, <2>2
<1>11. \A d \in Callers : call'[d] = IF d = c THEN Idle ELSE call[d]
  BY <1>3, <1>4
<1>12. \A d \in Callers : ~(Publishing(d, g) /\ call'[d] = call[d])
  <2>1. ASSUME NEW d \in Callers, Publishing(d, g) PROVE d = c
    BY <1>1, <2>1 DEF ServiceInv, PublishHolds
  <2>2. call'[c] # call[c]
    BY <1>1, <1>11, IdleSound DEF Publishing
  <2> QED
    BY <2>1, <2>2
<1>13. \A x \in Games \ {n} :
           \/ games'[x].next = games[x].next
           \/ \A d \in Callers : ~(Publishing(d, x) /\ call'[d] = call[d])
  BY <1>5, <1>12
<1>14. fresh.chat # None => byChat[fresh.chat] = None
  BY <1>1, <1>2 DEF VacantPlace
<1>15. call' \in [Callers -> Calls] /\ \A d \in Callers : call'[d] = call[d] \/ call'[d] = Idle
  BY <1>3, <1>4, <1>11, IdleSound
<1>16. n \in Games /\ games[n] = None /\ games'[n] = fresh /\ fresh.engine.seated \subseteq fresh.engine.roster
       /\ Enters(n, fresh)
  BY <1>2, <1>5
<1> HIDE DEF g, e
<1> QED
  BY <1>3, <1>8, <1>10, <1>13, <1>14, <1>15, <1>16, GameOpens

-----------------------------------------------------------------------------
(* Resets *)

\* What a reset does to the open game of the chat.
LEMMA ResetCloses ==
  ASSUME ServiceInv, NEW c \in Callers, ResetActive(c)
  PROVE  LET g == call[c].game
             chat == call[c].chat
         IN  /\ g \in Games /\ chat \in Chats /\ IsOpen(g) /\ games[g].chat = chat /\ byChat[chat] = g
             /\ Purge(chat)
             /\ \E n \in ClosedGame :
                  /\ games' = [games EXCEPT ![g] = n]
                  /\ n.chat = chat /\ n.engine = None /\ n.reset /\ n.next = games[g].next
                  /\ n.receipts = games[g].receipts
<1> DEFINE k == call[c]
           g == k.game
           chat == k.chat
           e == games[g]
           n == [e EXCEPT !.reset = TRUE, !.engine = None, !.owner = None, !.deadline = 0]
<1>1. k.op = "reset" /\ g # None /\ byChat[chat] = g /\ Purge(chat)
  BY DEF ResetActive
<1>2. k \in Calls /\ CallSound(k)
  BY DEF ServiceInv, StateTypeOK, CallsSound
<1>3. chat \in Chats /\ g \in Games
  BY <1>1, <1>2 DEF Calls, CallSound
<1>4. IsOpen(g) /\ e.chat = chat
  BY <1>1, <1>3 DEF ServiceInv, IndicesAgree, ChatsAgree
<1>5. games \in [Games -> OpenGame \cup ClosedGame \cup {None}]
  BY DEF ServiceInv, StateTypeOK
<1>6. e \in OpenGame
  BY <1>3, <1>4, GameIs DEF ServiceInv
<1>7. games' = [games EXCEPT ![g] = n]
  <2>1. games' = [games EXCEPT ![g].reset = TRUE, ![g].engine = None, ![g].owner = None, ![g].deadline = 0]
    BY DEF ResetActive
  <2> QED
    BY <1>3, <1>5, <2>1
<1>8. n = [chat |-> e.chat, creator |-> e.creator, owner |-> None, locked |-> e.locked,
           started |-> e.started, deadline |-> 0, revision |-> e.revision, engine |-> None,
           reset |-> TRUE, receipts |-> e.receipts, required |-> e.required, accepted |-> e.accepted,
           ballotReceipts |-> e.ballotReceipts, next |-> e.next]
  <2>1. n = [e EXCEPT !.reset = TRUE, !.engine = None, !.owner = None, !.deadline = 0]
    OBVIOUS
  <2> HIDE DEF e, n
  <2> QED
    BY <1>6, <2>1 DEF OpenGame
<1>9. OpenFields(e)
  BY <1>6, OpenIs
<1> HIDE DEF n, e
<1>10. Record(n)
  BY <1>8 DEF Record
<1>11. ClosedFields(n)
  BY <1>8, <1>9 DEF OpenFields, ClosedFields
<1>12. n \in ClosedGame
  BY <1>10, <1>11, ClosedIs
<1>13. n.chat = chat /\ n.engine = None /\ n.reset /\ n.next = e.next /\ n.receipts = e.receipts
  BY <1>4, <1>8
<1> QED
  BY <1>1, <1>3, <1>4, <1>7, <1>12, <1>13 DEF e

LEMMA ResetActiveKeeps ==
  ASSUME ServiceInv, NEW c \in Callers, ResetActive(c)
  PROVE  ServiceInv'
<1>0. PICK g \in Games, chat \in Chats : g = call[c].game /\ chat = call[c].chat
  BY ResetCloses
<1>1. /\ g \in Games /\ chat \in Chats /\ IsOpen(g) /\ games[g].chat = chat /\ byChat[chat] = g
      /\ Purge(chat)
  BY <1>0, ResetCloses
<1>2. PICK n \in ClosedGame :
        /\ games' = [games EXCEPT ![g] = n]
        /\ n.chat = chat /\ n.engine = None /\ n.reset /\ n.next = games[g].next
        /\ n.receipts = games[g].receipts
  BY <1>0, ResetCloses
<1>3. call' = [call EXCEPT ![c] = Idle] /\ pendingResults' = pendingResults /\ voted' = voted
  BY DEF ResetActive, Returns
<1>4. games \in [Games -> OpenGame \cup ClosedGame \cup {None}] /\ call \in [Callers -> Calls] /\ StateTypeOK /\ IndicesAgree
  BY DEF ServiceInv, StateTypeOK
<1>5. \A x \in Games : games'[x] = IF x = g THEN n ELSE games[x]
  BY <1>2, <1>4
<1>6. n # None
  OBVIOUS
<1>7. Exists(g)' /\ ~IsOpen(g)'
  BY <1>1, <1>2, <1>5, <1>6 DEF Exists, IsOpen
<1>8. \A x \in Games : \/ games'[x] = games[x]
                       \/ IsOpen(x) /\ games[x].chat = chat /\ Exists(x)' /\ ~IsOpen(x)'
  BY <1>1, <1>5, <1>7
<1>9. \A x \in Games : byChat[chat] = x => ~IsOpen(x)'
  BY <1>1, <1>7
<1>10. Exists(g)
  BY <1>1 DEF IsOpen
<1>11. \A d \in Callers : ~(Publishing(d, g) /\ call'[d] = call[d])
  BY <1>1, OpenIsNotHeld
<1>12. /\ call' \in [Callers -> Calls]
       /\ \A d \in Callers :
            \/ call'[d] = call[d]
            \/ CallSound(call'[d]) /\ call'[d].op # "publish" /\ call'[d].answer # "done"
  BY <1>3, <1>4, IdleSound
<1>13. /\ IndicesAgree'
       /\ byID' \in [Games -> Summaries \cup {None}]
       /\ byChat' \in [Chats -> Games \cup {None}]
       /\ byPlayer' \in [Players -> SUBSET Games]
       /\ history' \in Seq(Games)
       /\ purged' \subseteq Games
  BY <1>1, <1>4, <1>8, <1>9, PurgeAgrees
<1>14. n \in OpenGame \cup ClosedGame /\ games[g].receipts \subseteq n.receipts /\ games' = [games EXCEPT ![g] = n]
       /\ (n.engine # None => n.engine.seated \subseteq n.engine.roster)
  BY <1>2
<1>15. /\ CallsSound' /\ PublishHolds' /\ DoneHasReceipt' /\ SeatsOnRoster'
       /\ games' \in [Games -> OpenGame \cup ClosedGame \cup {None}]
  BY <1>1, <1>10, <1>11, <1>12, <1>14, GameMoves
<1>16. StateTypeOK'
  BY <1>3, <1>4, <1>12, <1>13, <1>15 DEF StateTypeOK
<1> QED
  BY <1>13, <1>15, <1>16 DEF ServiceInv

LEMMA ResetIdleKeeps ==
  ASSUME ServiceInv, NEW c \in Callers, ResetIdle(c)
  PROVE  ServiceInv'
<1> DEFINE chat == call[c].chat
<1>1. /\ games' = games /\ pendingResults' = pendingResults /\ voted' = voted
      /\ call' = [call EXCEPT ![c] = Idle] /\ byChat[chat] = None /\ Purge(chat) /\ call[c].op = "reset"
  BY DEF ResetIdle, Returns
<1>2. chat \in Chats
  BY <1>1 DEF ServiceInv, CallsSound, CallSound
<1>3. call \in [Callers -> Calls] /\ StateTypeOK /\ IndicesAgree
  BY DEF ServiceInv, StateTypeOK
<1>4. \A x \in Games : byChat[chat] = x => ~IsOpen(x)'
  BY <1>1
<1>5. \A x \in Games : games'[x] = games[x]
  BY <1>1
<1>6. \A d \in Callers : call'[d] = IF d = c THEN Idle ELSE call[d]
  BY <1>1, <1>3
<1> HIDE DEF chat
<1>7. /\ IndicesAgree'
      /\ byID' \in [Games -> Summaries \cup {None}]
      /\ byChat' \in [Chats -> Games \cup {None}]
      /\ byPlayer' \in [Players -> SUBSET Games]
      /\ history' \in Seq(Games)
      /\ purged' \subseteq Games
  BY <1>1, <1>2, <1>3, <1>4, <1>5, PurgeAgrees
<1>8. \A x \in Games : Exists(x) => games'[x] # None /\ games[x].receipts \subseteq games'[x].receipts
  BY <1>5 DEF Exists
<1>9. ASSUME NEW d \in Callers, NEW x \in Games, Publishing(d, x), call'[d] = call[d]
      PROVE  IsFinal(x)' /\ games'[x].next = None
  BY <1>5, <1>9 DEF ServiceInv, PublishHolds, IsFinal, Exists
<1>10. \A d \in Callers :
         \/ call'[d] = call[d]
         \/ /\ CallSound(call'[d]) /\ call'[d].op # "publish"
            /\ call'[d].answer = "done" =>
                 /\ games'[call'[d].game] # None
                 /\ <<call'[d].player, call'[d].request>> \in games'[call'[d].game].receipts
  BY <1>6, IdleSound
<1>11. CallsSound' /\ PublishHolds' /\ DoneHasReceipt'
  BY <1>8, <1>9, <1>10, CallsKept
<1>12. SeatsOnRoster'
  BY <1>5 DEF ServiceInv, SeatsOnRoster, IsOpen, Exists
<1>13. StateTypeOK'
  BY <1>1, <1>3, <1>7, IdleSound DEF StateTypeOK
<1> QED
  BY <1>7, <1>11, <1>12, <1>13 DEF ServiceInv

-----------------------------------------------------------------------------
(* The invariant *)

LEMMA InitSound == Init => ServiceInv
<1> SUFFICES ASSUME Init PROVE ServiceInv
  OBVIOUS
<1>1. /\ games = [g \in Games |-> None] /\ byID = [g \in Games |-> None] /\ byChat = [x \in Chats |-> None]
      /\ byPlayer = [p \in Players |-> {}] /\ history = <<>> /\ pendingResults = {}
      /\ call = [c \in Callers |-> Idle] /\ voted = {} /\ purged = {}
  BY DEF Init
<1>2. \A g \in Games : ~Exists(g) /\ ~IsOpen(g) /\ ~IsFinal(g) /\ ~Listed(g)
  BY <1>1 DEF Exists, IsOpen, IsFinal, Listed
<1>3. \A c \in Callers : call[c] = Idle
  BY <1>1
<1>4. StateTypeOK
  BY <1>1, IdleSound, EmptySeq DEF StateTypeOK
<1>5. CallsSound /\ DoneHasReceipt
  BY <1>3, IdleSound DEF CallsSound, DoneHasReceipt
<1>6. PublishHolds
  BY <1>3, IdleSound DEF PublishHolds, Publishing
<1>7. SeatsOnRoster
  BY <1>2 DEF SeatsOnRoster
<1>8. ChatsAgree /\ PlayersAgree /\ SummariesAgree
  BY <1>1, <1>2 DEF ChatsAgree, PlayersAgree, SummariesAgree
<1>9. HistoryAgrees
  <2>1. Len(history) = 0 /\ DOMAIN history = {}
    BY <1>1, EmptySeq
  <2> QED
    BY <1>2, <2>1 DEF HistoryAgrees
<1> QED
  BY <1>4, <1>5, <1>6, <1>7, <1>8, <1>9 DEF ServiceInv, IndicesAgree

\* Every step of the service keeps the invariant.
LEMMA StepsSound == ServiceInv /\ [Next]_vars => ServiceInv'
<1> SUFFICES ASSUME ServiceInv, [Next]_vars PROVE ServiceInv'
  OBVIOUS
<1>1. CASE Create
  BY <1>1, CreateKeeps
<1>2. ASSUME NEW c \in Callers,
             \/ Find(c) \/ Apply(c) \/ RefuseLate(c) \/ SetLocked(c) \/ GiveUp(c)
             \/ Scan(c) \/ SkipTurn(c)
             \/ FindClosed(c) \/ Vote(c) \/ PublishRematch(c) \/ FailRematch(c)
             \/ ReadActive(c) \/ ResetActive(c) \/ ResetIdle(c) \/ ReadAgain(c)
      PROVE  ServiceInv'
  BY <1>2, FindKeeps, ApplyKeeps, RefuseLateKeeps, SetLockedKeeps, GiveUpKeeps, ScanKeeps, SkipTurnKeeps,
     FindClosedKeeps, VoteKeeps, PublishRematchKeeps, FailRematchKeeps, ReadActiveKeeps, ResetActiveKeeps,
     ResetIdleKeeps, ReadAgainKeeps
<1>3. ASSUME NEW g \in Games, Tick(g) \/ AcknowledgeResult(g) PROVE ServiceInv'
  BY <1>3, TickKeeps, AcknowledgeKeeps
<1>4. CASE UNCHANGED vars
  <2>1. /\ games' = games /\ byID' = byID /\ byChat' = byChat /\ byPlayer' = byPlayer
        /\ history' = history /\ call' = call /\ voted' = voted /\ purged' = purged
        /\ pendingResults' = pendingResults
    BY <1>4 DEF vars, indices, auxiliary
  <2>2. StateTypeOK'
    BY <2>1 DEF ServiceInv, StateTypeOK
  <2>3. CallsSound' /\ PublishHolds' /\ DoneHasReceipt' /\ SeatsOnRoster'
    BY <2>1 DEF ServiceInv, CallsSound, CallSound, PublishHolds, Publishing, DoneHasReceipt, SeatsOnRoster,
                IsFinal, IsOpen, Exists
  <2>4. ChatsAgree' /\ PlayersAgree'
    BY <2>1 DEF ServiceInv, IndicesAgree, ChatsAgree, PlayersAgree, IsOpen, Exists
  <2>5. SummariesAgree' /\ HistoryAgrees'
    BY <2>1 DEF ServiceInv, IndicesAgree, SummariesAgree, HistoryAgrees, IsOpen, Exists, Listed, Summary
  <2> QED
    BY <2>2, <2>3, <2>4, <2>5 DEF ServiceInv, IndicesAgree
<1> QED
  BY <1>1, <1>2, <1>3, <1>4 DEF Next

\* In every state, however lookups, locked sections and resets interleave: who
\* holds a game is alone, answers are on record, the indices agree.
THEOREM ServiceInvariant == Spec => []ServiceInv
<1>1. Init => ServiceInv
  BY InitSound
<1>2. ServiceInv /\ [Next]_vars => ServiceInv'
  BY StepsSound
<1> QED
  BY <1>1, <1>2, PTL DEF Spec

\* The indices lead to the open games and to no others, the summaries are the
\* games they stand for, and the history is what is listed and closed.
THEOREM IndicesTellTheTruth == Spec => []IndicesAgree
<1>1. ServiceInv => IndicesAgree
  BY DEF ServiceInv
<1> QED
  BY <1>1, ServiceInvariant, PTL

-----------------------------------------------------------------------------
(* Steps that leave every game where and what it is *)

\* A game is still there, in its place, in play or over as it was, with the
\* same rematch.
Unmoved(x) ==
  \/ games'[x] = games[x]
  \/ /\ games[x] # None /\ games'[x] # None
     /\ games'[x].chat = games[x].chat /\ games'[x].engine = games[x].engine
     /\ games'[x].reset = games[x].reset /\ games'[x].next = games[x].next

\* The door and the clock of an open game leave it where and what it is.
LEMMA OpenUnmoved ==
  ASSUME NEW e \in OpenGame, NEW locked \in BOOLEAN, NEW deadline \in 0 .. TurnTime, NEW n,
         n = [chat |-> e.chat, creator |-> e.creator, owner |-> e.owner, locked |-> locked,
              started |-> e.started, deadline |-> deadline, revision |-> e.revision, engine |-> e.engine,
              reset |-> e.reset, receipts |-> e.receipts, required |-> e.required, accepted |-> e.accepted,
              ballotReceipts |-> e.ballotReceipts, next |-> e.next]
  PROVE  n # None /\ n.chat = e.chat /\ n.engine = e.engine /\ n.reset = e.reset /\ n.next = e.next
<1>1. OpenFields(e)
  BY OpenIs
<1>2. Record(n) /\ OpenFields(n)
  BY <1>1 DEF Record, OpenFields
<1>3. n \in OpenGame
  BY <1>2, OpenIs
<1>4. n # None
  BY <1>3
<1> QED
  BY <1>4

LEMMA SetLockedUnmoved ==
  ASSUME ServiceInv, NEW c \in Callers, SetLocked(c)
  PROVE  \A x \in Games : Unmoved(x)
<1> DEFINE g == call[c].game
           e == games[g]
<1>1. IsOpen(g) /\ g \in Games
  BY DEF ServiceInv, CallsSound, CallSound, SetLocked
<1>2. e \in OpenGame /\ games \in [Games -> OpenGame \cup ClosedGame \cup {None}]
  BY <1>1, GameIs DEF ServiceInv, StateTypeOK
<1>3. PICK locked \in LockRequests : games' = [games EXCEPT ![g] = [e EXCEPT !.locked = locked]]
  BY DEF SetLocked
<1> DEFINE n == [e EXCEPT !.locked = locked]
<1>4. n = [chat |-> e.chat, creator |-> e.creator, owner |-> e.owner, locked |-> locked,
           started |-> e.started, deadline |-> e.deadline, revision |-> e.revision, engine |-> e.engine,
           reset |-> e.reset, receipts |-> e.receipts, required |-> e.required, accepted |-> e.accepted,
           ballotReceipts |-> e.ballotReceipts, next |-> e.next]
  <2> HIDE DEF e
  <2> QED
    BY <1>2 DEF OpenGame
<1>5. locked \in BOOLEAN /\ e.deadline \in 0 .. TurnTime
  BY <1>2, OpenIs DEF OpenFields
<1>6. games' = [games EXCEPT ![g] = n]
  BY <1>3
<1> HIDE DEF n
<1>7. n # None /\ n.chat = e.chat /\ n.engine = e.engine /\ n.reset = e.reset /\ n.next = e.next
  <2> HIDE DEF e
  <2> QED
    BY <1>2, <1>4, <1>5, OpenUnmoved
<1>8. \A x \in Games : games'[x] = IF x = g THEN n ELSE games[x]
  BY <1>1, <1>2, <1>6
<1>9. e # None
  BY <1>2
<1> QED
  BY <1>7, <1>8, <1>9 DEF Unmoved

LEMMA TickUnmoved ==
  ASSUME ServiceInv, NEW g \in Games, Tick(g)
  PROVE  \A x \in Games : Unmoved(x)
<1> DEFINE e == games[g]
           n == [e EXCEPT !.deadline = @ - 1]
<1>1. IsOpen(g) /\ e.deadline > 0 /\ games' = [games EXCEPT ![g] = n]
  BY DEF Tick
<1>2. e \in OpenGame /\ games \in [Games -> OpenGame \cup ClosedGame \cup {None}]
  BY <1>1, GameIs DEF ServiceInv, StateTypeOK
<1>3. e.locked \in BOOLEAN /\ e.deadline - 1 \in 0 .. TurnTime
  <2>1. OpenFields(e) /\ e.deadline > 0
    BY <1>1, <1>2, OpenIs
  <2> HIDE DEF e
  <2> QED
    BY <2>1 DEF OpenFields
<1>4. n = [chat |-> e.chat, creator |-> e.creator, owner |-> e.owner, locked |-> e.locked,
           started |-> e.started, deadline |-> e.deadline - 1, revision |-> e.revision, engine |-> e.engine,
           reset |-> e.reset, receipts |-> e.receipts, required |-> e.required, accepted |-> e.accepted,
           ballotReceipts |-> e.ballotReceipts, next |-> e.next]
  <2> HIDE DEF e
  <2> QED
    BY <1>2 DEF OpenGame
<1> HIDE DEF n
<1>5. n # None /\ n.chat = e.chat /\ n.engine = e.engine /\ n.reset = e.reset /\ n.next = e.next
  <2> HIDE DEF e
  <2> QED
    BY <1>2, <1>3, <1>4, OpenUnmoved
<1>6. \A x \in Games : games'[x] = IF x = g THEN n ELSE games[x]
  BY <1>1, <1>2
<1>7. e # None
  BY <1>2
<1> QED
  BY <1>5, <1>6, <1>7 DEF Unmoved

LEMMA FailRematchUnmoved ==
  ASSUME ServiceInv, NEW c \in Callers, FailRematch(c)
  PROVE  \A x \in Games : Unmoved(x)
<1> DEFINE k == call[c]
           g == k.game
           e == games[g]
           kept == e.ballotReceipts \ {<<k.player, k.request>>}
           n == [e EXCEPT !.ballotReceipts = kept]
<1>1. g \in Games /\ IsFinal(g)
  <2>1. CallSound(k) /\ k.op = "publish"
    BY DEF ServiceInv, CallsSound, FailRematch
  <2>2. g \in Games
    BY <2>1 DEF CallSound
  <2> QED
    BY <2>1, <2>2 DEF ServiceInv, PublishHolds, Publishing
<1>2. e \in ClosedGame /\ games \in [Games -> OpenGame \cup ClosedGame \cup {None}]
  BY <1>1, GameIs DEF ServiceInv, StateTypeOK, IsFinal, IsOpen
<1>3. games' = [games EXCEPT ![g] = n]
  <2>1. games' = [games EXCEPT ![g].ballotReceipts = @ \ {<<k.player, k.request>>}]
    BY DEF FailRematch
  <2> QED
    BY <1>1, <1>2, <2>1
<1>4. e.accepted \in SUBSET Players /\ kept \in SUBSET (Players \X VoteRequests)
  BY <1>2, ClosedIs DEF ClosedFields
<1>5. n = [chat |-> e.chat, creator |-> e.creator, owner |-> e.owner, locked |-> e.locked,
           started |-> e.started, deadline |-> e.deadline, revision |-> e.revision, engine |-> e.engine,
           reset |-> e.reset, receipts |-> e.receipts, required |-> e.required, accepted |-> e.accepted,
           ballotReceipts |-> kept, next |-> e.next]
  <2> HIDE DEF e, kept
  <2> QED
    BY <1>2 DEF ClosedGame
<1> HIDE DEF n, kept
<1>6. n # None /\ n.chat = e.chat /\ n.engine = e.engine /\ n.reset = e.reset /\ n.next = e.next
  <2> HIDE DEF e
  <2>1. e.next \in Games \cup {None}
    BY <1>2, ClosedIs DEF ClosedFields
  <2>2. n \in ClosedGame
    BY <1>2, <1>4, <1>5, <2>1, VotesSound
  <2> QED
    BY <1>5, <2>2
<1>7. \A x \in Games : games'[x] = IF x = g THEN n ELSE games[x]
  BY <1>1, <1>2, <1>3
<1>8. e # None
  BY <1>2
<1> QED
  BY <1>6, <1>7, <1>8 DEF Unmoved

LEMMA VoteUnmoved ==
  ASSUME ServiceInv, NEW c \in Callers, Vote(c)
  PROVE  \A x \in Games : Unmoved(x)
<1> DEFINE k == call[c]
           g == k.game
           e == games[g]
           accepted == IF k.request \in Acceptances THEN e.accepted \cup {k.player} ELSE e.accepted \ {k.player}
           ballots == e.ballotReceipts \cup {<<k.player, k.request>>}
           n == [e EXCEPT !.accepted = accepted, !.ballotReceipts = ballots]
<1>1. CallSound(k) /\ k.op = "vote" /\ IsFinal(g)
  BY DEF ServiceInv, CallsSound, Vote
<1>2. g \in Games /\ k.player \in Players /\ k.request \in VoteRequests
  BY <1>1 DEF CallSound
<1>3. e \in ClosedGame /\ games \in [Games -> OpenGame \cup ClosedGame \cup {None}]
  BY <1>1, <1>2, GameIs DEF ServiceInv, StateTypeOK, IsFinal, IsOpen
<1>4. games' = [games EXCEPT ![g] = n]
  <2>1. games' = [games EXCEPT ![g].accepted = accepted, ![g].ballotReceipts = @ \cup {<<k.player, k.request>>}]
    BY DEF Vote
  <2> QED
    BY <1>2, <1>3, <2>1
<1>5. accepted \in SUBSET Players /\ ballots \in SUBSET (Players \X VoteRequests)
  <2>1. e.accepted \in SUBSET Players /\ e.ballotReceipts \in SUBSET (Players \X VoteRequests)
    BY <1>3, ClosedIs DEF ClosedFields
  <2> HIDE DEF e
  <2> QED
    BY <1>2, <2>1
<1>6. n = [chat |-> e.chat, creator |-> e.creator, owner |-> e.owner, locked |-> e.locked,
           started |-> e.started, deadline |-> e.deadline, revision |-> e.revision, engine |-> e.engine,
           reset |-> e.reset, receipts |-> e.receipts, required |-> e.required, accepted |-> accepted,
           ballotReceipts |-> ballots, next |-> e.next]
  <2>1. n = [e EXCEPT !.accepted = accepted, !.ballotReceipts = ballots]
    OBVIOUS
  <2> HIDE DEF e, accepted, ballots, n
  <2> QED
    BY <1>3, <2>1 DEF ClosedGame
<1> HIDE DEF n, accepted, ballots
<1>7. n # None /\ n.chat = e.chat /\ n.engine = e.engine /\ n.reset = e.reset /\ n.next = e.next
  <2> HIDE DEF e
  <2>1. e.next \in Games \cup {None}
    BY <1>3, ClosedIs DEF ClosedFields
  <2>2. n \in ClosedGame
    BY <1>3, <1>5, <1>6, <2>1, VotesSound
  <2> QED
    BY <1>6, <2>2
<1>8. \A x \in Games : games'[x] = IF x = g THEN n ELSE games[x]
  BY <1>2, <1>3, <1>4
<1>9. e # None
  BY <1>3
<1> QED
  BY <1>7, <1>8, <1>9 DEF Unmoved

\* Every step but the four that open and end games.
LEMMA OthersUnmoved ==
  ASSUME ServiceInv, [Next]_vars, ~Create,
         \A c \in Callers : ~(Apply(c) \/ SkipTurn(c) \/ PublishRematch(c) \/ ResetActive(c))
  PROVE  /\ \A x \in Games : Unmoved(x)
         /\ pendingResults' = pendingResults \/ \E g \in Games : AcknowledgeResult(g)
<1>1. CASE games' = games
  <2>1. \A x \in Games : Unmoved(x)
    BY <1>1 DEF Unmoved
  <2>2. pendingResults' = pendingResults \/ \E g \in Games : AcknowledgeResult(g)
    BY DEF Next, Find, RefuseLate, SetLocked, GiveUp, Scan, FindClosed, Vote, FailRematch, ReadActive,
           ResetIdle, ReadAgain, Tick, vars, indices
  <2> QED
    BY <2>1, <2>2
<1>2. CASE games' # games
  <2>1. \/ \E c \in Callers : SetLocked(c) \/ Vote(c) \/ FailRematch(c)
        \/ \E g \in Games : Tick(g)
    BY <1>2 DEF Next, Find, RefuseLate, GiveUp, Scan, FindClosed, ReadActive, ResetIdle, ReadAgain,
                AcknowledgeResult, vars
  <2>2. pendingResults' = pendingResults
    BY <2>1 DEF SetLocked, Vote, FailRematch, Tick, indices
  <2> QED
    BY <2>1, <2>2, SetLockedUnmoved, VoteUnmoved, FailRematchUnmoved, TickUnmoved
<1> QED
  BY <1>1, <1>2

-----------------------------------------------------------------------------
(* The rooms *)

RoomsStep == [Rooms!RoomsNext]_(Rooms!rooms)

\* The rooms see no difference in a game that has not moved.
LEMMA UnmovedLooks ==
  ASSUME NEW x \in Games, Unmoved(x)
  PROVE  LifeOf(x)' = LifeOf(x) /\ PlaceOf(x)' = PlaceOf(x) /\ HeirOf(x)' = HeirOf(x)
BY DEF Unmoved, LifeOf, PlaceOf, HeirOf, IsOpen, Exists

LEMMA QuietRooms ==
  ASSUME \A x \in Games : Unmoved(x)
  PROVE  Lives' = Lives /\ Whereabouts' = Whereabouts /\ Heirs' = Heirs
BY UnmovedLooks DEF Lives, Whereabouts, Heirs

LEMMA QuietStep ==
  ASSUME \A x \in Games : Unmoved(x), pendingResults' = pendingResults
  PROVE  RoomsStep
BY QuietRooms DEF RoomsStep, Rooms!rooms

\* The finalizer stores a result.
LEMMA AcknowledgeStep ==
  ASSUME \A x \in Games : Unmoved(x), NEW g \in Games, AcknowledgeResult(g)
  PROVE  RoomsStep
<1>1. Rooms!Store(g)
  BY QuietRooms DEF AcknowledgeResult, Rooms!Store
<1> QED
  BY <1>1 DEF RoomsStep, Rooms!RoomsNext

\* A chat without a game in the index is vacant.
LEMMA VacantIs ==
  ASSUME ServiceInv, NEW chat \in Chats \cup {None}, VacantPlace(chat)
  PROVE  Rooms!Vacant(chat)
<1> SUFFICES ASSUME chat # None, NEW g \in Games, Lives[g] = "open", Whereabouts[g] = chat
             PROVE  FALSE
  BY DEF Rooms!Vacant
<1>1. LifeOf(g) = "open" /\ PlaceOf(g) = chat
  BY DEF Lives, Whereabouts
<1>2. IsOpen(g) /\ games[g].chat = chat
  BY <1>1 DEF LifeOf, PlaceOf, IsOpen
<1>3. byChat[chat] = g
  BY <1>2 DEF ServiceInv, IndicesAgree, ChatsAgree
<1> QED
  BY <1>3 DEF VacantPlace

\* A game that opens is an open room, and the others stay what they were.
LEMMA OpenLooks ==
  ASSUME NEW g \in Games, NEW fresh \in OpenGame, games'[g] = fresh
  PROVE  LifeOf(g)' = "open" /\ PlaceOf(g)' = fresh.chat /\ HeirOf(g)' = None
<1>1. fresh # None /\ fresh.engine # None /\ fresh.reset = FALSE /\ fresh.next = None
  BY OpenIs DEF OpenFields
<1> QED
  BY <1>1 DEF LifeOf, PlaceOf, HeirOf, IsOpen, Exists

LEMMA UnbornLooks ==
  ASSUME NEW g \in Games, games[g] = None
  PROVE  LifeOf(g) = "unborn" /\ PlaceOf(g) = None /\ HeirOf(g) = None
BY DEF LifeOf, PlaceOf, HeirOf, Exists

LEMMA CreateStep ==
  ASSUME ServiceInv, Create
  PROVE  RoomsStep
<1>1. PICK g \in Games, p \in Players, chat \in Places :
           LET e == NewGame(chat, p, FALSE, R!EmptyRound(FALSE), 0)
           IN  /\ games[g] = None /\ (chat # None => byChat[chat] = None)
               /\ games' = [games EXCEPT ![g] = e] /\ byID' = [byID EXCEPT ![g] = Summary(e)]
               /\ byChat' = IF chat = None THEN byChat ELSE [byChat EXCEPT ![chat] = g]
               /\ chat \in Chats \cup {None}
               /\ e \in OpenGame /\ e.chat = chat /\ e.engine = R!EmptyRound(FALSE)
  BY CreateOpens
<1> DEFINE e == NewGame(chat, p, FALSE, R!EmptyRound(FALSE), 0)
<1>2. /\ games[g] = None /\ VacantPlace(chat) /\ games' = [games EXCEPT ![g] = e]
      /\ chat \in Chats \cup {None} /\ e \in OpenGame /\ e.chat = chat
  BY <1>1 DEF VacantPlace
<1>3. pendingResults' = pendingResults /\ games \in [Games -> OpenGame \cup ClosedGame \cup {None}]
  BY DEF Create, ServiceInv, StateTypeOK
<1> HIDE DEF e
<1>4. games'[g] = e /\ \A x \in Games \ {g} : Unmoved(x)
  BY <1>2, <1>3 DEF Unmoved
<1>5. LifeOf(g)' = "open" /\ PlaceOf(g)' = chat /\ HeirOf(g)' = None
  BY <1>2, <1>4, OpenLooks
<1>6. LifeOf(g) = "unborn" /\ HeirOf(g) = None
  BY <1>2, UnbornLooks
<1>7. /\ Lives[g] = "unborn" /\ Lives' = [Lives EXCEPT ![g] = "open"]
      /\ Whereabouts' = [Whereabouts EXCEPT ![g] = chat] /\ Heirs' = Heirs
  BY <1>4, <1>5, <1>6, UnmovedLooks DEF Lives, Whereabouts, Heirs
<1>8. Rooms!Vacant(chat)
  BY <1>2, VacantIs
<1>9. Rooms!Open(g, chat)
  BY <1>3, <1>7, <1>8 DEF Rooms!Open
<1> QED
  BY <1>2, <1>9 DEF RoomsStep, Rooms!RoomsNext

\* A move that ends a game closes its room; any other is not seen.
LEMMA MoveStep ==
  ASSUME ServiceInv, NEW c \in Callers, NEW g \in Games, IsOpen(g),
         NEW n \in OpenGame \cup ClosedGame, NEW owed \in BOOLEAN, NEW after \in R!Rounds,
         MovedOn(c, g, n, owed, after)
  PROVE  RoomsStep
<1>1. /\ games' = [games EXCEPT ![g] = n] /\ n.chat = games[g].chat /\ n.reset = FALSE /\ n.next = None
      /\ n.engine = (IF after.stage = "Over" THEN None ELSE after)
      /\ pendingResults' = pendingResults \cup (IF owed THEN {g} ELSE {})
      /\ (owed => n.engine = None)
  BY DEF MovedOn, Publish
<1>2. games \in [Games -> OpenGame \cup ClosedGame \cup {None}] /\ games[g] \in OpenGame
  BY GameIs DEF ServiceInv, StateTypeOK
<1>3. games'[g] = n /\ \A x \in Games \ {g} : Unmoved(x)
  BY <1>1, <1>2 DEF Unmoved
<1>4. games[g].reset = FALSE /\ games[g].next = None /\ games[g].engine # None /\ games[g] # None /\ n # None
  BY <1>2, OpenIs DEF OpenFields
<1>5. LifeOf(g) = "open" /\ PlaceOf(g)' = PlaceOf(g) /\ HeirOf(g)' = HeirOf(g)
  BY <1>1, <1>3, <1>4 DEF LifeOf, PlaceOf, HeirOf, IsOpen, Exists
<1>6. Whereabouts' = Whereabouts /\ Heirs' = Heirs
  BY <1>3, <1>5, UnmovedLooks DEF Whereabouts, Heirs
<1>7. CASE n.engine = None
  <2>1. LifeOf(g)' = "closed"
    BY <1>1, <1>3, <1>4, <1>7 DEF LifeOf, IsOpen, Exists
  <2>2. Lives[g] = "open" /\ Lives' = [Lives EXCEPT ![g] = "closed"]
    BY <1>3, <1>5, <2>1, UnmovedLooks DEF Lives
  <2>3. pendingResults' \in {pendingResults, pendingResults \cup {g}}
    BY <1>1
  <2>4. Rooms!Close(g)
    BY <1>6, <2>2, <2>3 DEF Rooms!Close
  <2> QED
    BY <2>4 DEF RoomsStep, Rooms!RoomsNext
<1>8. CASE n.engine # None
  <2>1. LifeOf(g)' = "open"
    BY <1>1, <1>3, <1>4, <1>8 DEF LifeOf, IsOpen, Exists
  <2>2. Lives' = Lives
    BY <1>3, <1>5, <2>1, UnmovedLooks DEF Lives
  <2>3. pendingResults' = pendingResults
    BY <1>1, <1>8
  <2> QED
    BY <1>6, <2>2, <2>3 DEF RoomsStep, Rooms!rooms
<1> QED
  BY <1>7, <1>8

\* A reset ends the game of its chat and leaves no result.
LEMMA ResetStep ==
  ASSUME ServiceInv, NEW c \in Callers, ResetActive(c)
  PROVE  RoomsStep
<1>1. PICK g \in Games, chat \in Chats : g = call[c].game /\ chat = call[c].chat
  BY ResetCloses
<1>2. IsOpen(g) /\ games[g].chat = chat
  BY <1>1, ResetCloses
<1>3. PICK n \in ClosedGame :
        /\ games' = [games EXCEPT ![g] = n]
        /\ n.chat = chat /\ n.engine = None /\ n.reset /\ n.next = games[g].next
  BY <1>1, ResetCloses
<1>4. games \in [Games -> OpenGame \cup ClosedGame \cup {None}] /\ games[g] \in OpenGame
  BY <1>2, GameIs DEF ServiceInv, StateTypeOK
<1>5. games[g].reset = FALSE /\ games[g].engine # None /\ games[g] # None /\ n # None /\ chat # None
  BY <1>4, OpenIs DEF OpenFields, Chats
<1>6. games'[g] = n /\ \A x \in Games \ {g} : Unmoved(x)
  BY <1>3, <1>4 DEF Unmoved
<1>7. LifeOf(g) = "open" /\ LifeOf(g)' = "reset" /\ PlaceOf(g) = chat /\ PlaceOf(g)' = chat /\ HeirOf(g)' = HeirOf(g)
  BY <1>2, <1>3, <1>5, <1>6 DEF LifeOf, PlaceOf, HeirOf, IsOpen, Exists
<1>8. /\ Lives[g] = "open" /\ Lives' = [Lives EXCEPT ![g] = "reset"]
      /\ Whereabouts[g] # None /\ Whereabouts' = Whereabouts /\ Heirs' = Heirs
  BY <1>5, <1>6, <1>7, UnmovedLooks DEF Lives, Whereabouts, Heirs
<1>9. pendingResults' = pendingResults
  BY DEF ResetActive
<1>10. Rooms!ResetRoom(g)
  BY <1>8, <1>9 DEF Rooms!ResetRoom
<1> QED
  BY <1>10 DEF RoomsStep, Rooms!RoomsNext

\* The last acceptance opens the next game where the closed one was.
LEMMA RematchStep ==
  ASSUME ServiceInv, NEW c \in Callers, PublishRematch(c)
  PROVE  RoomsStep
<1>1. PICK g \in Games : g = call[c].game
  BY RematchOpens
<1> DEFINE e == games[g]
<1>2. IsFinal(g) /\ e \in ClosedGame /\ e.next = None /\ VacantPlace(e.chat) /\ ResultStored(g)
  BY <1>1, RematchOpens
<1>3. PICK n \in Games \ {g}, fresh \in OpenGame :
        /\ games[n] = None /\ fresh.chat = e.chat
        /\ games' = [games EXCEPT ![n] = fresh, ![g].next = n]
  BY <1>1, RematchOpens
<1> DEFINE old == [e EXCEPT !.next = n]
<1>4. games \in [Games -> OpenGame \cup ClosedGame \cup {None}]
  BY DEF ServiceInv, StateTypeOK
<1>5. games'[n] = fresh /\ games'[g] = old /\ \A x \in Games \ {g, n} : games'[x] = games[x]
  BY <1>3, <1>4
<1>6. old.chat = e.chat /\ old.engine = e.engine /\ old.reset = e.reset /\ old.next = n /\ old # None
  <2>1. /\ old = [chat |-> e.chat, creator |-> e.creator, owner |-> e.owner, locked |-> e.locked,
                  started |-> e.started, deadline |-> e.deadline, revision |-> e.revision, engine |-> e.engine,
                  reset |-> e.reset, receipts |-> e.receipts, required |-> e.required, accepted |-> e.accepted,
                  ballotReceipts |-> e.ballotReceipts, next |-> n]
    <3>1. old = [e EXCEPT !.next = n] /\ e \in ClosedGame
      BY <1>2
    <3> HIDE DEF e, old
    <3> QED
      BY <3>1 DEF ClosedGame
  <2>2. e \in ClosedGame /\ e.accepted \in SUBSET Players /\ e.ballotReceipts \in SUBSET (Players \X VoteRequests)
        /\ n \in Games \cup {None}
    BY <1>2, ClosedIs DEF ClosedFields
  <2> HIDE DEF e, old
  <2>3. old \in ClosedGame
    BY <2>1, <2>2, VotesSound
  <2> QED
    BY <2>1, <2>3
<1> HIDE DEF old
<1>7. \A x \in Games \ {g, n} : Unmoved(x)
  BY <1>5 DEF Unmoved
<1>8. LifeOf(n)' = "open" /\ PlaceOf(n)' = e.chat /\ HeirOf(n)' = None
  <2>1. fresh.chat = e.chat /\ games'[n] = fresh
    BY <1>3, <1>5
  <2> HIDE DEF e
  <2> QED
    BY <2>1, OpenLooks
<1>9. LifeOf(n) = "unborn" /\ HeirOf(n) = None
  BY <1>3, UnbornLooks
<1>10. /\ LifeOf(g) = "closed" /\ LifeOf(g)' = "closed" /\ PlaceOf(g) = e.chat /\ PlaceOf(g)' = e.chat
       /\ HeirOf(g) = None /\ HeirOf(g)' = n
  BY <1>2, <1>5, <1>6 DEF LifeOf, PlaceOf, HeirOf, IsOpen, IsFinal, Exists
<1>11. /\ Lives[g] = "closed" /\ Lives[n] = "unborn" /\ Lives' = [Lives EXCEPT ![n] = "open"]
       /\ Whereabouts[g] = e.chat /\ Whereabouts' = [Whereabouts EXCEPT ![n] = Whereabouts[g]]
       /\ Heirs[g] = None /\ Heirs' = [Heirs EXCEPT ![g] = n]
  <2> HIDE DEF e
  <2> QED
    BY <1>7, <1>8, <1>9, <1>10, UnmovedLooks DEF Lives, Whereabouts, Heirs
<1>12. e.chat \in Chats \cup {None}
  BY <1>2, ClosedIs DEF ClosedFields
<1>13. Rooms!Vacant(Whereabouts[g])
  <2>1. Rooms!Vacant(e.chat)
    <3>1. VacantPlace(e.chat)
      BY <1>2
    <3> HIDE DEF e
    <3> QED
      BY <1>12, <3>1, VacantIs
  <2> QED
    BY <1>11, <2>1
<1>14. g \notin pendingResults /\ pendingResults' = pendingResults
  BY <1>2 DEF ResultStored, PublishRematch
<1>15. Rooms!Rematch(g, n)
  BY <1>11, <1>13, <1>14 DEF Rooms!Rematch
<1> QED
  BY <1>15 DEF RoomsStep, Rooms!RoomsNext

LEMMA NextIsRoomsStep == ServiceInv /\ [Next]_vars => RoomsStep
<1> SUFFICES ASSUME ServiceInv, [Next]_vars PROVE RoomsStep
  OBVIOUS
<1>1. CASE Create
  BY <1>1, CreateStep
<1>2. ASSUME NEW c \in Callers, Apply(c) PROVE RoomsStep
  BY <1>2, ApplyMoves, MoveStep
<1>3. ASSUME NEW c \in Callers, SkipTurn(c) PROVE RoomsStep
  BY <1>3, SkipMoves, MoveStep
<1>4. ASSUME NEW c \in Callers, PublishRematch(c) \/ ResetActive(c) PROVE RoomsStep
  BY <1>4, RematchStep, ResetStep
<1>5. CASE ~Create /\ \A c \in Callers : ~(Apply(c) \/ SkipTurn(c) \/ PublishRematch(c) \/ ResetActive(c))
  BY <1>5, OthersUnmoved, QuietStep, AcknowledgeStep
<1> QED
  BY <1>1, <1>2, <1>3, <1>4, <1>5

LEMMA InitIsRoomsInit == Init => Rooms!RoomsInit
<1> SUFFICES ASSUME Init PROVE Rooms!RoomsInit
  OBVIOUS
<1>1. \A g \in Games : games[g] = None
  BY DEF Init
<1>2. \A g \in Games : LifeOf(g) = "unborn" /\ PlaceOf(g) = None /\ HeirOf(g) = None
  BY <1>1, UnbornLooks
<1> QED
  BY <1>2 DEF Rooms!RoomsInit, Init, Lives, Whereabouts, Heirs

\* However lookups, locked sections, votes, retries and resets interleave, the
\* service is the rooms of ChatRooms: one open game in a chat, opened and ended
\* once, followed by one rematch after its result is stored (manager.go).
THEOREM ServiceRefinesRooms == Spec => RefinesRooms
<1>1. Init => Rooms!RoomsInit
  BY InitIsRoomsInit
<1>2. ServiceInv /\ [Next]_vars => [Rooms!RoomsNext]_(Rooms!rooms)
  BY NextIsRoomsStep DEF RoomsStep
<1> QED
  BY <1>1, <1>2, ServiceInvariant, PTL DEF Spec, RefinesRooms, Rooms!RoomsSpec, Rooms!rooms,
     Lives, Whereabouts, Heirs

-----------------------------------------------------------------------------
(* The clock of a turn *)

\* An open game has waited, and has still to wait, a whole turn at least.
ClockSound ==
  \A g \in Games : IsOpen(g) => waited[g] + games[g].deadline >= TurnTime

WaitSound == waited \in [Games -> 0 .. TurnTime] /\ ClockSound

\* Whatever is open was so before, with the same time left.
SameClock(x) == IsOpen(x)' => IsOpen(x) /\ games'[x].deadline = games[x].deadline

LEMMA ClockRests ==
  ASSUME WaitSound, waited' = waited, \A x \in Games : SameClock(x)
  PROVE  WaitSound'
BY DEF WaitSound, ClockSound, SameClock

\* A game that opens has a whole turn before it.
LEMMA ClockStarts ==
  ASSUME ServiceInv, WaitSound, waited' = waited, NEW n \in Games, games'[n].deadline = TurnTime,
         \A x \in Games \ {n} : SameClock(x)
  PROVE  WaitSound'
<1>1. waited[n] \in 0 .. TurnTime
  BY DEF WaitSound
<1>2. IsOpen(n)' => waited'[n] + games'[n].deadline >= TurnTime
  BY <1>1
<1>3. \A x \in Games \ {n} : IsOpen(x)' => waited'[x] + games'[x].deadline >= TurnTime
  BY DEF SameClock, WaitSound, ClockSound
<1> QED
  BY <1>2, <1>3 DEF WaitSound, ClockSound

\* The wait begins anew only with a turn that has its whole time.
LEMMA MoveWaits ==
  ASSUME ServiceInv, WaitSound, NEW c \in Callers, NEW m \in Games, IsOpen(m),
         NEW n \in OpenGame \cup ClosedGame, NEW owed \in BOOLEAN, NEW after \in R!Rounds,
         MovedOn(c, m, n, owed, after)
  PROVE  WaitSound'
<1> DEFINE w == Waited(m, n)
<1>1. /\ games' = [games EXCEPT ![m] = n] /\ waited' = [waited EXCEPT ![m] = w]
      /\ n.engine = (IF after.stage = "Over" THEN None ELSE after)
      /\ n.deadline = Deadline(games[m], after)
  BY DEF MovedOn, Publish
<1>2. games \in [Games -> OpenGame \cup ClosedGame \cup {None}] /\ waited \in [Games -> 0 .. TurnTime]
  BY DEF ServiceInv, StateTypeOK, WaitSound
<1>3. games[m].deadline \in 0 .. TurnTime /\ games[m].engine \in R!Rounds
  BY GameIs, OpenIs DEF ServiceInv, OpenFields
<1>4. w \in 0 .. TurnTime
  BY <1>2 DEF Waited
<1>5. ASSUME n # None, n.engine # None PROVE w + n.deadline >= TurnTime
  <2>1. after.stage # "Over" /\ n.engine = after
    BY <1>1, <1>5
  <2>2. CASE n.deadline = TurnTime
    BY <1>4, <2>2
  <2>3. CASE n.deadline # TurnTime
    <3>1. /\ n.deadline = games[m].deadline
          /\ after.turn = games[m].engine.turn /\ after.choosing = games[m].engine.choosing
      BY <1>1, <2>1, <2>3 DEF Deadline
    <3>2. w = waited[m]
      BY <1>5, <2>1, <3>1 DEF Waited
    <3>3. waited[m] + games[m].deadline >= TurnTime
      BY DEF WaitSound, ClockSound
    <3> QED
      BY <3>1, <3>2, <3>3
  <2> QED
    BY <2>2, <2>3
<1> HIDE DEF w
<1>6. \A x \in Games : /\ games'[x] = IF x = m THEN n ELSE games[x]
                       /\ waited'[x] = IF x = m THEN w ELSE waited[x]
  BY <1>1, <1>2
<1>7. waited' \in [Games -> 0 .. TurnTime]
  BY <1>1, <1>2, <1>4
<1>8. ASSUME NEW x \in Games, IsOpen(x)' PROVE waited'[x] + games'[x].deadline >= TurnTime
  <2>1. CASE x = m
    BY <1>5, <1>6, <1>8, <2>1 DEF IsOpen, Exists
  <2>2. CASE x # m
    BY <1>6, <1>8, <2>2 DEF IsOpen, Exists, WaitSound, ClockSound
  <2> QED
    BY <2>1, <2>2
<1> QED
  BY <1>7, <1>8 DEF WaitSound, ClockSound

LEMMA TickWaits ==
  ASSUME ServiceInv, WaitSound, NEW g \in Games, Tick(g)
  PROVE  WaitSound'
<1> DEFINE d == games[g].deadline
           w == waited[g]
           v == IF w < TurnTime THEN w + 1 ELSE w
<1>1. IsOpen(g) /\ d > 0 /\ games' = [games EXCEPT ![g].deadline = @ - 1]
      /\ waited' = [waited EXCEPT ![g] = v]
  BY DEF Tick
<1>2. /\ games[g] \in OpenGame /\ games \in [Games -> OpenGame \cup ClosedGame \cup {None}]
      /\ waited \in [Games -> 0 .. TurnTime]
  BY <1>1, GameIs DEF ServiceInv, StateTypeOK, WaitSound
<1>3. d \in 0 .. TurnTime /\ w \in 0 .. TurnTime /\ w + d >= TurnTime
  BY <1>1, <1>2, OpenIs DEF OpenFields, WaitSound, ClockSound
<1>4. games'[g].deadline = d - 1 /\ waited'[g] = v
  BY <1>1, <1>2 DEF OpenGame
<1>5. \A x \in Games \ {g} : games'[x] = games[x] /\ waited'[x] = waited[x]
  BY <1>1, <1>2
<1> HIDE DEF d, w
<1>6. v \in 0 .. TurnTime /\ v + (d - 1) >= TurnTime
  BY <1>1, <1>3
<1>7. waited' \in [Games -> 0 .. TurnTime]
  BY <1>1, <1>2, <1>6
<1>8. ASSUME NEW x \in Games, IsOpen(x)' PROVE waited'[x] + games'[x].deadline >= TurnTime
  <2>1. CASE x = g
    BY <1>4, <1>6, <2>1
  <2>2. CASE x # g
    BY <1>5, <1>8, <2>2 DEF IsOpen, Exists, WaitSound, ClockSound
  <2> QED
    BY <2>1, <2>2
<1> QED
  BY <1>7, <1>8 DEF WaitSound, ClockSound

LEMMA CreateWaits ==
  ASSUME ServiceInv, WaitSound, Create
  PROVE  WaitSound'
<1>1. PICK m \in Games, p \in Players, chat \in Places :
        games' = [games EXCEPT ![m] = NewGame(chat, p, FALSE, R!EmptyRound(FALSE), 0)] /\ waited' = waited
  BY DEF Create, auxiliary
<1> DEFINE e == NewGame(chat, p, FALSE, R!EmptyRound(FALSE), 0)
<1>2. e.deadline = TurnTime
  BY DEF NewGame
<1> HIDE DEF e
<1>3. games \in [Games -> OpenGame \cup ClosedGame \cup {None}]
  BY DEF ServiceInv, StateTypeOK
<1>4. games' = [games EXCEPT ![m] = e]
  BY <1>1 DEF e
<1>5. games'[m].deadline = TurnTime /\ \A x \in Games \ {m} : games'[x] = games[x]
  BY <1>2, <1>3, <1>4
<1>6. \A x \in Games \ {m} : SameClock(x)
  BY <1>5 DEF SameClock, IsOpen, Exists
<1> QED
  BY <1>1, <1>5, <1>6, ClockStarts

LEMMA RematchWaits ==
  ASSUME ServiceInv, WaitSound, NEW c \in Callers, PublishRematch(c)
  PROVE  WaitSound'
<1> DEFINE m == call[c].game
           was == games[m]
<1>1. \E n \in Games, owner \in was.required, round \in FirstRounds(was.required) :
        LET e == NewGame(was.chat, owner, was.locked, round, Cardinality(was.required) + 1)
        IN  games[n] = None /\ games' = [games EXCEPT ![n] = e, ![m].next = n]
  BY DEF PublishRematch
<1>2. m \in Games /\ IsFinal(m) /\ games[m] \in ClosedGame
  BY RematchOpens
<1>3. PICK n \in Games, owner \in was.required, round \in FirstRounds(was.required) :
        LET e == NewGame(was.chat, owner, was.locked, round, Cardinality(was.required) + 1)
        IN  games[n] = None /\ games' = [games EXCEPT ![n] = e, ![m].next = n]
  BY <1>1
<1>4. waited' = waited
  BY DEF PublishRematch, auxiliary
<1> DEFINE e == NewGame(was.chat, owner, was.locked, round, Cardinality(was.required) + 1)
<1>5. e.deadline = TurnTime
  BY DEF NewGame
<1>6. games' = [games EXCEPT ![n] = e, ![m].next = n]
  BY <1>3
<1> HIDE DEF e
<1>7. games \in [Games -> OpenGame \cup ClosedGame \cup {None}] /\ m # n
  BY <1>2, <1>3 DEF ServiceInv, StateTypeOK, IsFinal, Exists
<1>8. games'[n] = e /\ \A x \in Games \ {m, n} : games'[x] = games[x]
  BY <1>6, <1>7
<1>9. games'[m].engine = None
  <2>1. games'[m] = [games[m] EXCEPT !.next = n]
    BY <1>2, <1>6, <1>7
  <2> QED
    BY <1>2, <2>1 DEF ClosedGame
<1>10. \A x \in Games \ {n} : SameClock(x)
  BY <1>8, <1>9 DEF SameClock, IsOpen, Exists
<1> QED
  BY <1>4, <1>5, <1>8, <1>10, ClockStarts

LEMMA ResetWaits ==
  ASSUME ServiceInv, WaitSound, NEW c \in Callers, ResetActive(c)
  PROVE  WaitSound'
<1>1. PICK m \in Games : m = call[c].game
  BY ResetCloses
<1>2. PICK n \in ClosedGame : games' = [games EXCEPT ![m] = n] /\ n.engine = None
  BY <1>1, ResetCloses
<1>3. games \in [Games -> OpenGame \cup ClosedGame \cup {None}]
  BY DEF ServiceInv, StateTypeOK
<1>4. \A x \in Games : SameClock(x)
  BY <1>2, <1>3 DEF SameClock, IsOpen, Exists
<1>5. waited' = waited
  BY DEF ResetActive
<1> QED
  BY <1>4, <1>5, ClockRests

\* The door is no part of the clock.
LEMMA SetLockedWaits ==
  ASSUME ServiceInv, WaitSound, NEW c \in Callers, SetLocked(c)
  PROVE  WaitSound'
<1> DEFINE g == call[c].game
           e == games[g]
<1>1. IsOpen(g) /\ g \in Games
  BY DEF ServiceInv, CallsSound, CallSound, SetLocked
<1>2. e \in OpenGame /\ games \in [Games -> OpenGame \cup ClosedGame \cup {None}]
  BY <1>1, GameIs DEF ServiceInv, StateTypeOK
<1>3. PICK locked \in LockRequests : games' = [games EXCEPT ![g] = [e EXCEPT !.locked = locked]]
  BY DEF SetLocked
<1>4. games'[g].deadline = e.deadline /\ \A x \in Games \ {g} : games'[x] = games[x]
  BY <1>1, <1>2, <1>3 DEF OpenGame
<1>5. \A x \in Games : SameClock(x)
  BY <1>1, <1>4 DEF SameClock, IsOpen, Exists
<1>6. waited' = waited
  BY DEF SetLocked, auxiliary
<1> QED
  BY <1>5, <1>6, ClockRests

\* A closed game has no clock.
LEMMA ClosedWaits ==
  ASSUME ServiceInv, WaitSound, waited' = waited, NEW m \in Games, IsFinal(m),
         \A x \in Games : Unmoved(x), \A x \in Games \ {m} : games'[x] = games[x]
  PROVE  WaitSound'
<1>1. \A x \in Games : SameClock(x)
  BY DEF SameClock, IsOpen, IsFinal, Exists, Unmoved
<1> QED
  BY <1>1, ClockRests

LEMMA VotesWait ==
  ASSUME ServiceInv, WaitSound, NEW c \in Callers, Vote(c) \/ FailRematch(c)
  PROVE  WaitSound'
<1>1. PICK m \in Games : m = call[c].game
  BY DEF Vote, FailRematch, ServiceInv, CallsSound, CallSound
<1>2. IsFinal(m)
  BY <1>1 DEF Vote, FailRematch, ServiceInv, PublishHolds, Publishing
<1>3. \A x \in Games : Unmoved(x)
  BY VoteUnmoved, FailRematchUnmoved
<1>4. waited' = waited
  BY DEF Vote, FailRematch, auxiliary
<1>5. games \in [Games -> OpenGame \cup ClosedGame \cup {None}]
  BY DEF ServiceInv, StateTypeOK
<1>6. \A x \in Games \ {m} : games'[x] = games[x]
  BY <1>1, <1>5 DEF Vote, FailRematch
<1> QED
  BY <1>2, <1>3, <1>4, <1>6, ClosedWaits

LEMMA StepsWait == ServiceInv /\ WaitSound /\ [Next]_vars => WaitSound'
<1> SUFFICES ASSUME ServiceInv, WaitSound, [Next]_vars PROVE WaitSound'
  OBVIOUS
<1>1. CASE Create
  BY <1>1, CreateWaits
<1>2. ASSUME NEW c \in Callers, Apply(c) PROVE WaitSound'
  BY <1>2, ApplyMoves, MoveWaits
<1>3. ASSUME NEW c \in Callers, SkipTurn(c) PROVE WaitSound'
  BY <1>3, SkipMoves, MoveWaits
<1>4. ASSUME NEW c \in Callers,
             SetLocked(c) \/ Vote(c) \/ FailRematch(c) \/ PublishRematch(c) \/ ResetActive(c)
      PROVE  WaitSound'
  BY <1>4, SetLockedWaits, VotesWait, RematchWaits, ResetWaits
<1>5. ASSUME games' = games, waited' = waited PROVE WaitSound'
  BY <1>5 DEF WaitSound, ClockSound, IsOpen, Exists
<1>6. ASSUME NEW c \in Callers,
             \/ Find(c) \/ RefuseLate(c) \/ GiveUp(c) \/ Scan(c) \/ FindClosed(c)
             \/ ReadActive(c) \/ ResetIdle(c) \/ ReadAgain(c)
      PROVE  WaitSound'
  BY <1>5, <1>6 DEF Find, RefuseLate, GiveUp, Scan, FindClosed, ReadActive, ResetIdle, ReadAgain, auxiliary
<1>7. ASSUME NEW g \in Games, Tick(g) \/ AcknowledgeResult(g) PROVE WaitSound'
  BY <1>5, <1>7, TickWaits DEF AcknowledgeResult, auxiliary
<1>8. CASE UNCHANGED vars
  BY <1>5, <1>8 DEF vars, auxiliary
<1> QED
  BY <1>1, <1>2, <1>3, <1>4, <1>6, <1>7, <1>8 DEF Next

THEOREM WaitInvariant == Spec => []WaitSound
<1>1. Init => WaitSound
  BY DEF Init, WaitSound, ClockSound, IsOpen, Exists
<1>2. ServiceInv /\ WaitSound /\ [Next]_vars => WaitSound'
  BY StepsWait
<1> QED
  BY <1>1, <1>2, ServiceInvariant, PTL DEF Spec

\* The state has its type: an open game has an owner and a time left, a closed
\* one neither.
THEOREM ServiceTypes == Spec => []ServiceTypeOK
<1>1. ServiceInv /\ WaitSound => ServiceTypeOK
  BY DEF ServiceInv, ServiceTypeOK, WaitSound
<1> QED
  BY <1>1, ServiceInvariant, WaitInvariant, PTL

-----------------------------------------------------------------------------
(* Skips and retries *)

\* Only its own skip changes a game while a skip call ends, and it asks again.
LEMMA SkipIsDue ==
  ASSUME ServiceInv, [Next]_vars, NEW c \in Callers, Skips(c)
  PROVE  call[c].game \in Games /\ IsOpen(call[c].game) /\ games[call[c].game].deadline = 0
<1>0. call[c].op = "skip" /\ games'[call[c].game] # games[call[c].game] /\ call'[c] # call[c]
  BY DEF Skips
<1>1. call \in [Callers -> Calls]
  BY DEF ServiceInv, StateTypeOK
<1>2. games' # games /\ call' # call
  BY <1>0
<1>3. PICK d \in Callers :
        \/ Apply(d) \/ SetLocked(d) \/ SkipTurn(d) \/ Vote(d) \/ PublishRematch(d) \/ FailRematch(d)
        \/ ResetActive(d)
  BY <1>2 DEF Next, Create, Find, RefuseLate, GiveUp, Scan, FindClosed, ReadActive, ResetIdle, ReadAgain,
              Tick, AcknowledgeResult, vars
<1>4. \A x \in Callers \ {d} : call'[x] = call[x]
  BY <1>1, <1>3 DEF Apply, SetLocked, SkipTurn, Vote, PublishRematch, FailRematch, ResetActive, Returns
<1>5. d = c
  BY <1>0, <1>4
<1>6. SkipTurn(c)
  BY <1>0, <1>3, <1>5 DEF Apply, SetLocked, Vote, PublishRematch, FailRematch, ResetActive
<1>7. call[c].game \in Games
  BY <1>0 DEF ServiceInv, CallsSound, CallSound
<1> QED
  BY <1>6, <1>7 DEF SkipTurn, StillDue, Late

\* However long a skip waited behind the tasks of its chat, the turn it ends has
\* run out of its own time (manager.go).
THEOREM SkipsAreDue == Spec => SkipsOnlyTheLate
<1>1. ServiceInv /\ [Next]_vars =>
        \A c \in Callers : Skips(c) => games[call[c].game].deadline = 0
  BY SkipIsDue
<1> QED
  BY <1>1, ServiceInvariant, PTL DEF Spec, SkipsOnlyTheLate

\* Whoever is skipped has been waited for as long as a turn may take, on turn
\* all the while and since any choice of theirs (manager.go).
THEOREM SkipsLeaveTime == Spec => SkippedWereWaitedFor
<1>1. ServiceInv /\ WaitSound /\ [Next]_vars =>
        \A c \in Callers : Skips(c) => waited[call[c].game] = TurnTime
  <2> SUFFICES ASSUME ServiceInv, WaitSound, [Next]_vars, NEW c \in Callers, Skips(c)
               PROVE  waited[call[c].game] = TurnTime
    OBVIOUS
  <2> DEFINE g == call[c].game
  <2>1. g \in Games /\ IsOpen(g) /\ games[g].deadline = 0
    BY SkipIsDue
  <2> HIDE DEF g
  <2>2. waited[g] \in 0 .. TurnTime /\ waited[g] + games[g].deadline >= TurnTime
    BY <2>1 DEF WaitSound, ClockSound
  <2>3. waited[g] = TurnTime
    BY <2>1, <2>2
  <2> QED
    BY <2>3 DEF g
<1> QED
  BY <1>1, ServiceInvariant, WaitInvariant, PTL DEF Spec, SkippedWereWaitedFor

\* Who has an answer on record is not refused.
LEMMA AnswerStands ==
  ASSUME ServiceInv, [Next]_vars, NEW c \in Callers, call[c].answer = "done"
  PROVE  call'[c].answer # "late"
<1>1. call \in [Callers -> Calls] /\ CallSound(call[c])
  BY DEF ServiceInv, StateTypeOK, CallsSound
<1>2. call[c].op = "action" /\ call[c].request # None
  BY <1>1 DEF CallSound
<1>3. Answered(call[c])
  BY <1>2 DEF ServiceInv, DoneHasReceipt, Answered
<1>4. CASE call'[c] = call[c]
  BY <1>4
<1>5. CASE call'[c] # call[c]
  <2>1. ~RefuseLate(c)
    BY <1>3 DEF RefuseLate
  <2>2. PICK d \in Callers :
          \/ Find(d) \/ Apply(d) \/ SetLocked(d) \/ GiveUp(d) \/ Scan(d) \/ SkipTurn(d) \/ RefuseLate(d)
          \/ FindClosed(d) \/ Vote(d) \/ PublishRematch(d) \/ FailRematch(d)
          \/ ReadActive(d) \/ ResetActive(d) \/ ResetIdle(d) \/ ReadAgain(d)
    BY <1>5 DEF Next, Create, Tick, AcknowledgeResult, vars
  <2>3. \A x \in Callers \ {d} : call'[x] = call[x]
    BY <1>1, <2>2 DEF Find, Apply, RefuseLate, SetLocked, GiveUp, Scan, SkipTurn, FindClosed, Vote,
                      PublishRematch, FailRematch, ReadActive, ResetActive, ResetIdle, ReadAgain, Returns
  <2>4. Apply(c) \/ SetLocked(c) \/ GiveUp(c)
    <3>1. d = c
      BY <1>5, <2>3
    <3>2. call[c] # Idle
      BY <1>2, IdleSound
    <3> QED
      BY <1>2, <2>1, <2>2, <3>1, <3>2
         DEF Find, Scan, SkipTurn, FindClosed, Vote, PublishRematch, FailRematch, ReadActive,
             ResetActive, ResetIdle, ReadAgain
  <2>5. ~Apply(c)
    BY <1>3 DEF Apply
  <2>6. call'[c] = Idle
    BY <1>1, <2>4, <2>5 DEF SetLocked, GiveUp, Returns
  <2> QED
    BY <2>6, IdleSound
<1> QED
  BY <1>4, <1>5

\* A web request that succeeded has left its receipt with the game, which keeps
\* it after its end: a client that asks again and still finds the game is
\* answered from it and never told that it was late (service.go, ApplyWeb).
THEOREM AnswersAreKept == Spec => []DoneHasReceipt /\ RetryKeepsAnswer
<1>1. ServiceInv /\ [Next]_vars =>
        \A c \in Callers : call[c].answer = "done" => call'[c].answer # "late"
  BY AnswerStands
<1>2. ServiceInv => DoneHasReceipt
  BY DEF ServiceInv
<1> QED
  BY <1>1, <1>2, ServiceInvariant, PTL DEF Spec, RetryKeepsAnswer
=============================================================================
