---------------------------- MODULE Finalization ----------------------------
(***************************************************************************)
(* The result of a finished game, from the service's memory to the         *)
(* database: game.Finalizer, RecordCompletedGame and SetRankingSystem.     *)
(*                                                                         *)
(* A Finalizer commits one result at a time, under its mutex.  The ones    *)
(* who commit are the adapters that saw a game end and the loop that tries *)
(* again whatever is still pending.  The transaction locks the identity of *)
(* the game and the settings of its group until it ends, so it is one      *)
(* step; but when the answer to its COMMIT is lost it stays in limbo,      *)
(* locks held, until the database settles it either way.                   *)
(***************************************************************************)
EXTENDS Naturals, FiniteSets

CONSTANTS
  Games, Groups, Systems, None,
  Adapters, Loop,   \* who commits
  MaxFaults         \* bound on restarts of the process and answers lost

ASSUME FinalizationAssumption ==
  /\ None \notin Games \cup Groups \cup Systems \cup Adapters \cup {Loop}
  /\ Loop \notin Adapters
  /\ MaxFaults \in Nat

VARIABLES
  play,     \* of each game: its stage, group (None for a free room), ranking
            \* system captured when it was created, and whether it gives points
  pending,  \* pendingResults of the service: memory
  holder,   \* who holds the mutex of the finalizer
  work,     \* what each committer is doing
  config,   \* database: ranking system of each group
  stored,   \* database: how each game was recorded
  awards,   \* database: how often the points of each game entered the totals
  limbo,    \* transactions whose COMMIT was sent and whose outcome is open
  notices,  \* how often the points of each game were announced
  faults    \* restarts and lost answers so far

memory == <<pending, holder, work>>
database == <<config, stored, awards, limbo>>
vars == <<play, memory, database, notices, faults>>

Committers == Adapters \cup {Loop}

Unborn == [stage |-> "unborn", group |-> None, system |-> None, worth |-> FALSE]

Plays ==
  [ stage : {"unborn", "created", "playing", "over", "lost"}, group : Groups \cup {None},
    system : Systems \cup {None}, worth : BOOLEAN ]

\* fresh: this commit, and not an earlier one, recorded the game.
Works ==
  [ step : {"idle", "wait", "store", "confirmed", "acknowledged"}, game : Games \cup {None},
    fresh : BOOLEAN, rest : SUBSET Games ]

Idle == [step |-> "idle", game |-> None, fresh |-> FALSE, rest |-> {}]

Init ==
  /\ play = [g \in Games |-> Unborn]
  /\ pending = {}
  /\ holder = None
  /\ work = [w \in Committers |-> Idle]
  /\ config \in [Groups -> Systems]
  /\ stored = [g \in Games |-> "no"]
  /\ awards = [g \in Games |-> 0]
  /\ limbo = {}
  /\ notices = [g \in Games |-> 0]
  /\ faults = 0

-----------------------------------------------------------------------------
(* Games *)

\* The settings are read before the game is created.
ReadSettings(g) ==
  /\ play[g].stage = "unborn"
  /\ \E group \in Groups \cup {None} : \E system \in IF group = None THEN Systems ELSE {config[group]} :
       play' = [play EXCEPT ![g] = [stage |-> "created", group |-> group, system |-> system, worth |-> FALSE]]
  /\ UNCHANGED <<memory, database, notices, faults>>

Start(g) ==
  /\ play[g].stage = "created"
  /\ play' = [play EXCEPT ![g].stage = "playing"]
  /\ UNCHANGED <<memory, database, notices, faults>>

\* The game ends by the action of somebody, whose adapter goes on to commit
\* it.  Points are given when two or more players were placed.
Finish(g, a) ==
  /\ play[g].stage = "playing"
  /\ work[a] = Idle
  /\ \E worth \in BOOLEAN : play' = [play EXCEPT ![g].stage = "over", ![g].worth = worth]
  /\ pending' = pending \cup {g}
  /\ work' = [work EXCEPT ![a] = [Idle EXCEPT !.step = "wait", !.game = g]]
  /\ UNCHANGED <<holder, database, notices, faults>>

-----------------------------------------------------------------------------
(* Finalizer *)

\* Retry works on a copy of what is pending, one result after the other.
TakeList ==
  /\ work[Loop] = Idle
  /\ pending # {}
  /\ \E g \in pending :
       work' = [work EXCEPT ![Loop] = [Idle EXCEPT !.step = "wait", !.game = g, !.rest = pending \ {g}]]
  /\ UNCHANGED <<play, pending, holder, database, notices, faults>>

\* Mutant of MutexFree: commits are not serialized.
NoMutex == TRUE

MutexFree == holder = None

Lock(w) ==
  /\ work[w].step = "wait"
  /\ MutexFree
  /\ holder' = w
  /\ work' = [work EXCEPT ![w].step = "store"]
  /\ UNCHANGED <<play, pending, database, notices, faults>>

\* What a committer turns to when done with a result.
Following(w) ==
  IF work[w].rest = {} THEN {Idle}
  ELSE { [Idle EXCEPT !.step = "wait", !.game = g, !.rest = work[w].rest \ {g}] : g \in work[w].rest }

\* Mutant of AfterFailure: the first failure ends the pass.
GivesUp(w) == {Idle}

AfterFailure(w) == Following(w)

\* Mutant of StillPending: acknowledged whatever the database said.
Dropped(w) == pending \ {work[w].game}

StillPending(w) == pending

Fails(w) ==
  /\ \E next \in AfterFailure(w) : work' = [work EXCEPT ![w] = next]
  /\ pending' = StillPending(w)
  /\ holder' = None
  /\ UNCHANGED <<play, notices>>

-----------------------------------------------------------------------------
(* RecordCompletedGame *)

\* Mutant of RowFree: the settings are read without FOR UPDATE.
NoRowLock(group) == TRUE

\* Nobody's open transaction has the settings of the group locked.
RowFree(group) == group # None => ~\E g \in limbo : play[g].group = group

Lockable(g) == g \notin limbo /\ RowFree(play[g].group)

\* Mutant of Unrecorded: nothing is looked up before the points are added.
NeverLooked(g) == TRUE

Unrecorded(g) == stored[g] = "no"

\* The settings of the group are compared with what the game captured.
Refused(g) ==
  play[g].worth /\ play[g].group # None /\ config[play[g].group] # play[g].system

Recordable(g) == Lockable(g) /\ Unrecorded(g) /\ ~Refused(g)

Record(g) ==
  /\ stored' = [stored EXCEPT ![g] = IF play[g].worth THEN "scored" ELSE "plain"]
  /\ awards' = [awards EXCEPT ![g] = IF play[g].worth THEN @ + 1 ELSE @]

Confirm(w) ==
  LET g == work[w].game
  IN  /\ work[w].step = "store"
      /\ Recordable(g)
      /\ Record(g)
      /\ work' = [work EXCEPT ![w].step = "confirmed", ![w].fresh = TRUE]
      /\ UNCHANGED <<play, pending, holder, config, limbo, notices, faults>>

\* An earlier attempt did record it.
Recall(w) ==
  LET g == work[w].game
  IN  /\ work[w].step = "store"
      /\ Lockable(g) /\ ~Unrecorded(g)
      /\ work' = [work EXCEPT ![w].step = "confirmed"]
      /\ UNCHANGED <<play, pending, holder, database, notices, faults>>

Refuse(w) ==
  LET g == work[w].game
  IN  /\ work[w].step = "store"
      /\ Lockable(g) /\ Unrecorded(g) /\ Refused(g)
      /\ Fails(w)
      /\ UNCHANGED <<database, faults>>

\* An error, or the ten seconds ran out before COMMIT: rolled back.
Break(w) ==
  /\ work[w].step = "store"
  /\ Fails(w)
  /\ UNCHANGED <<database, faults>>

\* The answer to COMMIT is lost.
LoseAnswer(w) ==
  LET g == work[w].game
  IN  /\ work[w].step = "store"
      /\ Recordable(g)
      /\ faults < MaxFaults /\ faults' = faults + 1
      /\ limbo' = limbo \cup {g}
      /\ Fails(w)
      /\ UNCHANGED <<config, stored, awards>>

\* The database finishes it alone.
Settle(g) ==
  /\ g \in limbo
  /\ limbo' = limbo \ {g}
  /\ Record(g) \/ UNCHANGED <<stored, awards>>
  /\ UNCHANGED <<play, memory, config, notices, faults>>

Acknowledge(w) ==
  /\ work[w].step = "confirmed"
  /\ pending' = pending \ {work[w].game}
  /\ work' = [work EXCEPT ![w].step = "acknowledged"]
  /\ UNCHANGED <<play, holder, database, notices, faults>>

\* Mutant of Announces: every confirmed commit is announced.
AlwaysAnnounces(w) == play[work[w].game].worth

Announces(w) == play[work[w].game].worth /\ work[w].fresh

\* The points are announced before the mutex is let go.
Notify(w) ==
  /\ work[w].step = "acknowledged"
  /\ notices' = IF Announces(w) THEN [notices EXCEPT ![work[w].game] = @ + 1] ELSE notices
  /\ \E next \in Following(w) : work' = [work EXCEPT ![w] = next]
  /\ holder' = None
  /\ UNCHANGED <<play, pending, database, faults>>

-----------------------------------------------------------------------------
(* Surroundings *)

\* No points of another system may have been given in the group.
Compatible(group, system) ==
  \A g \in Games : play[g].group = group /\ stored[g] = "scored" => play[g].system = system

SetRankingSystem(group, system) ==
  /\ RowFree(group)
  /\ config[group] # system
  /\ Compatible(group, system)
  /\ config' = [config EXCEPT ![group] = system]
  /\ UNCHANGED <<play, memory, stored, awards, limbo, notices, faults>>

\* The process restarts with the database as it is.
Crash ==
  /\ faults < MaxFaults /\ faults' = faults + 1
  /\ play' = [g \in Games |->
                IF play[g].stage \in {"created", "playing"} \/ g \in pending
                THEN [play[g] EXCEPT !.stage = "lost"] ELSE play[g]]
  /\ pending' = {}
  /\ holder' = None
  /\ work' = [w \in Committers |-> Idle]
  /\ UNCHANGED <<database, notices>>

Answer(w) == Confirm(w) \/ Recall(w) \/ Refuse(w)

Attempt(w) == Answer(w) \/ Break(w) \/ LoseAnswer(w) \/ Acknowledge(w) \/ Notify(w)

Next ==
  \/ \E g \in Games :
       \/ ReadSettings(g) \/ Start(g) \/ Settle(g)
       \/ \E a \in Adapters : Finish(g, a)
  \/ TakeList
  \/ \E w \in Committers : Lock(w) \/ Attempt(w)
  \/ \E group \in Groups, system \in Systems : SetRankingSystem(group, system)
  \/ Crash

\* The loop never stops while the process runs, a mutex of Go starves nobody,
\* whoever holds it ends within a timeout, a database asked about the same game
\* again and again answers in the end, and only finitely many answers to COMMIT
\* are lost.  Nobody has to play.
Fairness ==
  /\ WF_vars(TakeList)
  /\ SF_vars(Lock(Loop))
  /\ WF_vars(\E w \in Committers : Attempt(w))
  /\ \A g \in Games : SF_vars(work[Loop].game = g /\ Answer(Loop))
  /\ WF_vars(\E g \in Games : Settle(g))

Spec == Init /\ [][Next]_vars
LiveSpec == Spec /\ Fairness

-----------------------------------------------------------------------------
(* Properties *)

\* Whoever stores, acknowledges or announces holds the mutex.
FinalizationTypeOK ==
  /\ play \in [Games -> Plays]
  /\ pending \subseteq Games
  /\ holder \in Committers \cup {None}
  /\ work \in [Committers -> Works]
  /\ \A w \in Committers : work[w].step \in {"store", "confirmed", "acknowledged"} <=> holder = w
  /\ config \in [Groups -> Systems]
  /\ stored \in [Games -> {"no", "plain", "scored"}]
  /\ awards \in [Games -> Nat]
  /\ limbo \subseteq Games
  /\ notices \in [Games -> Nat]
  /\ faults \in 0 .. MaxFaults

\* The totals and the history agree: a game recorded with points has entered
\* the totals once, any other never, whatever was retried or lost.
AwardedOnce ==
  \A g \in Games : awards[g] = IF stored[g] = "scored" THEN 1 ELSE 0

\* The points of a game are announced once at most, and only what the
\* database has confirmed.
AnnouncedOnce ==
  \A g \in Games : notices[g] <= awards[g]

\* While the process lives, the result of a game that ended is in memory or
\* in the database.
NothingForgotten ==
  \A g \in Games : play[g].stage = "over" => g \in pending \/ stored[g] # "no"

\* All the points of a group were given under the system its settings show.
OneSystemPerGroup ==
  \A g \in Games :
    stored[g] = "scored" /\ play[g].group # None => config[play[g].group] = play[g].system

\* What the proofs need besides.  A game that is being committed, stored or
\* settled has ended; its row says whether it gave points; and whoever has
\* confirmed it freshly has not announced it yet.
Ended(g) == play[g].stage \in {"over", "lost"}

WorkAgrees ==
  \A w \in Committers :
    /\ work[w].step # "idle" => work[w].game \in Games /\ Ended(work[w].game)
    /\ \A g \in work[w].rest : Ended(g)
    /\ work[w].step \in {"confirmed", "acknowledged"} => stored[work[w].game] # "no"
    /\ work[w].fresh => /\ work[w].step \in {"confirmed", "acknowledged"}
                        /\ notices[work[w].game] = 0

PendingAgrees == \A g \in pending : Ended(g)

RowsAgree ==
  \A g \in Games : stored[g] # "no" =>
    Ended(g) /\ stored[g] = IF play[g].worth THEN "scored" ELSE "plain"

\* An open transaction found its game unrecorded and its system in force, and
\* holds its group alone.
LimboAgrees ==
  \A g \in limbo :
    /\ Ended(g) /\ Unrecorded(g) /\ ~Refused(g)
    /\ \A h \in limbo : play[g].group # None /\ play[h].group = play[g].group => h = g

FinalizationInv ==
  /\ FinalizationTypeOK
  /\ WorkAgrees /\ PendingAgrees /\ RowsAgree /\ LimboAgrees
  /\ AwardedOnce /\ AnnouncedOnce /\ NothingForgotten /\ OneSystemPerGroup

\* A pending result is acknowledged in the end, unless the settings of its
\* group have changed; one that cannot be stored does not hold up the others.
PendingIsStored ==
  \A g \in Games : g \in pending ~> g \notin pending \/ Refused(g)

\* README.md:203: later changes of the settings leave started games alone.
SettingsSpareStartedGames ==
  \A g \in pending : ~Refused(g)
=============================================================================
