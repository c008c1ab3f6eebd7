------------------------- MODULE FinalizationProofs -------------------------
(***************************************************************************)
(* What Finalization promises about every number of games, groups and      *)
(* committers, and every number of restarts and lost answers.              *)
(***************************************************************************)
EXTENDS Finalization, TLAPS

USE FinalizationAssumption DEF Committers

\* Nothing has happened yet.
LEMMA InitInv == Init => FinalizationInv
<1> SUFFICES ASSUME Init PROVE FinalizationInv
  OBVIOUS
<1> USE DEF Init
<1>1. FinalizationTypeOK
  <2>1. Unborn \in Plays
    BY DEF Plays, Unborn
  <2>2. Idle \in Works
    BY DEF Works, Idle
  <2> QED
    BY <2>1, <2>2 DEF FinalizationTypeOK, Idle
<1>2. WorkAgrees /\ PendingAgrees /\ LimboAgrees
  BY DEF WorkAgrees, PendingAgrees, LimboAgrees, Idle
<1>3. RowsAgree /\ AwardedOnce /\ AnnouncedOnce /\ NothingForgotten /\ OneSystemPerGroup
  BY DEF RowsAgree, AwardedOnce, AnnouncedOnce, NothingForgotten, OneSystemPerGroup, Unborn
<1> QED
  BY <1>1, <1>2, <1>3 DEF FinalizationInv

\* What a committer turns to is idleness or a result of its own list.
LEMMA FollowingWork ==
  ASSUME FinalizationInv, NEW w \in Committers, NEW next \in Following(w)
  PROVE  /\ next \in Works
         /\ next.step \in {"idle", "wait"} /\ ~next.fresh
         /\ next.step # "idle" => next.game \in Games /\ Ended(next.game)
         /\ \A g \in next.rest : Ended(g)
<1>1. work[w].rest \subseteq Games /\ \A g \in work[w].rest : Ended(g)
  BY DEF FinalizationInv, FinalizationTypeOK, WorkAgrees, Works
<1>2. CASE next = Idle
  BY <1>2 DEF Works, Idle
<1>3. ASSUME NEW g \in work[w].rest, next = [Idle EXCEPT !.step = "wait", !.game = g, !.rest = work[w].rest \ {g}]
      PROVE  /\ next \in Works
             /\ next.step = "wait" /\ ~next.fresh /\ next.game \in Games /\ Ended(next.game)
             /\ \A h \in next.rest : Ended(h)
  <2>1. next = [step |-> "wait", game |-> g, fresh |-> FALSE, rest |-> work[w].rest \ {g}]
    BY <1>3 DEF Idle
  <2> QED
    BY <1>1, <2>1 DEF Works
<1> QED
  BY <1>2, <1>3 DEF Following

\* The parts of the invariant that are not about committers depend on these.
LEMMA DatabaseKept ==
  ASSUME FinalizationInv, UNCHANGED <<play, config, stored, awards, notices>>
  PROVE  /\ RowsAgree' /\ AwardedOnce' /\ AnnouncedOnce' /\ OneSystemPerGroup'
         /\ \A g \in Games : Ended(g)' <=> Ended(g)
         /\ limbo' \subseteq limbo => LimboAgrees'
BY DEF FinalizationInv, RowsAgree, LimboAgrees, AwardedOnce, AnnouncedOnce, OneSystemPerGroup,
       Ended, Unrecorded, Refused

\* A failed attempt puts the next result in hand and frees the mutex.
LEMMA FailsInv ==
  ASSUME FinalizationInv, NEW w \in Committers, work[w].step = "store", Fails(w),
         UNCHANGED <<config, stored, awards>>, limbo' \subseteq Games, LimboAgrees',
         faults' \in 0 .. MaxFaults
  PROVE  FinalizationInv'
<1>1. PICK next \in Following(w) : work' = [work EXCEPT ![w] = next]
  BY DEF Fails, AfterFailure
<1>2. next \in Works /\ next.step \in {"idle", "wait"} /\ ~next.fresh
  BY <1>1, FollowingWork
<1>3. UNCHANGED <<play, pending, notices>> /\ holder' = None
  BY DEF Fails, StillPending
<1>4. holder = w
  BY DEF FinalizationInv, FinalizationTypeOK
<1>5. FinalizationTypeOK'
  BY <1>1, <1>2, <1>3, <1>4 DEF FinalizationInv, FinalizationTypeOK
<1>6. WorkAgrees'
  BY <1>1, <1>2, <1>3, FollowingWork DEF FinalizationInv, FinalizationTypeOK, WorkAgrees, Ended
<1>7. PendingAgrees' /\ NothingForgotten'
  BY <1>3 DEF FinalizationInv, PendingAgrees, NothingForgotten, Ended
<1> QED
  BY <1>3, <1>5, <1>6, <1>7, DatabaseKept DEF FinalizationInv

\* A game begins before it has any result.
LEMMA PlayInv ==
  ASSUME FinalizationInv, NEW g \in Games, ReadSettings(g) \/ Start(g)
  PROVE  FinalizationInv'
<1>1. UNCHANGED <<memory, database, notices, faults>>
  BY DEF ReadSettings, Start
<1>2. PICK p \in Plays : play' = [play EXCEPT ![g] = p] /\ p.stage \in {"created", "playing"}
  <2>1. CASE ReadSettings(g)
    <3>1. PICK group \in Groups \cup {None} :
            \E system \in IF group = None THEN Systems ELSE {config[group]} :
              play' = [play EXCEPT ![g] = [stage |-> "created", group |-> group, system |-> system, worth |-> FALSE]]
      BY <2>1 DEF ReadSettings
    <3>2. PICK system \in IF group = None THEN Systems ELSE {config[group]} :
            play' = [play EXCEPT ![g] = [stage |-> "created", group |-> group, system |-> system, worth |-> FALSE]]
      BY <3>1
    <3>3. system \in Systems
      <4>1. CASE group = None
        BY <4>1, <3>2
      <4>2. CASE group # None
        BY <4>2, <3>2 DEF FinalizationInv, FinalizationTypeOK
      <4> QED
        BY <4>1, <4>2
    <3> DEFINE created == [stage |-> "created", group |-> group, system |-> system, worth |-> FALSE]
    <3>4. created \in Plays
      BY <3>3 DEF Plays
    <3>5. created.stage = "created" /\ play' = [play EXCEPT ![g] = created]
      BY <3>2
    <3> HIDE DEF created
    <3> QED
      BY <3>4, <3>5
  <2>2. CASE Start(g)
    <3>1. play' = [play EXCEPT ![g] = [play[g] EXCEPT !.stage = "playing"]]
      BY <2>2 DEF Start, FinalizationInv, FinalizationTypeOK
    <3>2. play[g] \in Plays
      BY DEF FinalizationInv, FinalizationTypeOK
    <3>3. /\ [play[g] EXCEPT !.stage = "playing"] \in Plays
          /\ [play[g] EXCEPT !.stage = "playing"].stage = "playing"
      BY <3>2 DEF Plays
    <3> QED
      BY <3>1, <3>3
  <2> QED
    BY <2>1, <2>2
<1>3. /\ play[g].stage \in {"unborn", "created"}
      /\ play'[g] = p
      /\ \A h \in Games \ {g} : play'[h] = play[h]
  BY <1>2 DEF ReadSettings, Start, FinalizationInv, FinalizationTypeOK
<1>4. stored[g] = "no" /\ g \notin pending /\ g \notin limbo
  BY <1>3 DEF FinalizationInv, RowsAgree, PendingAgrees, LimboAgrees, Ended
<1>5. ~Ended(g) /\ play'[g].stage # "over"
  BY <1>2, <1>3 DEF Ended
<1>6. FinalizationTypeOK'
  BY <1>1, <1>2 DEF FinalizationInv, FinalizationTypeOK, memory, database
<1>7. WorkAgrees' /\ PendingAgrees' /\ RowsAgree'
  BY <1>1, <1>3, <1>4, <1>5 DEF FinalizationInv, FinalizationTypeOK, WorkAgrees, PendingAgrees, RowsAgree,
     Ended, Works, memory, database
<1>8. LimboAgrees'
  BY <1>1, <1>3, <1>4 DEF FinalizationInv, FinalizationTypeOK, LimboAgrees, Ended, Unrecorded, Refused, database
<1>9. AwardedOnce' /\ AnnouncedOnce' /\ NothingForgotten' /\ OneSystemPerGroup'
  BY <1>1, <1>3, <1>4, <1>5 DEF FinalizationInv, AwardedOnce, AnnouncedOnce, NothingForgotten,
     OneSystemPerGroup, memory, database
<1> QED
  BY <1>6, <1>7, <1>8, <1>9 DEF FinalizationInv

\* A result appears in memory when its game ends.
LEMMA FinishInv ==
  ASSUME FinalizationInv, NEW g \in Games, NEW a \in Adapters, Finish(g, a)
  PROVE  FinalizationInv'
<1>1. UNCHANGED <<holder, database, notices, faults>> /\ pending' = pending \cup {g}
  BY DEF Finish
<1>2. PICK p \in Plays : play' = [play EXCEPT ![g] = p] /\ p.stage = "over" /\ p.group = play[g].group
  <2>1. PICK worth \in BOOLEAN : play' = [play EXCEPT ![g] = [play[g] EXCEPT !.stage = "over", !.worth = worth]]
    BY DEF Finish, FinalizationInv, FinalizationTypeOK
  <2>2. play[g] \in Plays
    BY DEF FinalizationInv, FinalizationTypeOK
  <2>3. [play[g] EXCEPT !.stage = "over", !.worth = worth] \in Plays
    BY <2>2 DEF Plays
  <2> QED
    BY <2>1, <2>2, <2>3 DEF Plays
<1>3. ~Ended(g) /\ Ended(g)' /\ \A h \in Games \ {g} : play'[h] = play[h]
  BY <1>2 DEF Finish, Ended, FinalizationInv, FinalizationTypeOK, Plays
<1>4. stored[g] = "no" /\ g \notin limbo
  BY <1>3 DEF FinalizationInv, RowsAgree, LimboAgrees
<1>5. /\ work[a] = Idle
      /\ work' = [work EXCEPT ![a] = [Idle EXCEPT !.step = "wait", !.game = g]]
  BY DEF Finish
<1>6. [Idle EXCEPT !.step = "wait", !.game = g] \in Works
  BY DEF Idle, Works
<1>7. play' \in [Games -> Plays]
  BY <1>2 DEF FinalizationInv, FinalizationTypeOK
<1>8. FinalizationTypeOK'
  BY <1>1, <1>5, <1>6, <1>7 DEF FinalizationInv, FinalizationTypeOK, Idle, database
<1>9. WorkAgrees'
  BY <1>1, <1>3, <1>5 DEF FinalizationInv, FinalizationTypeOK, WorkAgrees, Ended, Works, Idle, database
<1>10. PendingAgrees' /\ RowsAgree'
  BY <1>1, <1>3, <1>4 DEF FinalizationInv, FinalizationTypeOK, PendingAgrees, RowsAgree, Ended, database
<1>11. LimboAgrees'
  BY <1>1, <1>3, <1>4 DEF FinalizationInv, FinalizationTypeOK, LimboAgrees, Ended, Unrecorded, Refused, database
<1>12. AwardedOnce' /\ AnnouncedOnce' /\ NothingForgotten' /\ OneSystemPerGroup'
  BY <1>1, <1>3, <1>4 DEF FinalizationInv, AwardedOnce, AnnouncedOnce, NothingForgotten, OneSystemPerGroup, database
<1> QED
  BY <1>8, <1>9, <1>10, <1>11, <1>12 DEF FinalizationInv

\* Taking work or the mutex changes no result.
LEMMA WorkInv ==
  ASSUME FinalizationInv, TakeList \/ \E w \in Committers : Lock(w)
  PROVE  FinalizationInv'
<1>1. UNCHANGED <<play, pending, database, notices, faults>>
  BY DEF TakeList, Lock
<1>2. PendingAgrees' /\ NothingForgotten'
  BY <1>1 DEF FinalizationInv, PendingAgrees, NothingForgotten, Ended, database
<1>3. FinalizationTypeOK' /\ WorkAgrees'
  <2>1. CASE TakeList
    <3>1. PICK g \in pending :
            work' = [work EXCEPT ![Loop] = [Idle EXCEPT !.step = "wait", !.game = g, !.rest = pending \ {g}]]
      BY <2>1 DEF TakeList
    <3>2. g \in Games /\ UNCHANGED holder
      BY <2>1, <3>1 DEF TakeList, FinalizationInv, FinalizationTypeOK
    <3>3. holder # Loop
      <4>1. work[Loop] = Idle /\ Loop \in Committers
        BY <2>1 DEF TakeList
      <4>2. \A w \in Committers : holder = w => work[w].step \in {"store", "confirmed", "acknowledged"}
        BY DEF FinalizationInv, FinalizationTypeOK
      <4> QED
        BY <4>1, <4>2 DEF Idle
    <3>4. [Idle EXCEPT !.step = "wait", !.game = g, !.rest = pending \ {g}] \in Works
      BY <3>2 DEF Idle, Works, FinalizationInv, FinalizationTypeOK
    <3>5. FinalizationTypeOK'
      BY <1>1, <3>1, <3>2, <3>3, <3>4 DEF FinalizationInv, FinalizationTypeOK, Idle, database
    <3>6. WorkAgrees'
      BY <1>1, <3>1, <3>2 DEF FinalizationInv, FinalizationTypeOK, WorkAgrees, PendingAgrees, Ended, Idle, database
    <3> QED
      BY <3>5, <3>6
  <2>2. ASSUME NEW w \in Committers, Lock(w)
        PROVE  FinalizationTypeOK' /\ WorkAgrees'
    <3>1. work' = [work EXCEPT ![w].step = "store"] /\ work[w].step = "wait"
      BY <2>2 DEF Lock
    <3>2. holder' = w /\ holder = None
      BY <2>2 DEF Lock, MutexFree
    <3>3. FinalizationTypeOK'
      BY <1>1, <3>1, <3>2 DEF FinalizationInv, FinalizationTypeOK, Works, database
    <3>4. WorkAgrees'
      BY <1>1, <3>1 DEF FinalizationInv, FinalizationTypeOK, WorkAgrees, Ended, Works, database
    <3> QED
      BY <3>3, <3>4
  <2> QED
    BY <2>1, <2>2
<1> QED
  BY <1>1, <1>2, <1>3, DatabaseKept DEF FinalizationInv, database

\* A commit that goes through records a game for the first time, under the
\* system of its group.
LEMMA RecordKept ==
  ASSUME FinalizationInv, NEW g \in Games, Record(g), UNCHANGED <<play, config, notices>>,
         Ended(g), Unrecorded(g), ~Refused(g), limbo' = limbo \ {g}
  PROVE  /\ RowsAgree' /\ LimboAgrees' /\ AwardedOnce' /\ AnnouncedOnce' /\ OneSystemPerGroup'
         /\ stored' \in [Games -> {"no", "plain", "scored"}] /\ awards' \in [Games -> Nat]
         /\ stored'[g] # "no" /\ \A h \in Games \ {g} : stored'[h] = stored[h]
<1> DEFINE row == IF play[g].worth THEN "scored" ELSE "plain"
<1>1. /\ stored'[g] = row
      /\ \A h \in Games \ {g} : stored'[h] = stored[h] /\ awards'[h] = awards[h]
      /\ stored' \in [Games -> {"no", "plain", "scored"}]
  BY DEF Record, FinalizationInv, FinalizationTypeOK
<1>2. awards[g] = 0 /\ notices[g] = 0
  BY DEF FinalizationInv, FinalizationTypeOK, AwardedOnce, AnnouncedOnce, Unrecorded
<1>3. awards' \in [Games -> Nat] /\ awards'[g] = IF play[g].worth THEN 1 ELSE 0
  BY <1>2 DEF Record, FinalizationInv, FinalizationTypeOK
<1>4. RowsAgree'
  BY <1>1 DEF FinalizationInv, RowsAgree, Ended
<1>5. LimboAgrees'
  BY <1>1 DEF FinalizationInv, FinalizationTypeOK, LimboAgrees, Ended, Unrecorded, Refused
<1>6. AwardedOnce'
  BY <1>1, <1>3 DEF FinalizationInv, AwardedOnce
<1>7. AnnouncedOnce'
  BY <1>1, <1>2, <1>3 DEF FinalizationInv, FinalizationTypeOK, AnnouncedOnce
<1>8. OneSystemPerGroup'
  BY <1>1 DEF FinalizationInv, OneSystemPerGroup, Refused
<1> QED
  BY <1>1, <1>3, <1>4, <1>5, <1>6, <1>7, <1>8

\* The holder of the mutex goes on with a confirmed result.
LEMMA ConfirmInv ==
  ASSUME FinalizationInv, NEW w \in Committers, Confirm(w)
  PROVE  FinalizationInv'
<1> DEFINE g == work[w].game
<1>1. work[w].step = "store" /\ g \in Games /\ Ended(g) /\ ~work[w].fresh
  BY DEF Confirm, FinalizationInv, WorkAgrees
<1>2. g \notin limbo /\ RowFree(play[g].group) /\ Unrecorded(g) /\ ~Refused(g) /\ Record(g)
  BY DEF Confirm, Recordable, Lockable
<1>3. /\ work' = [work EXCEPT ![w].step = "confirmed", ![w].fresh = TRUE]
      /\ UNCHANGED <<play, pending, holder, config, limbo, notices, faults>>
  BY DEF Confirm
<1>4. /\ RowsAgree' /\ LimboAgrees' /\ AwardedOnce' /\ AnnouncedOnce' /\ OneSystemPerGroup'
      /\ stored' \in [Games -> {"no", "plain", "scored"}] /\ awards' \in [Games -> Nat]
      /\ stored'[g] # "no" /\ \A h \in Games \ {g} : stored'[h] = stored[h]
  BY <1>1, <1>2, <1>3, RecordKept
<1>5. notices[g] = 0
  BY <1>1, <1>2 DEF FinalizationInv, FinalizationTypeOK, AwardedOnce, AnnouncedOnce, Unrecorded
<1>6. PICK done \in Works : /\ work' = [work EXCEPT ![w] = done]
                            /\ done.step = "confirmed" /\ done.game = g /\ done.rest = work[w].rest
  <2>1. work[w] \in Works
    BY DEF FinalizationInv, FinalizationTypeOK
  <2>2. work' = [work EXCEPT ![w] = [work[w] EXCEPT !.step = "confirmed", !.fresh = TRUE]]
    BY <1>3 DEF FinalizationInv, FinalizationTypeOK
  <2>3. [work[w] EXCEPT !.step = "confirmed", !.fresh = TRUE] \in Works
    BY <2>1 DEF Works
  <2> QED
    BY <2>1, <2>2, <2>3 DEF Works
<1>7. holder = w
  BY <1>1 DEF FinalizationInv, FinalizationTypeOK
<1> HIDE DEF g
<1>8. /\ work' \in [Committers -> Works] /\ work'[w] = done
      /\ \A v \in Committers \ {w} : work'[v] = work[v]
  BY <1>6 DEF FinalizationInv, FinalizationTypeOK
<1>9. FinalizationTypeOK'
  BY <1>3, <1>4, <1>6, <1>7, <1>8 DEF FinalizationInv, FinalizationTypeOK
<1>10. WorkAgrees'
  <2>1. \A h \in done.rest : Ended(h)
    BY <1>6 DEF FinalizationInv, WorkAgrees
  <2>2. \A v \in Committers : work[v].step # "idle" => work[v].game \in Games
    BY DEF FinalizationInv, WorkAgrees
  <2>3. ASSUME NEW v \in Committers
        PROVE  /\ work'[v].step # "idle" => work'[v].game \in Games /\ Ended(work'[v].game)
               /\ \A h \in work'[v].rest : Ended(h)
               /\ work'[v].step \in {"confirmed", "acknowledged"} => stored'[work'[v].game] # "no"
               /\ work'[v].fresh => /\ work'[v].step \in {"confirmed", "acknowledged"}
                                    /\ notices[work'[v].game] = 0
    <3>1. CASE v = w
      BY <3>1, <2>1, <1>1, <1>4, <1>5, <1>6, <1>8
    <3>2. CASE v # w
      BY <3>2, <2>2, <1>4, <1>8 DEF FinalizationInv, WorkAgrees
    <3> QED
      BY <3>1, <3>2
  <2> QED
    BY <2>3, <1>3 DEF WorkAgrees, Ended
<1>11. PendingAgrees' /\ NothingForgotten'
  BY <1>1, <1>3, <1>4 DEF FinalizationInv, PendingAgrees, NothingForgotten, Ended
<1> QED
  BY <1>4, <1>9, <1>10, <1>11 DEF FinalizationInv

\* So does it with one an earlier attempt recorded, and with acknowledging it.
LEMMA RecallInv ==
  ASSUME FinalizationInv, NEW w \in Committers, Recall(w) \/ Acknowledge(w)
  PROVE  FinalizationInv'
<1> DEFINE g == work[w].game
<1>1. /\ UNCHANGED <<play, holder, config, stored, awards, limbo, notices, faults>>
      /\ pending' \subseteq pending /\ pending \subseteq pending' \cup {g}
  BY DEF Recall, Acknowledge, database
<1>2. g \in Games /\ Ended(g) /\ stored[g] # "no" /\ holder = w
  <2>1. CASE Recall(w)
    BY <2>1 DEF Recall, Unrecorded, FinalizationInv, FinalizationTypeOK, WorkAgrees
  <2>2. CASE Acknowledge(w)
    BY <2>2 DEF Acknowledge, FinalizationInv, FinalizationTypeOK, WorkAgrees
  <2> QED
    BY <2>1, <2>2
<1>3. work[w].fresh => notices[g] = 0
  BY DEF FinalizationInv, WorkAgrees
<1>4. PICK done \in Works : /\ work' = [work EXCEPT ![w] = done]
                            /\ done.step \in {"confirmed", "acknowledged"}
                            /\ done.game = g /\ done.fresh = work[w].fresh /\ done.rest = work[w].rest
  <2>1. PICK step \in {"confirmed", "acknowledged"} : work' = [work EXCEPT ![w] = [work[w] EXCEPT !.step = step]]
    BY DEF Recall, Acknowledge, FinalizationInv, FinalizationTypeOK
  <2>2. work[w] \in Works
    BY DEF FinalizationInv, FinalizationTypeOK
  <2>3. [work[w] EXCEPT !.step = step] \in Works
    BY <2>2 DEF Works
  <2> QED
    BY <2>1, <2>2, <2>3 DEF Works
<1> HIDE DEF g
<1>5. /\ work' \in [Committers -> Works] /\ work'[w] = done
      /\ \A v \in Committers \ {w} : work'[v] = work[v]
  BY <1>4 DEF FinalizationInv, FinalizationTypeOK
<1>6. FinalizationTypeOK'
  BY <1>1, <1>2, <1>4, <1>5 DEF FinalizationInv, FinalizationTypeOK
<1>7. WorkAgrees'
  <2>1. \A h \in done.rest : Ended(h)
    BY <1>4 DEF FinalizationInv, WorkAgrees
  <2> QED
    BY <1>1, <1>2, <1>3, <1>4, <1>5, <2>1 DEF FinalizationInv, WorkAgrees, Ended
<1>8. PendingAgrees' /\ NothingForgotten'
  BY <1>1, <1>2 DEF FinalizationInv, PendingAgrees, NothingForgotten, Ended
<1> QED
  BY <1>1, <1>6, <1>7, <1>8, DatabaseKept DEF FinalizationInv

\* What is announced was confirmed freshly and not announced before.
LEMMA NotifyInv ==
  ASSUME FinalizationInv, NEW w \in Committers, Notify(w)
  PROVE  FinalizationInv'
<1> DEFINE g == work[w].game
<1>1. UNCHANGED <<play, pending, config, stored, awards, limbo, faults>> /\ holder' = None
  BY DEF Notify, database
<1>2. work[w].step = "acknowledged" /\ g \in Games /\ stored[g] # "no" /\ holder = w
  BY DEF Notify, FinalizationInv, FinalizationTypeOK, WorkAgrees
<1>3. PICK next \in Following(w) : work' = [work EXCEPT ![w] = next]
  BY DEF Notify
<1>4. /\ next \in Works /\ next.step \in {"idle", "wait"} /\ ~next.fresh
      /\ next.step # "idle" => next.game \in Games /\ Ended(next.game)
      /\ \A h \in next.rest : Ended(h)
  BY <1>3, FollowingWork
<1>5. /\ work' \in [Committers -> Works] /\ work'[w] = next
      /\ \A v \in Committers \ {w} : work'[v] = work[v]
  BY <1>3, <1>4 DEF FinalizationInv, FinalizationTypeOK
<1>6. /\ notices' \in [Games -> Nat]
      /\ \A h \in Games \ {g} : notices'[h] = notices[h]
      /\ notices'[g] <= awards[g]
  <2>1. CASE Announces(w)
    <3>1. notices[g] = 0 /\ awards[g] = 1
      BY <2>1, <1>2 DEF Announces, FinalizationInv, WorkAgrees, RowsAgree, AwardedOnce
    <3>2. notices' = [notices EXCEPT ![g] = @ + 1]
      BY <2>1 DEF Notify
    <3> QED
      BY <3>1, <3>2, <1>2 DEF FinalizationInv, FinalizationTypeOK
  <2>2. CASE ~Announces(w)
    <3>1. notices' = notices
      BY <2>2 DEF Notify
    <3> QED
      BY <3>1, <1>2 DEF FinalizationInv, FinalizationTypeOK, AnnouncedOnce
  <2> QED
    BY <2>1, <2>2
<1> HIDE DEF g
<1>7. FinalizationTypeOK'
  BY <1>1, <1>2, <1>4, <1>5, <1>6 DEF FinalizationInv, FinalizationTypeOK
<1>8. WorkAgrees'
  <2>1. \A v \in Committers \ {w} : ~work[v].fresh
    BY <1>2 DEF FinalizationInv, FinalizationTypeOK, WorkAgrees
  <2> QED
    BY <1>1, <1>4, <1>5, <2>1 DEF FinalizationInv, WorkAgrees, Ended
<1>9. RowsAgree' /\ LimboAgrees' /\ PendingAgrees' /\ AwardedOnce' /\ NothingForgotten' /\ OneSystemPerGroup'
  BY <1>1 DEF FinalizationInv, RowsAgree, LimboAgrees, PendingAgrees, AwardedOnce, NothingForgotten,
     OneSystemPerGroup, Ended, Unrecorded, Refused
<1>10. AnnouncedOnce'
  BY <1>1, <1>6 DEF FinalizationInv, AnnouncedOnce
<1> QED
  BY <1>7, <1>8, <1>9, <1>10 DEF FinalizationInv

\* The outcome of an open transaction arrives, one way or the other.
LEMMA SettleInv ==
  ASSUME FinalizationInv, NEW g \in Games, Settle(g)
  PROVE  FinalizationInv'
<1>1. UNCHANGED <<play, pending, holder, work, config, notices, faults>> /\ limbo' = limbo \ {g}
  BY DEF Settle, memory
<1>2. Ended(g) /\ Unrecorded(g) /\ ~Refused(g)
  BY DEF Settle, FinalizationInv, LimboAgrees
<1>3. /\ RowsAgree' /\ LimboAgrees' /\ AwardedOnce' /\ AnnouncedOnce' /\ OneSystemPerGroup'
      /\ stored' \in [Games -> {"no", "plain", "scored"}] /\ awards' \in [Games -> Nat]
      /\ \A h \in Games : stored[h] # "no" => stored'[h] # "no"
  <2>1. CASE Record(g)
    BY <2>1, <1>1, <1>2, RecordKept
  <2>2. CASE UNCHANGED <<stored, awards>>
    BY <2>2, <1>1, DatabaseKept DEF FinalizationInv, FinalizationTypeOK
  <2> QED
    BY <2>1, <2>2 DEF Settle
<1>4. FinalizationTypeOK'
  BY <1>1, <1>3 DEF FinalizationInv, FinalizationTypeOK
<1>5. WorkAgrees' /\ PendingAgrees' /\ NothingForgotten'
  BY <1>1, <1>3 DEF FinalizationInv, WorkAgrees, PendingAgrees, NothingForgotten, Ended
<1> QED
  BY <1>3, <1>4, <1>5 DEF FinalizationInv

\* The answer to COMMIT is lost: the game joins the open transactions.
LEMMA LoseAnswerInv ==
  ASSUME FinalizationInv, NEW w \in Committers, LoseAnswer(w)
  PROVE  FinalizationInv'
<1> DEFINE g == work[w].game
<1>1. work[w].step = "store" /\ Fails(w) /\ UNCHANGED <<config, stored, awards>> /\ limbo' = limbo \cup {g}
  BY DEF LoseAnswer
<1>2. g \in Games /\ Ended(g)
  BY <1>1 DEF FinalizationInv, WorkAgrees
<1>3. RowFree(play[g].group) /\ Unrecorded(g) /\ ~Refused(g)
  BY DEF LoseAnswer, Recordable, Lockable
<1>4. UNCHANGED play
  BY <1>1 DEF Fails
<1>5. faults' \in 0 .. MaxFaults
  BY DEF LoseAnswer, FinalizationInv, FinalizationTypeOK
<1> HIDE DEF g
<1>6. LimboAgrees'
  BY <1>1, <1>2, <1>3, <1>4 DEF FinalizationInv, FinalizationTypeOK, LimboAgrees, RowFree, Ended, Unrecorded, Refused
<1>7. limbo' \subseteq Games
  BY <1>1, <1>2 DEF FinalizationInv, FinalizationTypeOK
<1> QED
  BY <1>1, <1>5, <1>6, <1>7, FailsInv

\* An attempt that is refused or breaks down leaves the database as it was.
LEMMA BreakInv ==
  ASSUME FinalizationInv, NEW w \in Committers, Refuse(w) \/ Break(w)
  PROVE  FinalizationInv'
<1>1. work[w].step = "store" /\ Fails(w) /\ UNCHANGED <<config, stored, awards, limbo, faults>>
  BY DEF Refuse, Break, database
<1>2. LimboAgrees'
  BY <1>1, DatabaseKept DEF Fails
<1> QED
  BY <1>1, <1>2, FailsInv DEF FinalizationInv, FinalizationTypeOK

\* The system of a group changes when neither an open transaction nor a
\* scored game of it stands in the way.
LEMMA SetRankingSystemInv ==
  ASSUME FinalizationInv, NEW group \in Groups, NEW system \in Systems, SetRankingSystem(group, system)
  PROVE  FinalizationInv'
<1>1. /\ UNCHANGED <<play, pending, holder, work, stored, awards, limbo, notices, faults>>
      /\ config' = [config EXCEPT ![group] = system]
  BY DEF SetRankingSystem, memory
<1>2. group # None
  OBVIOUS
<1>3. \A g \in limbo : play[g].group # group
  BY <1>2 DEF SetRankingSystem, RowFree
<1>4. FinalizationTypeOK'
  BY <1>1 DEF FinalizationInv, FinalizationTypeOK
<1>5. LimboAgrees'
  BY <1>1, <1>3 DEF FinalizationInv, FinalizationTypeOK, LimboAgrees, Ended, Unrecorded, Refused, Plays
<1>6. OneSystemPerGroup'
  BY <1>1 DEF SetRankingSystem, Compatible, FinalizationInv, FinalizationTypeOK, OneSystemPerGroup, Plays
<1>7. WorkAgrees' /\ PendingAgrees' /\ RowsAgree' /\ AwardedOnce' /\ AnnouncedOnce' /\ NothingForgotten'
  BY <1>1 DEF FinalizationInv, WorkAgrees, PendingAgrees, RowsAgree, AwardedOnce, AnnouncedOnce,
     NothingForgotten, Ended
<1> QED
  BY <1>4, <1>5, <1>6, <1>7 DEF FinalizationInv

\* A restart forgets what was in memory and leaves the database as it is.
LEMMA CrashInv ==
  ASSUME FinalizationInv, Crash
  PROVE  FinalizationInv'
<1>1. /\ UNCHANGED <<config, stored, awards, limbo, notices>>
      /\ pending' = {} /\ holder' = None /\ work' = [w \in Committers |-> Idle]
      /\ faults' \in 0 .. MaxFaults
  BY DEF Crash, database, FinalizationInv, FinalizationTypeOK
<1>2. ASSUME NEW g \in Games
      PROVE  /\ play'[g] \in Plays
             /\ play'[g].group = play[g].group /\ play'[g].system = play[g].system
             /\ play'[g].worth = play[g].worth
             /\ Ended(g) => Ended(g)'
             /\ play'[g].stage = "over" => play[g].stage = "over" /\ g \notin pending
  <2>1. play[g] \in Plays
    BY DEF FinalizationInv, FinalizationTypeOK
  <2>2. CASE play'[g] = play[g] /\ g \notin pending
    BY <2>1, <2>2 DEF Ended
  <2>3. CASE play'[g] = [play[g] EXCEPT !.stage = "lost"]
    BY <2>1, <2>3 DEF Plays, Ended
  <2> QED
    BY <2>2, <2>3 DEF Crash
<1>3. play' \in [Games -> Plays]
  BY <1>2 DEF Crash
<1>4. FinalizationTypeOK'
  BY <1>1, <1>3 DEF FinalizationInv, FinalizationTypeOK, Idle, Works
<1>5. WorkAgrees' /\ PendingAgrees'
  BY <1>1 DEF WorkAgrees, PendingAgrees, Idle
<1>6. RowsAgree'
  BY <1>1, <1>2 DEF FinalizationInv, RowsAgree
<1>7. LimboAgrees'
  BY <1>1, <1>2 DEF FinalizationInv, FinalizationTypeOK, LimboAgrees, Unrecorded, Refused
<1>8. AwardedOnce' /\ AnnouncedOnce' /\ NothingForgotten'
  BY <1>1, <1>2 DEF FinalizationInv, AwardedOnce, AnnouncedOnce, NothingForgotten
<1>9. OneSystemPerGroup'
  BY <1>1, <1>2 DEF FinalizationInv, OneSystemPerGroup
<1> QED
  BY <1>4, <1>5, <1>6, <1>7, <1>8, <1>9 DEF FinalizationInv

\* Every step keeps the invariant.
LEMMA NextInv == FinalizationInv /\ [Next]_vars => FinalizationInv'
<1> SUFFICES ASSUME FinalizationInv, [Next]_vars PROVE FinalizationInv'
  OBVIOUS
<1>1. CASE UNCHANGED vars
  BY <1>1 DEF vars, memory, database, FinalizationInv, FinalizationTypeOK, WorkAgrees, PendingAgrees, RowsAgree,
     LimboAgrees, AwardedOnce, AnnouncedOnce, NothingForgotten, OneSystemPerGroup, Ended, Unrecorded, Refused
<1>2. ASSUME NEW g \in Games, ReadSettings(g) \/ Start(g) PROVE FinalizationInv'
  BY <1>2, PlayInv
<1>3. ASSUME NEW g \in Games, Settle(g) PROVE FinalizationInv'
  BY <1>3, SettleInv
<1>4. ASSUME NEW g \in Games, NEW a \in Adapters, Finish(g, a) PROVE FinalizationInv'
  BY <1>4, FinishInv
<1>5. ASSUME TakeList \/ \E w \in Committers : Lock(w) PROVE FinalizationInv'
  BY <1>5, WorkInv
<1>6. ASSUME NEW w \in Committers, Attempt(w) PROVE FinalizationInv'
  BY <1>6, ConfirmInv, RecallInv, BreakInv, LoseAnswerInv, NotifyInv DEF Attempt, Answer
<1>7. ASSUME NEW group \in Groups, NEW system \in Systems, SetRankingSystem(group, system)
      PROVE  FinalizationInv'
  BY <1>7, SetRankingSystemInv
<1>8. CASE Crash
  BY <1>8, CrashInv
<1> QED
  BY <1>1, <1>2, <1>3, <1>4, <1>5, <1>6, <1>7, <1>8 DEF Next

\* FinalizationInv holds of every number of games, groups and committers.
THEOREM FinalizationInvariant == Spec => []FinalizationInv
<1> QED
  BY InitInv, NextInv, PTL DEF Spec

\* The memory, the mutex and the rows are well formed, and whoever stores,
\* acknowledges or announces holds the mutex (finalization.go:41-64).
THEOREM FinalizationTypes == Spec => []FinalizationTypeOK
<1>1. FinalizationInv => FinalizationTypeOK
  BY DEF FinalizationInv
<1> QED
  BY <1>1, FinalizationInvariant, PTL

\* However often a commit is tried, refused, interrupted by a restart or left
\* without an answer, the points of a game enter the totals exactly when the
\* game is in the history, and once (results.go:43-157).
THEOREM PointsAwardedOnce == Spec => []AwardedOnce
<1>1. FinalizationInv => AwardedOnce
  BY DEF FinalizationInv
<1> QED
  BY <1>1, FinalizationInvariant, PTL

\* A game's points are announced at most once and never before the database
\* has them (finalization.go:58-64).
THEOREM PointsAnnouncedOnce == Spec => []AnnouncedOnce
<1>1. FinalizationInv => AnnouncedOnce
  BY DEF FinalizationInv
<1> QED
  BY <1>1, FinalizationInvariant, PTL

\* No result of a living process is dropped unrecorded (results.go:117-121).
THEOREM ResultsAreKept == Spec => []NothingForgotten
<1>1. FinalizationInv => NothingForgotten
  BY DEF FinalizationInv
<1> QED
  BY <1>1, FinalizationInvariant, PTL

\* The row locks of RecordCompletedGame and SetRankingSystem keep the points of
\* a group under one ranking system (results.go:33-57, groups.go:48-103).
THEOREM SystemsDoNotMix == Spec => []OneSystemPerGroup
<1>1. FinalizationInv => OneSystemPerGroup
  BY DEF FinalizationInv
<1> QED
  BY <1>1, FinalizationInvariant, PTL
=============================================================================
