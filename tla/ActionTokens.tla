---------------------------- MODULE ActionTokens ----------------------------
(***************************************************************************)
(* The TokenStore behind the inline menus: which taps are still good, kept *)
(* three ways at once (by token, in the order of creation, by player) and  *)
(* bounded per player and in all.  Every operation runs under its mutex.   *)
(*                                                                         *)
(* A token stands for one move of one player at one revision of a game.    *)
(***************************************************************************)
EXTENDS Naturals, Sequences, FiniteSets, SequencesExt, Sifting

CONSTANTS
  Users, Games, None,
  MaxTokens,               \* bound on the tokens created
  UserLimit, GlobalLimit,  \* tokens kept of a player, and in all
  CleanLimit               \* expired tokens dropped when one is created

ASSUME TokensAssumption ==
  /\ UserLimit \in Nat \ {0} /\ GlobalLimit \in Nat \ {0} /\ CleanLimit \in Nat
  /\ MaxTokens \in Nat
  /\ None \notin Users

\* Tokens are random; here they are numbered as they are made.
Tokens == 1 .. MaxTokens

VARIABLES
  made,    \* what each token was created for
  tokens,  \* the tokens of the store, by name
  order,   \* the same, oldest first
  owned    \* the same, of each player

store == <<made, tokens, order, owned>>

Results == {"none", "confirmed", "stale", "rejected"}

NotMade == [user |-> None, game |-> None, rev |-> 0, verb |-> "none"]
Absent == [used |-> FALSE, result |-> "none", expired |-> FALSE, here |-> FALSE]
Created == [Absent EXCEPT !.here = TRUE]

Kept == {id \in Tokens : tokens[id].here}

TokensInit ==
  /\ made = [id \in Tokens |-> NotMade]
  /\ tokens = [id \in Tokens |-> Absent]
  /\ order = <<>>
  /\ owned = [p \in Users |-> <<>>]

-----------------------------------------------------------------------------
(* Operations *)

Without(s, ids) == Sift(s, Tokens \ ids)

\* Mutant of OwnedWithout: the list of the player is left alone.
OwnedAsBefore(ids) == owned

OwnedWithout(ids) == [p \in Users |-> Without(owned[p], ids)]

Delete(ids) ==
  /\ tokens' = [id \in Tokens |-> IF id \in ids THEN Absent ELSE tokens[id]]
  /\ order' = Without(order, ids)
  /\ owned' = OwnedWithout(ids)
  /\ UNCHANGED made

\* The first of the expired tokens at the front: all live equally long, so
\* those are the oldest.
Overdue ==
  LET inFront == {i \in 1 .. Len(order) :
                    i <= CleanLimit /\ \A j \in 1 .. i : tokens[order[j]].expired}
  IN  {order[i] : i \in inFront}

\* One token of the player makes room when he has too many, then one of all.
Evicted(p) ==
  LET mine == Without(owned[p], Overdue)
      first == IF Len(mine) >= UserLimit THEN {Head(mine)} ELSE {}
      rest == Without(order, Overdue \cup first)
  IN  first \cup IF Len(rest) >= GlobalLimit THEN {Head(rest)} ELSE {}

Create(id, p, g, rev, verb) ==
  LET dropped == Overdue \cup Evicted(p)
  IN  /\ made[id] = NotMade /\ \A i \in 1 .. id - 1 : made[i] # NotMade
      /\ made' = [made EXCEPT ![id] = [user |-> p, game |-> g, rev |-> rev, verb |-> verb]]
      /\ tokens' = [i \in Tokens |-> IF i = id THEN Created
                                     ELSE IF i \in dropped THEN Absent ELSE tokens[i]]
      /\ order' = Append(Without(order, dropped), id)
      /\ owned' = [OwnedWithout(dropped) EXCEPT ![p] = Append(@, id)]

\* Mutant of Marked: the token stays good.
Unmarked(id) == tokens

Marked(id) == [tokens EXCEPT ![id].used = TRUE]

\* ConsumeOK: for every other status nothing changes.
Consume(id, p) ==
  /\ id \in Kept
  /\ ~tokens[id].expired /\ ~tokens[id].used
  /\ made[id].user = p
  /\ tokens' = Marked(id)
  /\ UNCHANGED <<made, order, owned>>

\* Mutant of Released: what could not be queued stays used.
StaysUsed(id) == tokens

\* The same token is good again, if it is still there.
Released(id) ==
  [tokens EXCEPT ![id].used = @ /\ tokens[id].result # "none"]

Release(id) ==
  /\ tokens' = Released(id)
  /\ UNCHANGED <<made, order, owned>>

SetResult(id, result) ==
  /\ tokens' = IF id \in Kept THEN [tokens EXCEPT ![id].result = result] ELSE tokens
  /\ UNCHANGED <<made, order, owned>>

OfGame(g) == {id \in Kept : made[id].game = g}

InvalidateGame(g) == Delete(OfGame(g))

InvalidateUserGame(g, p) == Delete({id \in OfGame(g) : made[id].user = p})

\* Two minutes pass for the oldest token they have not passed for.
Expire(id) ==
  /\ \E i \in 1 .. Len(order) :
       /\ order[i] = id
       /\ ~tokens[id].expired
       /\ \A j \in 1 .. i - 1 : tokens[order[j]].expired
  /\ tokens' = [tokens EXCEPT ![id].expired = TRUE]
  /\ UNCHANGED <<made, order, owned>>

-----------------------------------------------------------------------------
(* Properties *)

\* The three views of the store agree after every operation, in the order of
\* creation, and no limit is exceeded.
StoreAgrees ==
  /\ IsInjective(order)
  /\ ToSet(order) = Kept
  /\ \A p \in Users : owned[p] = Sift(order, {id \in Tokens : made[id].user = p})
  /\ Len(order) <= GlobalLimit
  /\ \A p \in Users : Len(owned[p]) <= UserLimit
=============================================================================
