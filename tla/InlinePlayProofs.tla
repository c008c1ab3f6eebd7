-------------------------- MODULE InlinePlayProofs --------------------------
(***************************************************************************)
(* The token store and the inline play for every number of players, games, *)
(* tokens, commands and resets, and for every limit: the three views of    *)
(* the store agree and stay within their limits, taps are told what became *)
(* of them, and a command is stale only after two changes.                 *)
(***************************************************************************)
EXTENDS InlinePlay, SiftingProofs, FiniteSetTheorems, TLAPS

USE TokensAssumption, InlineAssumption

-----------------------------------------------------------------------------
(* The inductive invariant *)

\* What a token is made for.
Purposes == [user : Users, game : Games, rev : Nat, verb : {"draw", "play", "choose"}]

TokenStates == [used : BOOLEAN, result : Results, expired : BOOLEAN, here : BOOLEAN]

\* The store is well formed, its three views agree, and only tokens that were
\* made are kept.
StoreSound ==
  /\ made \in [Tokens -> Purposes \cup {NotMade}]
  /\ tokens \in [Tokens -> TokenStates]
  /\ order \in Seq(Tokens) /\ owned \in [Users -> Seq(Tokens)]
  /\ \A id \in Kept : made[id] # NotMade
  /\ StoreAgrees

\* What a worker reads of a game, and the moves it has still to offer.
Menus == [user : Users, game : Games, rev : Nat, left : SUBSET {"draw", "play", "choose"}, ids : SUBSET Tokens]

\* One game at most is open, and menus are made of games that were.
GamesSound ==
  /\ game \in [Games -> Games0]
  /\ \A g, h \in Games : Open(g) /\ Open(h) => g = h
  /\ menu \in [InlineWorkers -> Menus \cup {NoMenu}]

Hands == [step : Steps, game : Games \cup {None}, rev : Nat, first : Nat,
          answer : {"none", "again", "stale"}, closes : BOOLEAN]

\* What waits in the lane waits there once, and nothing else waits.
LaneSound ==
  /\ lane \in [{Chat} -> Seq(Jobs)] /\ work \in [{Chat} -> Jobs \cup {None}]
  /\ \A i, j \in 1 .. Len(lane[Chat]) : lane[Chat][i] = lane[Chat][j] => i = j
  /\ \A j \in Jobs : (\E i \in 1 .. Len(lane[Chat]) : lane[Chat][i] = j) <=> hand[j].step = "wait"

\* Every message comes once.
DueSound == due \subseteq Commands \cup Resets /\ \A c \in due : hand[c] = NotBegun

\* Where a tap is decides what its token says and whether it has moved a game.
TapSound(id) ==
  /\ hand[id].step \in Steps \ {"act", "purgeUser", "wipe"}
  /\ hand[id].step # "no" => made[id] # NotMade
  /\ hand[id].step \in {"no", "send", "sendLate", "wait", "run", "stale", "rejected", "dropped"} => id \notin applied
  /\ hand[id].step \in {"won", "purge"} => id \in applied
  /\ hand[id].closes => hand[id].step \in {"won", "purge"}
  /\ tokens[id].here =>
       /\ tokens[id].used <=> hand[id].step # "no"
       /\ tokens[id].result = "none" <=> hand[id].step \notin {"purge", "over"}
       /\ tokens[id].result # "none" => (tokens[id].result = "confirmed" <=> id \in applied)

\* How far a command is, and, of one that has read its game again and is not
\* disowned, that the game has changed since the first time.
CommandSound(c) ==
  /\ hand[c].step \in {"no", "wait"} => hand[c].answer = "none"
  /\ hand[c].step = "act" => hand[c].game \in Games /\ Verb(c) # "novo"
  /\ ~Disowned(c) /\ hand[c].step = "act" =>
       /\ hand[c].rev <= game[hand[c].game].rev
       /\ hand[c].first + (IF hand[c].answer = "again" THEN 1 ELSE 0) <= hand[c].rev
  /\ ~Disowned(c) /\ hand[c].step = "run" /\ hand[c].answer = "again" =>
       /\ hand[c].game \in Games
       /\ hand[c].first + 1 <= game[hand[c].game].rev
       /\ \A g \in Games : Open(g) => g = hand[c].game

HandsSound ==
  /\ hand \in [Jobs \cup Resets -> Hands] /\ applied \subseteq Tokens
  /\ \A id \in Tokens : TapSound(id)
  /\ \A c \in Commands : CommandSound(c)

InlineInv == StoreSound /\ GamesSound /\ LaneSound /\ DueSound /\ HandsSound

-----------------------------------------------------------------------------
(* The store *)

\* The views of a store, without its limits.
LEMMA ViewsAre ==
  ASSUME StoreSound
  PROVE  /\ \A i \in 1 .. Len(order) : order[i] \in Kept
         /\ \A id \in Kept : \E i \in 1 .. Len(order) : order[i] = id
         /\ \A i, j \in 1 .. Len(order) : order[i] = order[j] => i = j
<1>1. order \in Seq(Tokens) /\ ToSet(order) = Kept /\ IsInjective(order)
  BY DEF StoreSound, StoreAgrees
<1>2. DOMAIN order = 1 .. Len(order)
  BY <1>1
<1>3. \A x : x \in ToSet(order) <=> \E i \in 1 .. Len(order) : order[i] = x
  BY <1>2 DEF ToSet
<1> QED
  BY <1>1, <1>2, <1>3 DEF IsInjective

\* Nothing is made or dropped: only what is known of tokens changes.
LEMMA MarksKeep ==
  ASSUME StoreSound, UNCHANGED <<made, order, owned>>, tokens' \in [Tokens -> TokenStates],
         \A id \in Tokens : tokens'[id].here = tokens[id].here
  PROVE  StoreSound'
<1>1. Kept' = Kept
  BY DEF Kept
<1> QED
  BY <1>1 DEF StoreSound, StoreAgrees

\* Sifting the order of a store.
LEMMA SiftedOrder ==
  ASSUME NEW s \in Seq(Tokens), NEW S,
         \A i, j \in 1 .. Len(s) : s[i] = s[j] => i = j
  PROVE  /\ Sift(s, S) \in Seq(Tokens) /\ Len(Sift(s, S)) <= Len(s)
         /\ IsInjective(Sift(s, S))
         /\ ToSet(Sift(s, S)) = ToSet(s) \cap S
<1>1. Sift(s, S) \in Seq(Tokens) /\ Len(Sift(s, S)) <= Len(s)
  BY SiftIsSeq
<1>2. DOMAIN s = 1 .. Len(s) /\ DOMAIN Sift(s, S) = 1 .. Len(Sift(s, S))
  BY <1>1
<1>3. \A i, j \in 1 .. Len(Sift(s, S)) : Sift(s, S)[i] = Sift(s, S)[j] => i = j
  BY SiftInjective
<1>4. \A x : (\E i \in 1 .. Len(Sift(s, S)) : Sift(s, S)[i] = x) <=> x \in S /\ \E i \in 1 .. Len(s) : s[i] = x
  BY SiftElements
<1>5. \A x : x \in ToSet(Sift(s, S)) <=> \E i \in 1 .. Len(Sift(s, S)) : Sift(s, S)[i] = x
  BY <1>2 DEF ToSet
<1>6. \A x : x \in ToSet(s) <=> \E i \in 1 .. Len(s) : s[i] = x
  BY <1>2 DEF ToSet
<1>7. IsInjective(Sift(s, S))
  BY <1>2, <1>3 DEF IsInjective
<1>8. ToSet(Sift(s, S)) = ToSet(s) \cap S
  BY <1>4, <1>5, <1>6
<1> QED
  BY <1>1, <1>7, <1>8

\* What is left of the tokens of a player is theirs of what is left of all.
LEMMA OwnedSifted ==
  ASSUME StoreSound, NEW ids, NEW p \in Users
  PROVE  Without(owned[p], ids) = Sift(Without(order, ids), {id \in Tokens : made[id].user = p})
<1> DEFINE M == {id \in Tokens : made[id].user = p}
           K == Tokens \ ids
<1>1. order \in Seq(Tokens) /\ owned[p] = Sift(order, M)
  BY DEF StoreSound, StoreAgrees
<1> HIDE DEF M, K
<1>2. Sift(Sift(order, M), K) = Sift(order, M \cap K)
  BY <1>1, SiftTwice
<1>3. Sift(Sift(order, K), M) = Sift(order, K \cap M)
  BY <1>1, SiftTwice
<1>4. M \cap K = K \cap M
  OBVIOUS
<1>5. Without(owned[p], ids) = Sift(Sift(order, M), K) /\ Without(order, ids) = Sift(order, K)
  BY <1>1 DEF Without, K
<1>6. Without(owned[p], ids) = Sift(Without(order, ids), M)
  BY <1>2, <1>3, <1>4, <1>5
<1> QED
  BY <1>6 DEF M

\* A store without some of its tokens.
LEMMA WithoutSound ==
  ASSUME StoreSound, NEW ids
  PROVE  /\ Without(order, ids) \in Seq(Tokens) /\ Len(Without(order, ids)) <= Len(order)
         /\ IsInjective(Without(order, ids)) /\ ToSet(Without(order, ids)) = Kept \ ids
         /\ \A p \in Users : Without(owned[p], ids) \in Seq(Tokens) /\ Len(Without(owned[p], ids)) <= Len(owned[p])
<1>1. order \in Seq(Tokens) /\ ToSet(order) = Kept /\ owned \in [Users -> Seq(Tokens)]
  BY DEF StoreSound, StoreAgrees
<1>2. \A i, j \in 1 .. Len(order) : order[i] = order[j] => i = j
  BY ViewsAre
<1> DEFINE K == Tokens \ ids
<1>3. Without(order, ids) = Sift(order, K) /\ \A p \in Users : Without(owned[p], ids) = Sift(owned[p], K)
  BY DEF Without
<1>4. ToSet(order) \cap K = Kept \ ids
  BY <1>1 DEF Kept
<1> HIDE DEF K
<1>5. /\ Sift(order, K) \in Seq(Tokens) /\ Len(Sift(order, K)) <= Len(order)
      /\ IsInjective(Sift(order, K)) /\ ToSet(Sift(order, K)) = ToSet(order) \cap K
  BY <1>1, <1>2, SiftedOrder
<1>6. \A p \in Users : Sift(owned[p], K) \in Seq(Tokens) /\ Len(Sift(owned[p], K)) <= Len(owned[p])
  BY <1>1, SiftIsSeq
<1> QED
  BY <1>3, <1>4, <1>5, <1>6

\* Any tokens may be dropped from all three views at once.
LEMMA DeleteKeeps ==
  ASSUME StoreSound, NEW ids, Delete(ids)
  PROVE  /\ StoreSound' /\ made' = made
         /\ \A id \in Tokens : tokens'[id] = tokens[id] \/ ~tokens'[id].here
<1>1. /\ made' = made /\ order' = Without(order, ids)
      /\ owned' = [p \in Users |-> Without(owned[p], ids)]
      /\ tokens' = [id \in Tokens |-> IF id \in ids THEN Absent ELSE tokens[id]]
  BY DEF Delete, OwnedWithout
<1>2. /\ made \in [Tokens -> Purposes \cup {NotMade}] /\ tokens \in [Tokens -> TokenStates]
      /\ Len(order) <= GlobalLimit /\ \A p \in Users : Len(owned[p]) <= UserLimit
      /\ order \in Seq(Tokens) /\ owned \in [Users -> Seq(Tokens)]
      /\ \A id \in Kept : made[id] # NotMade
  BY DEF StoreSound, StoreAgrees
<1>3. Absent \in TokenStates /\ ~Absent.here
  BY DEF Absent, TokenStates, Results
<1>4. tokens' \in [Tokens -> TokenStates] /\ \A id \in Tokens : tokens'[id] = tokens[id] \/ ~tokens'[id].here
  BY <1>1, <1>2, <1>3
<1>5. Kept' = Kept \ ids
  BY <1>1, <1>3 DEF Kept
<1>6. /\ order' \in Seq(Tokens) /\ Len(order') <= Len(order) /\ IsInjective(order') /\ ToSet(order') = Kept'
      /\ \A p \in Users : owned'[p] \in Seq(Tokens) /\ Len(owned'[p]) <= Len(owned[p])
  BY <1>1, <1>5, WithoutSound
<1>7. owned' \in [Users -> Seq(Tokens)]
  BY <1>1, <1>6
<1>8. \A p \in Users : owned'[p] = Sift(order', {id \in Tokens : made'[id].user = p})
  BY <1>1, OwnedSifted
<1>9. Len(order') <= GlobalLimit
  BY <1>2, <1>6
<1>10. \A p \in Users : Len(owned'[p]) <= UserLimit
  BY <1>2, <1>6, <1>7
<1>11. StoreAgrees'
  BY <1>6, <1>8, <1>9, <1>10 DEF StoreAgrees
<1>12. \A id \in Kept' : made'[id] # NotMade
  BY <1>1, <1>2, <1>5
<1> QED
  BY <1>1, <1>2, <1>4, <1>6, <1>7, <1>11, <1>12 DEF StoreSound

\* Without its first element a sequence is shorter.
LEMMA SiftShortens ==
  ASSUME NEW s \in Seq(Tokens), NEW S, NEW limit \in Nat \ {0}, Len(s) <= limit,
         Len(s) >= limit => Head(s) \notin S
  PROVE  Len(Sift(s, S)) < limit
<1>1. Sift(s, S) \in Seq(Tokens) /\ Len(Sift(s, S)) <= Len(s)
  BY SiftIsSeq
<1>2. CASE Len(s) < limit
  BY <1>1, <1>2
<1>3. CASE Len(s) >= limit
  <2>1. s # <<>> /\ Head(s) \notin S
    BY <1>3
  <2>2. Sift(s, S) = Sift(Tail(s), S)
    BY <2>1, SiftTail
  <2>3. Tail(s) \in Seq(Tokens) /\ Len(Tail(s)) = Len(s) - 1
    BY <2>1
  <2>4. Len(Sift(Tail(s), S)) <= Len(Tail(s)) /\ Sift(Tail(s), S) \in Seq(Tokens)
    BY <2>3, SiftIsSeq
  <2> QED
    BY <1>3, <2>2, <2>3, <2>4
<1> QED
  BY <1>2, <1>3

\* What is dropped for a new token makes room for it.
LEMMA RoomIsMade ==
  ASSUME StoreSound, NEW p \in Users
  PROVE  LET dropped == Overdue \cup Evicted(p)
         IN  /\ Len(Without(order, dropped)) < GlobalLimit
             /\ Len(Without(owned[p], dropped)) < UserLimit
<1> DEFINE dropped == Overdue \cup Evicted(p)
           mine == Without(owned[p], Overdue)
           first == IF Len(mine) >= UserLimit THEN {Head(mine)} ELSE {}
           rest == Without(order, Overdue \cup first)
           last == IF Len(rest) >= GlobalLimit THEN {Head(rest)} ELSE {}
           K == Tokens \ dropped
<1>1. dropped = Overdue \cup first \cup last
  BY DEF Evicted
<1>2. /\ order \in Seq(Tokens) /\ owned[p] \in Seq(Tokens)
      /\ Len(order) <= GlobalLimit /\ Len(owned[p]) <= UserLimit
  BY DEF StoreSound, StoreAgrees
<1>3. /\ mine \in Seq(Tokens) /\ Len(mine) <= Len(owned[p])
      /\ rest \in Seq(Tokens) /\ Len(rest) <= Len(order)
  BY WithoutSound
<1>4. Len(mine) >= UserLimit => Head(mine) \notin K
  BY <1>1
<1>5. Len(rest) >= GlobalLimit => Head(rest) \notin K
  BY <1>1
<1>6. Without(owned[p], dropped) = Sift(mine, K)
  <2>1. Sift(Sift(owned[p], Tokens \ Overdue), K) = Sift(owned[p], (Tokens \ Overdue) \cap K)
    <3> HIDE DEF K
    <3> QED
      BY <1>2, SiftTwice
  <2>2. (Tokens \ Overdue) \cap K = K
    BY <1>1
  <2> QED
    BY <2>1, <2>2 DEF Without
<1>7. Without(order, dropped) = Sift(rest, K)
  <2> DEFINE F == Tokens \ (Overdue \cup first)
  <2>1. Sift(Sift(order, F), K) = Sift(order, F \cap K)
    <3> HIDE DEF K, F
    <3> QED
      BY <1>2, SiftTwice
  <2>2. F \cap K = K
    BY <1>1
  <2> QED
    BY <2>1, <2>2 DEF Without
<1>8. Len(Sift(mine, K)) < UserLimit
  <2> HIDE DEF K, mine
  <2> QED
    BY <1>2, <1>3, <1>4, SiftShortens
<1>9. Len(Sift(rest, K)) < GlobalLimit
  <2> HIDE DEF K, rest
  <2> QED
    BY <1>2, <1>3, <1>5, SiftShortens
<1> QED
  BY <1>6, <1>7, <1>8, <1>9

\* A token is added to all three views after room is made for it.
LEMMA CreateKeeps ==
  ASSUME StoreSound, NEW id \in Tokens, NEW p \in Users, NEW g \in Games, NEW rev \in Nat,
         NEW verb \in {"draw", "play", "choose"}, Create(id, p, g, rev, verb)
  PROVE  /\ StoreSound' /\ made[id] = NotMade /\ made'[id] # NotMade
         /\ \A i \in Tokens \ {id} : made'[i] = made[i] /\ (tokens'[i] = tokens[i] \/ ~tokens'[i].here)
         /\ tokens'[id] = Created
<1> DEFINE dropped == Overdue \cup Evicted(p)
           kept == Without(order, dropped)
           purpose == [user |-> p, game |-> g, rev |-> rev, verb |-> verb]
<1>1. /\ made[id] = NotMade /\ made' = [made EXCEPT ![id] = purpose]
      /\ tokens' = [i \in Tokens |-> IF i = id THEN Created ELSE IF i \in dropped THEN Absent ELSE tokens[i]]
      /\ order' = Append(kept, id)
      /\ owned' = [[q \in Users |-> Without(owned[q], dropped)] EXCEPT ![p] = Append(@, id)]
  BY DEF Create, OwnedWithout
<1>2. /\ made \in [Tokens -> Purposes \cup {NotMade}] /\ tokens \in [Tokens -> TokenStates]
      /\ Len(order) <= GlobalLimit /\ \A q \in Users : Len(owned[q]) <= UserLimit
      /\ order \in Seq(Tokens) /\ owned \in [Users -> Seq(Tokens)]
      /\ \A i \in Kept : made[i] # NotMade
  BY DEF StoreSound, StoreAgrees
<1>3. /\ Absent \in TokenStates /\ ~Absent.here /\ Created \in TokenStates /\ Created.here
  BY DEF Absent, Created, TokenStates, Results
<1>4. purpose \in Purposes /\ purpose # NotMade /\ purpose.user = p
  BY DEF Purposes, NotMade
<1>5. /\ \A i \in Tokens \ {id} : made'[i] = made[i] /\ (tokens'[i] = tokens[i] \/ ~tokens'[i].here)
      /\ tokens'[id] = Created /\ made'[id] = purpose
      /\ tokens' \in [Tokens -> TokenStates] /\ made' \in [Tokens -> Purposes \cup {NotMade}]
  BY <1>1, <1>2, <1>3, <1>4
<1>6. id \notin Kept /\ Kept' = (Kept \ dropped) \cup {id}
  BY <1>1, <1>2, <1>3, <1>5 DEF Kept
<1> HIDE DEF dropped, purpose
<1>7. /\ kept \in Seq(Tokens) /\ IsInjective(kept) /\ ToSet(kept) = Kept \ dropped
      /\ \A q \in Users : Without(owned[q], dropped) \in Seq(Tokens) /\ Len(Without(owned[q], dropped)) <= Len(owned[q])
  BY WithoutSound
<1>8. Len(kept) < GlobalLimit /\ Len(Without(owned[p], dropped)) < UserLimit
  BY RoomIsMade DEF dropped
<1> HIDE DEF kept
<1>9. /\ order' \in Seq(Tokens) /\ Len(order') = Len(kept) + 1 /\ order'[Len(kept) + 1] = id
      /\ \A i \in 1 .. Len(kept) : order'[i] = kept[i]
  BY <1>1, <1>7
<1>10. /\ DOMAIN kept = 1 .. Len(kept) /\ DOMAIN order' = 1 .. Len(kept) + 1
  BY <1>7, <1>9
<1>11. ToSet(order') = Kept'
  <2>1. \A x : x \in ToSet(order') <=> \E i \in 1 .. Len(kept) + 1 : order'[i] = x
    BY <1>10 DEF ToSet
  <2>2. \A x : x \in ToSet(kept) <=> \E i \in 1 .. Len(kept) : kept[i] = x
    BY <1>10 DEF ToSet
  <2>3. Len(kept) \in Nat
    BY <1>7
  <2>4. \A x : x \in ToSet(order') <=> x \in ToSet(kept) \/ x = id
    BY <1>9, <2>1, <2>2, <2>3
  <2> QED
    BY <1>6, <1>7, <2>4
<1>12. IsInjective(order')
  <2>1. \A i \in 1 .. Len(kept) : kept[i] # id
    BY <1>6, <1>7, <1>10 DEF ToSet
  <2> SUFFICES ASSUME NEW i \in 1 .. Len(kept) + 1, NEW j \in 1 .. Len(kept) + 1, order'[i] = order'[j]
               PROVE  i = j
    BY <1>10 DEF IsInjective
  <2>2. CASE i \in 1 .. Len(kept) /\ j \in 1 .. Len(kept)
    BY <1>7, <1>9, <1>10, <2>2 DEF IsInjective
  <2>3. CASE i = Len(kept) + 1 \/ j = Len(kept) + 1
    BY <1>7, <1>9, <2>1, <2>3
  <2> QED
    BY <1>7, <2>2, <2>3
<1>13. \A q \in Users : owned'[q] = IF q = p THEN Append(Without(owned[p], dropped), id) ELSE Without(owned[q], dropped)
  BY <1>1
<1>14. owned' \in [Users -> Seq(Tokens)] /\ \A q \in Users : Len(owned'[q]) <= UserLimit
  <2>1. \A q \in Users : owned'[q] \in Seq(Tokens) /\ Len(owned'[q]) <= UserLimit
    <3>1. Append(Without(owned[p], dropped), id) \in Seq(Tokens)
          /\ Len(Append(Without(owned[p], dropped), id)) <= UserLimit
      BY <1>7, <1>8
    <3>2. \A q \in Users : Without(owned[q], dropped) \in Seq(Tokens) /\ Len(Without(owned[q], dropped)) <= UserLimit
      BY <1>2, <1>7
    <3> SUFFICES ASSUME NEW q \in Users PROVE owned'[q] \in Seq(Tokens) /\ Len(owned'[q]) <= UserLimit
      OBVIOUS
    <3>3. CASE q = p
      <4>1. owned'[q] = Append(Without(owned[p], dropped), id)
        BY <1>13, <3>3
      <4> QED
        BY <3>1, <4>1
    <3>4. CASE q # p
      <4>1. owned'[q] = Without(owned[q], dropped)
        BY <1>13, <3>4
      <4> QED
        BY <3>2, <4>1
    <3> QED
      BY <3>3, <3>4
  <2>2. owned' = [q \in Users |-> owned'[q]]
    BY <1>1
  <2> QED
    BY <2>1, <2>2
<1>15. ASSUME NEW q \in Users PROVE owned'[q] = Sift(order', {i \in Tokens : made'[i].user = q})
  <2> DEFINE M == {i \in Tokens : made[i].user = q}
             N == {i \in Tokens : made'[i].user = q}
  <2>1. Without(owned[q], dropped) = Sift(kept, M)
    BY OwnedSifted DEF kept
  <2>2. \A i \in 1 .. Len(kept) : kept[i] \in M <=> kept[i] \in N
    <3>1. \A i \in 1 .. Len(kept) : kept[i] \in Tokens /\ kept[i] # id
      BY <1>6, <1>7, <1>10 DEF ToSet
    <3> QED
      BY <1>5, <3>1
  <2>3. id \in N <=> q = p
    BY <1>4, <1>5
  <2> HIDE DEF M, N
  <2>4. Sift(kept, M) = Sift(kept, N)
    BY <1>7, <2>2, SiftSame
  <2>5. Sift(Append(kept, id), N) = IF id \in N THEN Append(Sift(kept, N), id) ELSE Sift(kept, N)
    BY <1>7, SiftAppend
  <2>6. owned'[q] = Sift(order', N)
    BY <1>1, <1>13, <2>1, <2>3, <2>4, <2>5
  <2> QED
    BY <2>6 DEF N
<1>16. StoreAgrees'
  <2>1. Len(order') <= GlobalLimit
    BY <1>7, <1>8, <1>9
  <2> QED
    BY <1>11, <1>12, <1>14, <1>15, <2>1 DEF StoreAgrees
<1>17. \A i \in Kept' : made'[i] # NotMade
  <2>1. Kept \subseteq Tokens
    BY DEF Kept
  <2> QED
    BY <1>2, <1>4, <1>5, <1>6, <2>1
<1> QED
  BY <1>1, <1>4, <1>5, <1>9, <1>14, <1>16, <1>17 DEF StoreSound

\* What becomes of a token that is not the one being worked on: it may be
\* dropped or expire.
Stays(i) ==
  /\ made[i] # NotMade => made'[i] # NotMade
  /\ tokens'[i].here => tokens[i].here /\ tokens'[i].used = tokens[i].used /\ tokens'[i].result = tokens[i].result

LEMMA ConsumeKeeps ==
  ASSUME StoreSound, NEW id \in Tokens, NEW p, Consume(id, p)
  PROVE  /\ StoreSound' /\ made' = made /\ \A i \in Tokens \ {id} : Stays(i)
         /\ tokens[id].here /\ ~tokens[id].used
         /\ tokens'[id].used /\ tokens'[id].result = tokens[id].result
<1>1. tokens \in [Tokens -> TokenStates]
  BY DEF StoreSound
<1>2. /\ tokens' = [tokens EXCEPT ![id] = [tokens[id] EXCEPT !.used = TRUE]] /\ UNCHANGED <<made, order, owned>>
      /\ tokens[id].here /\ ~tokens[id].used
  BY <1>1 DEF Consume, Marked, Kept
<1> DEFINE t == [tokens[id] EXCEPT !.used = TRUE]
<1>3. tokens[id] \in TokenStates
  BY <1>1
<1>4. t \in TokenStates /\ t.here = tokens[id].here /\ t.used = TRUE /\ t.result = tokens[id].result
  BY <1>3 DEF TokenStates
<1>5. tokens' = [tokens EXCEPT ![id] = t]
  BY <1>2
<1> HIDE DEF t
<1>6. /\ tokens' \in [Tokens -> TokenStates] /\ tokens'[id] = t /\ \A i \in Tokens \ {id} : tokens'[i] = tokens[i]
  BY <1>1, <1>4, <1>5
<1>7. \A i \in Tokens : tokens'[i].here = tokens[i].here
  BY <1>4, <1>6
<1>8. StoreSound'
  BY <1>2, <1>6, <1>7, MarksKeep
<1> QED
  BY <1>2, <1>4, <1>6, <1>8 DEF Stays

LEMMA ReleaseKeeps ==
  ASSUME StoreSound, NEW id \in Tokens, Release(id)
  PROVE  /\ StoreSound' /\ made' = made /\ \A i \in Tokens \ {id} : Stays(i)
         /\ tokens'[id].here = tokens[id].here /\ tokens'[id].result = tokens[id].result
         /\ tokens[id].result = "none" => ~tokens'[id].used
<1>1. tokens \in [Tokens -> TokenStates]
  BY DEF StoreSound
<1> DEFINE b == tokens[id].used /\ tokens[id].result # "none"
           t == [tokens[id] EXCEPT !.used = b]
<1>2. tokens' = [tokens EXCEPT ![id] = t] /\ UNCHANGED <<made, order, owned>>
  BY <1>1 DEF Release, Released
<1>3. tokens[id] \in TokenStates /\ b \in BOOLEAN /\ (tokens[id].result = "none" => ~b)
  BY <1>1 DEF TokenStates
<1> HIDE DEF b
<1>4. t \in TokenStates /\ t.here = tokens[id].here /\ t.used = b /\ t.result = tokens[id].result
  BY <1>3 DEF TokenStates
<1> HIDE DEF t
<1>6. /\ tokens' \in [Tokens -> TokenStates] /\ tokens'[id] = t /\ \A i \in Tokens \ {id} : tokens'[i] = tokens[i]
  BY <1>1, <1>2, <1>4
<1>7. \A i \in Tokens : tokens'[i].here = tokens[i].here
  BY <1>4, <1>6
<1>8. StoreSound'
  BY <1>2, <1>6, <1>7, MarksKeep
<1> QED
  BY <1>2, <1>3, <1>4, <1>6, <1>8 DEF Stays

LEMMA SetResultKeeps ==
  ASSUME StoreSound, NEW id \in Tokens, NEW result \in Results, SetResult(id, result)
  PROVE  /\ StoreSound' /\ made' = made /\ \A i \in Tokens \ {id} : Stays(i)
         /\ tokens'[id].here = tokens[id].here
         /\ tokens[id].here => tokens'[id].result = result /\ tokens'[id].used = tokens[id].used
<1>1. tokens \in [Tokens -> TokenStates]
  BY DEF StoreSound
<1> DEFINE t == [tokens[id] EXCEPT !.result = result]
<1>2. /\ tokens' = (IF id \in Kept THEN [tokens EXCEPT ![id] = t] ELSE tokens)
      /\ UNCHANGED <<made, order, owned>> /\ (id \in Kept <=> tokens[id].here)
  BY <1>1 DEF SetResult, Kept
<1>3. tokens[id] \in TokenStates
  BY <1>1
<1>4. t \in TokenStates /\ t.here = tokens[id].here /\ t.used = tokens[id].used /\ t.result = result
  BY <1>3 DEF TokenStates
<1> HIDE DEF t
<1>6. /\ tokens' \in [Tokens -> TokenStates] /\ tokens'[id] = (IF id \in Kept THEN t ELSE tokens[id])
      /\ \A i \in Tokens \ {id} : tokens'[i] = tokens[i]
  BY <1>1, <1>2, <1>4
<1>7. \A i \in Tokens : tokens'[i].here = tokens[i].here
  BY <1>4, <1>6
<1>8. StoreSound'
  BY <1>2, <1>6, <1>7, MarksKeep
<1> QED
  BY <1>2, <1>4, <1>6, <1>8 DEF Stays

LEMMA ExpireKeeps ==
  ASSUME StoreSound, NEW id \in Tokens, Expire(id)
  PROVE  StoreSound' /\ \A i \in Tokens : Stays(i)
<1>1. tokens \in [Tokens -> TokenStates]
  BY DEF StoreSound
<1> DEFINE t == [tokens[id] EXCEPT !.expired = TRUE]
<1>2. tokens' = [tokens EXCEPT ![id] = t] /\ UNCHANGED <<made, order, owned>>
  BY <1>1 DEF Expire
<1>3. tokens[id] \in TokenStates
  BY <1>1
<1>4. t \in TokenStates /\ t.here = tokens[id].here /\ t.used = tokens[id].used /\ t.result = tokens[id].result
  BY <1>3 DEF TokenStates
<1> HIDE DEF t
<1>6. /\ tokens' \in [Tokens -> TokenStates] /\ tokens'[id] = t
      /\ \A i \in Tokens \ {id} : tokens'[i] = tokens[i]
  BY <1>1, <1>2, <1>4
<1>7. \A i \in Tokens : tokens'[i].here = tokens[i].here
  BY <1>4, <1>6
<1>8. StoreSound'
  BY <1>2, <1>6, <1>7, MarksKeep
<1> QED
  BY <1>2, <1>4, <1>6, <1>8 DEF Stays

\* Tokens that were dropped, or not touched, stay in this sense.
LEMMA StaysSame ==
  ASSUME NEW i \in Tokens, made'[i] = made[i], tokens'[i] = tokens[i] \/ ~tokens'[i].here
  PROVE  Stays(i)
BY DEF Stays

-----------------------------------------------------------------------------
(* Games *)

\* Games only go on: no revision is taken back and nothing opens.
Grows == \A g \in Games : game'[g].rev >= game[g].rev /\ (Open(g)' => Open(g))

LEMMA AfterSound ==
  ASSUME game \in [Games -> Games0], NEW g \in Games, NEW next \in After(g)
  PROVE  next \in Games0 /\ next.rev = game[g].rev + 1
<1> DEFINE s == game[g]
           n == [s EXCEPT !.rev = s.rev + 1]
           closed == [n EXCEPT !.stage = "closed", !.who = None]
<1>1. s \in Games0 /\ n \in Games0 /\ n.rev = s.rev + 1
  BY DEF Games0
<1>2. After(g) \subseteq {closed} \cup {[n EXCEPT !.stage = "turn", !.who = p] : p \in n.seats}
             \cup {[n EXCEPT !.stage = "choice"]}
             \cup {[n EXCEPT !.stage = "choice", !.who = p] : p \in n.seats}
             \cup {[n EXCEPT !.seats = n.seats \cup {p}] : p \in Users}
  BY DEF After
<1> HIDE DEF n
<1>3. closed \in Games0 /\ closed.rev = n.rev
  BY <1>1 DEF Games0
<1>4. \A p \in n.seats : LET x == [n EXCEPT !.stage = "turn", !.who = p] IN x \in Games0 /\ x.rev = n.rev
  BY <1>1 DEF Games0
<1>5. LET x == [n EXCEPT !.stage = "choice"] IN x \in Games0 /\ x.rev = n.rev
  BY <1>1 DEF Games0
<1>6. \A p \in Users : LET x == [n EXCEPT !.seats = n.seats \cup {p}] IN x \in Games0 /\ x.rev = n.rev
  BY <1>1 DEF Games0
<1>7. \A p \in n.seats : LET x == [n EXCEPT !.stage = "choice", !.who = p] IN x \in Games0 /\ x.rev = n.rev
  BY <1>1 DEF Games0
<1>8. n.rev = game[g].rev + 1
  BY <1>1
<1> HIDE DEF s, closed
<1>9. \/ next = closed
      \/ \E p \in n.seats : next = [n EXCEPT !.stage = "turn", !.who = p]
      \/ next = [n EXCEPT !.stage = "choice"]
      \/ \E p \in n.seats : next = [n EXCEPT !.stage = "choice", !.who = p]
      \/ \E p \in Users : next = [n EXCEPT !.seats = n.seats \cup {p}]
  BY <1>2
<1> QED
  BY <1>3, <1>4, <1>5, <1>6, <1>7, <1>8, <1>9

\* One open game goes on.
LEMMA GoesOn ==
  ASSUME GamesSound, menu' = menu, NEW g \in Games, Open(g), NEW next \in Games0,
         next.rev = game[g].rev + 1, game' = [game EXCEPT ![g] = next]
  PROVE  GamesSound' /\ Grows
<1>1. game \in [Games -> Games0]
  BY DEF GamesSound
<1>2. /\ game' \in [Games -> Games0] /\ game'[g] = next /\ \A h \in Games \ {g} : game'[h] = game[h]
  BY <1>1
<1>3. \A h \in Games : game[h].rev \in Nat
  BY <1>1 DEF Games0
<1>4. Grows
  BY <1>2, <1>3 DEF Grows, Open
<1>5. \A h, k \in Games : Open(h)' /\ Open(k)' => h = k
  BY <1>4 DEF Grows, GamesSound
<1>6. menu' \in [InlineWorkers -> Menus \cup {NoMenu}]
  BY DEF GamesSound
<1> QED
  BY <1>2, <1>4, <1>5, <1>6 DEF GamesSound

LEMMA CommandIs ==
  ASSUME NEW c \in Commands
  PROVE  Verb(c) \in Verbs /\ Sender(c) \in Users
BY DEF Verb, Sender

\* What a command makes of an open game is a game, one revision later.
LEMMA DoneSound ==
  ASSUME game \in [Games -> Games0], NEW c \in Commands, hand[c].game \in Games, Verb(c) # "novo",
         NEW next \in Done(c)
  PROVE  next \in Games0 /\ next.rev = game[hand[c].game].rev + 1
<1> DEFINE s == game[hand[c].game]
           n == [s EXCEPT !.rev = s.rev + 1]
           u == Sender(c)
           left == s.seats \ {u}
           Turn(p, seats) == [n EXCEPT !.stage = "turn", !.who = p, !.seats = seats]
           Choosing(p, seats) == [Turn(p, seats) EXCEPT !.stage = "choice"]
           Closed(seats) == [n EXCEPT !.stage = "closed", !.who = None, !.seats = seats]
<1>1. s \in Games0 /\ n \in Games0 /\ n.rev = s.rev + 1 /\ left \in SUBSET Users /\ s.seats \in SUBSET Users
  BY DEF Games0
<1>2. u \in Users /\ Verb(c) \in Verbs
  BY CommandIs
<1> HIDE DEF u
<1>3. \/ next = [n EXCEPT !.seats = n.seats \cup {u}]
      \/ \E p \in s.seats : next = Turn(p, s.seats)
      \/ \E p \in s.seats : next = Choosing(p, s.seats)
      \/ next = n
      \/ next = Closed(s.seats)
      \/ next = [n EXCEPT !.seats = left]
      \/ next = Closed(left)
      \/ \E p \in left : next = Turn(p, left)
  <2>1. CASE Verb(c) = "entrar"
    BY <2>1 DEF Done, u
  <2>2. CASE Verb(c) = "iniciar"
    <3>1. next \in {Turn(p, s.seats) : p \in s.seats}
                   \cup {[t EXCEPT !.stage = "choice"] : t \in {Turn(p, s.seats) : p \in s.seats}}
      BY <2>2 DEF Done
    <3> HIDE DEF Turn
    <3> QED
      BY <3>1
  <2>3. CASE Verb(c) = "modo"
    BY <2>3 DEF Done
  <2>4. CASE Verb(c) = "cancelar"
    BY <2>4 DEF Done
  <2>5. CASE Verb(c) = "sair"
    BY <2>5 DEF Done, u
  <2> QED
    BY <1>2, <2>1, <2>2, <2>3, <2>4, <2>5 DEF Verbs
<1> HIDE DEF n, left
<1>4. LET x == [n EXCEPT !.seats = n.seats \cup {u}] IN x \in Games0 /\ x.rev = n.rev
  BY <1>1, <1>2 DEF Games0
<1>5. LET x == [n EXCEPT !.seats = left] IN x \in Games0 /\ x.rev = n.rev
  BY <1>1 DEF Games0
<1>6. ASSUME NEW q \in SUBSET Users
      PROVE  /\ Closed(q) \in Games0 /\ Closed(q).rev = n.rev
             /\ \A p \in q : Turn(p, q) \in Games0 /\ Turn(p, q).rev = n.rev
  BY <1>1 DEF Games0
<1> HIDE DEF Turn, Closed
<1>7. \A t \in Games0 : LET x == [t EXCEPT !.stage = "choice"] IN x \in Games0 /\ x.rev = t.rev
  BY DEF Games0
<1>8. n.rev = game[hand[c].game].rev + 1
  BY <1>1
<1>9. /\ Closed(s.seats) \in Games0 /\ Closed(s.seats).rev = n.rev
      /\ Closed(left) \in Games0 /\ Closed(left).rev = n.rev
  BY <1>1, <1>6
<1>10. /\ \A p \in s.seats : Turn(p, s.seats) \in Games0 /\ Turn(p, s.seats).rev = n.rev
       /\ \A p \in left : Turn(p, left) \in Games0 /\ Turn(p, left).rev = n.rev
       /\ \A p \in s.seats : Choosing(p, s.seats) \in Games0 /\ Choosing(p, s.seats).rev = n.rev
  BY <1>1, <1>6, <1>7
<1> HIDE DEF Choosing
<1>11. n \in Games0
  BY <1>1
<1> HIDE DEF s
<1>12. next \in Games0 /\ next.rev = n.rev
  <2>1. CASE next = [n EXCEPT !.seats = n.seats \cup {u}]
    BY <1>4, <2>1
  <2>2. CASE (\E p \in s.seats : next = Turn(p, s.seats)) \/ \E p \in s.seats : next = Choosing(p, s.seats)
    <3>1. ASSUME NEW p \in s.seats, next = Turn(p, s.seats) PROVE next \in Games0 /\ next.rev = n.rev
      BY <1>10, <3>1
    <3>2. ASSUME NEW p \in s.seats, next = Choosing(p, s.seats) PROVE next \in Games0 /\ next.rev = n.rev
      BY <1>7, <1>10, <3>2 DEF Choosing
    <3> QED
      BY <2>2, <3>1, <3>2
  <2>3. CASE next = n \/ next = Closed(s.seats) \/ next = Closed(left)
    BY <1>9, <1>11, <2>3
  <2>4. CASE next = [n EXCEPT !.seats = left]
    BY <1>5, <2>4
  <2>5. CASE \E p \in left : next = Turn(p, left)
    BY <1>10, <2>5
  <2> QED
    BY <1>3, <2>1, <2>2, <2>3, <2>4, <2>5
<1> QED
  BY <1>8, <1>12 DEF s

\* A game opens when none is open; no revision is taken back.
LEMMA NovoSound ==
  ASSUME GamesSound, menu' = menu, Vacant, NEW g \in Games, game[g] = Unborn,
         game' = [game EXCEPT ![g].stage = "lobby"]
  PROVE  GamesSound' /\ \A h \in Games : game'[h].rev >= game[h].rev
<1> DEFINE n == [game[g] EXCEPT !.stage = "lobby"]
<1>1. game \in [Games -> Games0]
  BY DEF GamesSound
<1>2. n \in Games0 /\ n.rev = game[g].rev
  BY <1>1 DEF Games0
<1>3. game' = [game EXCEPT ![g] = n]
  BY <1>1
<1> HIDE DEF n
<1>4. game' \in [Games -> Games0] /\ game'[g] = n /\ \A h \in Games \ {g} : game'[h] = game[h]
  BY <1>1, <1>2, <1>3
<1>5. \A h \in Games : game[h].rev \in Nat
  BY <1>1 DEF Games0
<1>6. \A h \in Games \ {g} : ~Open(h)'
  BY <1>4 DEF Vacant, Open
<1>7. \A h, k \in Games : Open(h)' /\ Open(k)' => h = k
  BY <1>6
<1>8. menu' \in [InlineWorkers -> Menus \cup {NoMenu}]
  BY DEF GamesSound
<1> QED
  BY <1>2, <1>4, <1>5, <1>7, <1>8 DEF GamesSound

\* A reset ends every game.
Wiped == game' = [g \in Games |-> IF game[g].stage = "unborn" THEN game[g]
                                  ELSE [game[g] EXCEPT !.stage = "gone", !.who = None]]

LEMMA WipeSound ==
  ASSUME GamesSound, menu' = menu, Wiped
  PROVE  GamesSound' /\ Grows
<1>1. game \in [Games -> Games0]
  BY DEF GamesSound
<1>2. \A g \in Games : LET n == [game[g] EXCEPT !.stage = "gone", !.who = None]
                       IN  n \in Games0 /\ n.rev = game[g].rev /\ n.stage = "gone"
  BY <1>1 DEF Games0
<1>3. \A g \in Games : game'[g] \in Games0 /\ game'[g].rev = game[g].rev /\ game'[g].stage \in {"unborn", "gone"}
  BY <1>1, <1>2 DEF Wiped
<1>4. game' \in [Games -> Games0]
  <2>1. game' = [g \in Games |-> game'[g]]
    BY DEF Wiped
  <2> QED
    BY <1>3, <2>1
<1>5. \A g \in Games : ~Open(g)'
  BY <1>3 DEF Open
<1>6. \A g \in Games : game[g].rev \in Nat
  BY <1>1 DEF Games0
<1>7. Grows
  <2> SUFFICES ASSUME NEW g \in Games PROVE game'[g].rev >= game[g].rev /\ (Open(g)' => Open(g))
    BY DEF Grows
  <2> DEFINE a == game[g].rev
             b == game'[g].rev
  <2>1. b = a /\ a \in Nat /\ ~Open(g)'
    BY <1>3, <1>5, <1>6
  <2> HIDE DEF a, b
  <2>2. b >= a
    BY <2>1
  <2> QED
    BY <2>1, <2>2 DEF a, b
<1>8. menu' \in [InlineWorkers -> Menus \cup {NoMenu}]
  BY DEF GamesSound
<1> QED
  BY <1>4, <1>5, <1>7, <1>8 DEF GamesSound

LEMMA GamesSame ==
  ASSUME GamesSound, game' = game, menu' = menu
  PROVE  GamesSound' /\ Grows
<1>1. \A g \in Games : game[g].rev \in Nat
  BY DEF GamesSound, Games0
<1>2. Grows
  BY <1>1 DEF Grows, Open
<1> QED
  BY <1>2 DEF GamesSound, Open

-----------------------------------------------------------------------------
(* The lane *)

\* Nothing waits more or less than before.
LEMMA LaneQuiet ==
  ASSUME LaneSound, NEW j \in Jobs \cup Resets, hand \in [Jobs \cup Resets -> Hands], NEW h \in Hands,
         hand' = [hand EXCEPT ![j] = h], hand[j].step # "wait", h.step # "wait",
         lane' = lane, work' \in [{Chat} -> Jobs \cup {None}]
  PROVE  LaneSound'
<1>1. \A x \in Jobs : hand'[x].step = "wait" <=> hand[x].step = "wait"
  OBVIOUS
<1> QED
  BY <1>1 DEF LaneSound

LEMMA LaneAccept ==
  ASSUME LaneSound, NEW j \in Jobs, hand \in [Jobs \cup Resets -> Hands], NEW h \in Hands,
         hand' = [hand EXCEPT ![j] = h], hand[j].step # "wait", h.step = "wait",
         Lanes!Accept(Chat, j)
  PROVE  LaneSound' /\ work' = work
<1> DEFINE s == lane[Chat]
<1>1. s \in Seq(Jobs) /\ lane \in [{Chat} -> Seq(Jobs)] /\ work \in [{Chat} -> Jobs \cup {None}]
  BY DEF LaneSound
<1>2. lane' = [lane EXCEPT ![Chat] = Append(s, j)] /\ work' = work
  BY <1>1 DEF Lanes!Accept
<1>3. lane' \in [{Chat} -> Seq(Jobs)] /\ lane'[Chat] = Append(s, j)
  BY <1>1, <1>2
<1>4. /\ Len(Append(s, j)) = Len(s) + 1 /\ Append(s, j)[Len(s) + 1] = j
      /\ \A i \in 1 .. Len(s) : Append(s, j)[i] = s[i]
      /\ Len(s) \in Nat
  BY <1>1
<1>5. \A x \in Jobs : (\E i \in 1 .. Len(s) : s[i] = x) <=> hand[x].step = "wait"
  BY DEF LaneSound
<1>6. \A i, k \in 1 .. Len(s) : s[i] = s[k] => i = k
  BY DEF LaneSound
<1>7. \A i \in 1 .. Len(s) : s[i] # j
  BY <1>5
<1> DEFINE t == Append(s, j)
<1> HIDE DEF s, t
<1>8. ASSUME NEW i \in 1 .. Len(t), NEW k \in 1 .. Len(t), t[i] = t[k] PROVE i = k
  BY <1>4, <1>6, <1>7, <1>8 DEF t
<1>9. ASSUME NEW x \in Jobs PROVE (\E i \in 1 .. Len(t) : t[i] = x) <=> hand'[x].step = "wait"
  <2>1. (\E i \in 1 .. Len(t) : t[i] = x) <=> x = j \/ \E i \in 1 .. Len(s) : s[i] = x
    BY <1>4 DEF t
  <2>2. hand'[x].step = "wait" <=> x = j \/ hand[x].step = "wait"
    OBVIOUS
  <2> QED
    BY <1>5, <2>1, <2>2
<1> QED
  BY <1>1, <1>2, <1>3, <1>8, <1>9 DEF LaneSound, t

LEMMA LaneStart ==
  ASSUME LaneSound, NEW j \in Jobs, hand \in [Jobs \cup Resets -> Hands], NEW h \in Hands,
         hand' = [hand EXCEPT ![j] = h], h.step # "wait",
         Lanes!Start(Chat), j = Head(lane[Chat])
  PROVE  LaneSound' /\ work'[Chat] = j /\ hand[j].step = "wait"
<1> DEFINE s == lane[Chat]
           t == Tail(s)
<1>1. s \in Seq(Jobs) /\ lane \in [{Chat} -> Seq(Jobs)] /\ work \in [{Chat} -> Jobs \cup {None}]
  BY DEF LaneSound
<1>2. lane' = [lane EXCEPT ![Chat] = t] /\ work' = [work EXCEPT ![Chat] = j] /\ s # <<>>
  BY <1>1 DEF Lanes!Start
<1>3. t \in Seq(Jobs) /\ Len(t) = Len(s) - 1 /\ s[1] = j /\ Len(s) \in Nat \ {0}
      /\ \A i \in 1 .. Len(t) : t[i] = s[i + 1]
  BY <1>1, <1>2
<1>4. /\ lane' \in [{Chat} -> Seq(Jobs)] /\ lane'[Chat] = t
      /\ work' \in [{Chat} -> Jobs \cup {None}] /\ work'[Chat] = j
  BY <1>1, <1>2, <1>3
<1>5. \A x \in Jobs : (\E i \in 1 .. Len(s) : s[i] = x) <=> hand[x].step = "wait"
  BY DEF LaneSound
<1>6. \A i, k \in 1 .. Len(s) : s[i] = s[k] => i = k
  BY DEF LaneSound
<1> HIDE DEF s, t
<1>7. ASSUME NEW i \in 1 .. Len(t), NEW k \in 1 .. Len(t), t[i] = t[k] PROVE i = k
  <2>1. i + 1 \in 1 .. Len(s) /\ k + 1 \in 1 .. Len(s) /\ s[i + 1] = s[k + 1]
    BY <1>3, <1>7
  <2>2. i + 1 = k + 1
    BY <1>6, <2>1
  <2> QED
    BY <2>2
<1>8. ASSUME NEW x \in Jobs PROVE (\E i \in 1 .. Len(t) : t[i] = x) <=> hand'[x].step = "wait"
  <2>1. CASE x = j
    <3>1. \A i \in 1 .. Len(t) : t[i] # j
      <4> SUFFICES ASSUME NEW i \in 1 .. Len(t), t[i] = j PROVE FALSE
        OBVIOUS
      <4>1. i + 1 \in 1 .. Len(s) /\ 1 \in 1 .. Len(s) /\ s[i + 1] = s[1]
        BY <1>3
      <4>2. i + 1 = 1
        BY <1>6, <4>1
      <4> QED
        BY <4>2
    <3> QED
      BY <2>1, <3>1
  <2>2. CASE x # j
    <3>1. hand'[x] = hand[x]
      BY <2>2
    <3>2. ASSUME NEW i \in 1 .. Len(t), t[i] = x PROVE \E k \in 1 .. Len(s) : s[k] = x
      <4>1. i + 1 \in 1 .. Len(s) /\ s[i + 1] = x
        BY <1>3, <3>2
      <4> QED
        BY <4>1
    <3>3. ASSUME NEW i \in 1 .. Len(s), s[i] = x PROVE \E k \in 1 .. Len(t) : t[k] = x
      <4>1. i - 1 \in 1 .. Len(t) /\ t[i - 1] = s[i]
        BY <1>3, <2>2, <3>3
      <4> QED
        BY <3>3, <4>1
    <3> QED
      BY <1>5, <3>1, <3>2, <3>3
  <2> QED
    BY <2>1, <2>2
<1>9. hand[j].step = "wait"
  BY <1>3, <1>5
<1> QED
  BY <1>4, <1>7, <1>8, <1>9 DEF LaneSound

\* A job that ends lets the lane go, if it is still its own.
LEMMA EndsKeeps ==
  ASSUME LaneSound, NEW j, Ends(j)
  PROVE  /\ lane' = lane /\ work' \in [{Chat} -> Jobs \cup {None}]
         /\ work'[Chat] = work[Chat] \/ work'[Chat] = None
         /\ ~Disowned(j) => work'[Chat] = None
BY DEF LaneSound, Ends, Disowned, lanes, Lanes!Finish

-----------------------------------------------------------------------------
(* Steps that concern one tap, command or reset *)

\* A message that has come is not due any more.
LEMMA DueQuiet ==
  ASSUME DueSound, due' \subseteq due, hand \in [Jobs \cup Resets -> Hands], NEW j \in Jobs \cup Resets, NEW h,
         hand' = [hand EXCEPT ![j] = h], j \notin due'
  PROVE  DueSound'
<1>1. \A c \in due' : c \in Jobs \cup Resets /\ c # j /\ hand[c] = NotBegun
  BY DEF DueSound, Jobs
<1>2. \A c \in due' : hand'[c] = NotBegun
  BY <1>1
<1> QED
  BY <1>2 DEF DueSound

\* A command that does nothing stays as it is, while the lane is its own only
\* if no game is taken back.
LEMMA CommandKept ==
  ASSUME game \in [Games -> Games0], game' \in [Games -> Games0],
         NEW c \in Commands, hand[c] \in Hands, CommandSound(c), hand'[c] = hand[c],
         work'[Chat] = c => work[Chat] = c /\ Grows
  PROVE  CommandSound(c)'
<1> DEFINE g == hand[c].game
           a == game[g].rev
           b == game'[g].rev
<1>1. hand[c].rev \in Nat /\ hand[c].first \in Nat
  BY DEF Hands
<1>2. CASE Disowned(c)'
  BY <1>2 DEF CommandSound
<1>3. CASE ~Disowned(c)'
  <2>1. ~Disowned(c) /\ Grows
    BY <1>3 DEF Disowned
  <2>2. g \in Games => a \in Nat /\ b \in Nat /\ b >= a
    BY <2>1 DEF Games0, Grows
  <2>3. hand[c].step = "act" =>
          /\ g \in Games /\ Verb(c) # "novo"
          /\ hand[c].rev <= a /\ hand[c].first + (IF hand[c].answer = "again" THEN 1 ELSE 0) <= hand[c].rev
    BY <2>1 DEF CommandSound
  <2>4. hand[c].step = "run" /\ hand[c].answer = "again" =>
          g \in Games /\ hand[c].first + 1 <= a /\ \A x \in Games : Open(x) => x = g
    BY <2>1 DEF CommandSound
  <2>5. hand[c].step \in {"no", "wait"} => hand[c].answer = "none"
    BY DEF CommandSound
  <2>6. \A x \in Games : Open(x)' => Open(x)
    BY <2>1 DEF Grows
  <2> DEFINE h == hand[c]
  <2>7. b = game'[h.game].rev /\ g = h.game /\ hand'[c] = h
    OBVIOUS
  <2> HIDE DEF a, b, g, h
  <2>8. h.step = "act" => h.rev <= b
    BY <1>1, <2>2, <2>3 DEF h
  <2>9. h.step = "run" /\ h.answer = "again" => h.first + 1 <= b
    BY <1>1, <2>2, <2>4 DEF h
  <2> QED
    BY <2>3, <2>4, <2>5, <2>6, <2>7, <2>8, <2>9 DEF CommandSound, h
<1> QED
  BY <1>2, <1>3

\* One hand changes, and what depends on it.
LEMMA StepBy ==
  ASSUME InlineInv, NEW j \in Jobs \cup Resets, NEW h \in Hands, hand' = [hand EXCEPT ![j] = h],
         StoreSound', GamesSound', LaneSound',
         \A i \in Tokens \ {j} : Stays(i),
         Grows \/ work'[Chat] = None, work'[Chat] \in {work[Chat], None, j},
         due' \subseteq due, j \notin due',
         applied' \subseteq Tokens, \A i \in Tokens \ {j} : i \in applied' <=> i \in applied,
         j \in Tokens => TapSound(j)', j \in Commands => CommandSound(j)'
  PROVE  InlineInv'
<1>1. /\ hand \in [Jobs \cup Resets -> Hands] /\ applied \subseteq Tokens
      /\ \A i \in Tokens : TapSound(i)
      /\ \A c \in Commands : CommandSound(c)
  BY DEF InlineInv, HandsSound
<1>2. game \in [Games -> Games0] /\ game' \in [Games -> Games0]
  BY DEF InlineInv, GamesSound
<1>3. DueSound'
  BY <1>1, DueQuiet DEF InlineInv
<1>4. hand' \in [Jobs \cup Resets -> Hands] /\ \A i \in (Jobs \cup Resets) \ {j} : hand'[i] = hand[i]
  BY <1>1
<1>5. ASSUME NEW i \in Tokens PROVE TapSound(i)'
  <2>1. CASE i = j
    BY <2>1
  <2>2. CASE i # j
    <3>1. TapSound(i) /\ Stays(i) /\ (i \in applied' <=> i \in applied)
      BY <1>1, <2>2
    <3>2. hand'[i] = hand[i]
      BY <1>4, <2>2 DEF Jobs
    <3> QED
      BY <3>1, <3>2 DEF TapSound, Stays
  <2> QED
    BY <2>1, <2>2
<1>6. ASSUME NEW c \in Commands PROVE CommandSound(c)'
  <2>1. CASE c = j
    BY <2>1
  <2>2. CASE c # j
    <3>1. hand'[c] = hand[c] /\ hand[c] \in Hands /\ CommandSound(c)
      BY <1>1, <1>4, <2>2 DEF Jobs
    <3>2. c # None
      OBVIOUS
    <3>3. work'[Chat] = c => work[Chat] = c /\ Grows
      BY <2>2, <3>2
    <3> QED
      BY <1>2, <3>1, <3>3, CommandKept
  <2> QED
    BY <2>1, <2>2
<1>7. HandsSound'
  BY <1>4, <1>5, <1>6 DEF HandsSound
<1> QED
  BY <1>3, <1>7 DEF InlineInv

\* No hand changes.
LEMMA StepAside ==
  ASSUME InlineInv, hand' = hand, lane' = lane, work' = work, due' = due, applied' = applied,
         StoreSound', GamesSound', Grows,
         \A i \in Tokens : Stays(i) \/ TapSound(i)'
  PROVE  InlineInv'
<1>1. /\ hand \in [Jobs \cup Resets -> Hands] /\ applied \subseteq Tokens
      /\ \A i \in Tokens : TapSound(i)
      /\ \A c \in Commands : CommandSound(c)
  BY DEF InlineInv, HandsSound
<1>2. game \in [Games -> Games0] /\ game' \in [Games -> Games0]
  BY DEF InlineInv, GamesSound
<1>3. DueSound' /\ LaneSound'
  BY DEF InlineInv, DueSound, LaneSound
<1>4. ASSUME NEW i \in Tokens PROVE TapSound(i)'
  BY <1>1 DEF TapSound, Stays
<1>5. ASSUME NEW c \in Commands PROVE CommandSound(c)'
  <2>1. hand'[c] = hand[c] /\ hand[c] \in Hands /\ CommandSound(c) /\ (work'[Chat] = c => work[Chat] = c /\ Grows)
    BY <1>1 DEF Jobs
  <2> QED
    BY <1>2, <2>1, CommandKept
<1>6. HandsSound'
  BY <1>1, <1>4, <1>5 DEF HandsSound
<1> QED
  BY <1>3, <1>6 DEF InlineInv

\* Hands that occur.
LEMMA HandsAre ==
  /\ NotBegun \in Hands /\ Over \in Hands
  /\ NotBegun.step = "no" /\ NotBegun.answer = "none" /\ Over.step = "over" /\ Over.answer = "none"
  /\ ~NotBegun.closes /\ ~Over.closes /\ ~[NotBegun EXCEPT !.step = "send"].closes
  /\ [NotBegun EXCEPT !.step = "send"] \in Hands /\ [NotBegun EXCEPT !.step = "wipe"] \in Hands
  /\ [NotBegun EXCEPT !.step = "send"].step = "send" /\ [NotBegun EXCEPT !.step = "wipe"].step = "wipe"
BY DEF NotBegun, Over, Hands, Steps

LEMMA HandMoves ==
  ASSUME NEW h \in Hands, NEW s \in Steps
  PROVE  LET n == [h EXCEPT !.step = s]
         IN  n \in Hands /\ n.step = s /\ n.game = h.game /\ n.rev = h.rev /\ n.first = h.first
             /\ n.answer = h.answer /\ n.closes = h.closes
BY DEF Hands

LEMMA HandCloses ==
  ASSUME NEW h \in Hands, NEW b \in BOOLEAN
  PROVE  LET n == [h EXCEPT !.closes = b] IN n \in Hands /\ n.step = h.step /\ n.answer = h.answer
BY DEF Hands

\* The invariant, part by part.
LEMMA InvGives ==
  ASSUME InlineInv
  PROVE  /\ StoreSound /\ GamesSound /\ LaneSound /\ DueSound
         /\ hand \in [Jobs \cup Resets -> Hands] /\ applied \subseteq Tokens
         /\ \A i \in Tokens : TapSound(i)
         /\ \A c \in Commands : CommandSound(c)
         /\ \A i \in Tokens : i \notin due /\ i \notin Commands \cup Resets
         /\ \A c \in Commands : c \notin Tokens \cup Resets
         /\ \A r \in Resets : r \notin Jobs
         /\ \A j \in Jobs \cup Resets : hand[j].step # "no" => j \notin due
         /\ None \notin Jobs
<1>1. DueSound
  BY DEF InlineInv
<1>2. NotBegun.step = "no"
  BY DEF NotBegun
<1> QED
  BY <1>1, <1>2 DEF InlineInv, HandsSound, DueSound, Jobs

\* A tap on its way, its token as it was.
OnTheWay == {"send", "sendLate", "wait", "run", "stale", "rejected", "dropped"}

LEMMA TapMoves ==
  ASSUME InlineInv, NEW id \in Tokens, NEW h \in Hands, hand' = [hand EXCEPT ![id] = h],
         hand[id].step \in OnTheWay, h.step \in OnTheWay, h.closes = hand[id].closes, made' = made, tokens' = tokens, applied' = applied
  PROVE  TapSound(id)'
<1>1. TapSound(id) /\ hand'[id] = h
  BY InvGives DEF Jobs
<1> QED
  BY <1>1 DEF TapSound, OnTheWay, Steps

LEMMA TapKeeps ==
  ASSUME InlineInv, NEW id \in Tokens, Tap(id)
  PROVE  InlineInv'
<1> DEFINE h == [NotBegun EXCEPT !.step = "send"]
<1>1. /\ Consume(id, made[id].user) /\ hand' = [hand EXCEPT ![id] = h] /\ hand[id].step \in {"no", "over", "dropped"}
      /\ game' = game /\ menu' = menu /\ due' = due /\ lane' = lane /\ work' = work /\ applied' = applied
  BY DEF Tap, lanes
<1>2. h \in Hands /\ h.step = "send" /\ ~h.closes
  BY HandsAre
<1> HIDE DEF h
<1>3. /\ StoreSound' /\ made' = made /\ \A i \in Tokens \ {id} : Stays(i)
      /\ tokens[id].here /\ ~tokens[id].used /\ tokens'[id].used /\ tokens'[id].result = tokens[id].result
  BY <1>1, ConsumeKeeps, InvGives
<1>4. TapSound(id) /\ hand \in [Jobs \cup Resets -> Hands] /\ id \in Jobs \cup Resets /\ id \notin due
  BY InvGives DEF Jobs
<1>5. hand[id].step = "no" /\ tokens[id].result = "none" /\ id \notin applied
  BY <1>3, <1>4 DEF TapSound
<1>6. made'[id] # NotMade
  BY <1>3, InvGives DEF StoreSound, Kept
<1>7. hand'[id] = h
  BY <1>1, <1>4
<1>8. TapSound(id)'
  BY <1>1, <1>2, <1>3, <1>5, <1>6, <1>7 DEF TapSound, Steps
<1>9. GamesSound' /\ Grows
  BY <1>1, GamesSame, InvGives
<1>10. work' \in [{Chat} -> Jobs \cup {None}]
  BY <1>1, InvGives DEF LaneSound
<1>11. LaneSound'
  BY <1>1, <1>2, <1>4, <1>5, <1>10, LaneQuiet, InvGives
<1>12. applied' \subseteq Tokens /\ id \notin Commands
  BY <1>1, InvGives
<1> QED
  BY <1>1, <1>2, <1>3, <1>4, <1>8, <1>9, <1>11, <1>12, StepBy

\* The store is not touched.
LEMMA StoreSame ==
  ASSUME StoreSound, UNCHANGED store
  PROVE  StoreSound' /\ made' = made /\ tokens' = tokens /\ \A i \in Tokens : Stays(i)
<1>1. made' = made /\ tokens' = tokens /\ order' = order /\ owned' = owned
  BY DEF store
<1> QED
  BY <1>1 DEF StoreSound, StoreAgrees, Kept, Stays

LEMMA QueueKeeps ==
  ASSUME InlineInv, NEW id \in Tokens, Queue(id)
  PROVE  InlineInv'
<1> DEFINE h == [hand[id] EXCEPT !.step = "wait"]
<1>1. hand \in [Jobs \cup Resets -> Hands] /\ id \in Jobs /\ id \notin due /\ id \notin Commands /\ applied \subseteq Tokens
  BY InvGives DEF Jobs
<1>2. /\ UNCHANGED store /\ game' = game /\ menu' = menu /\ due' = due /\ applied' = applied
      /\ hand[id].step \in {"send", "sendLate"} /\ Lanes!Accept(Chat, id)
      /\ hand' = [hand EXCEPT ![id] = h]
  BY <1>1 DEF Queue
<1>3. h \in Hands /\ h.step = "wait" /\ h.closes = hand[id].closes
  <2>1. hand[id] \in Hands /\ "wait" \in Steps
    BY <1>1 DEF Steps
  <2> QED
    BY <2>1, HandMoves
<1> HIDE DEF h
<1>4. StoreSound' /\ made' = made /\ tokens' = tokens /\ \A i \in Tokens : Stays(i)
  BY <1>2, StoreSame, InvGives
<1>5. TapSound(id)'
  BY <1>2, <1>3, <1>4, TapMoves DEF OnTheWay
<1>6. GamesSound' /\ Grows
  BY <1>2, GamesSame, InvGives
<1>7. LaneSound' /\ work' = work
  BY <1>1, <1>2, <1>3, LaneAccept, InvGives
<1> QED
  BY <1>1, <1>2, <1>3, <1>4, <1>5, <1>6, <1>7, StepBy

LEMMA QueueLateKeeps ==
  ASSUME InlineInv, NEW id \in Tokens, QueueLate(id)
  PROVE  InlineInv'
<1> DEFINE h == [hand[id] EXCEPT !.step = "dropped"]
<1>1. hand \in [Jobs \cup Resets -> Hands] /\ id \in Jobs /\ id \notin due /\ id \notin Commands /\ applied \subseteq Tokens
  BY InvGives DEF Jobs
<1>2. /\ UNCHANGED store /\ game' = game /\ menu' = menu /\ due' = due /\ applied' = applied
      /\ hand[id].step = "sendLate" /\ lane' = lane /\ work' = work
      /\ hand' = [hand EXCEPT ![id] = h]
  BY <1>1 DEF QueueLate, lanes
<1>3. h \in Hands /\ h.step = "dropped" /\ h.closes = hand[id].closes
  <2>1. hand[id] \in Hands /\ "dropped" \in Steps
    BY <1>1 DEF Steps
  <2> QED
    BY <2>1, HandMoves
<1> HIDE DEF h
<1>4. StoreSound' /\ made' = made /\ tokens' = tokens /\ \A i \in Tokens : Stays(i)
  BY <1>2, StoreSame, InvGives
<1>5. TapSound(id)'
  BY <1>2, <1>3, <1>4, TapMoves DEF OnTheWay
<1>6. GamesSound' /\ Grows
  BY <1>2, GamesSame, InvGives
<1>7. work' \in [{Chat} -> Jobs \cup {None}]
  BY <1>2, InvGives DEF LaneSound
<1>8. LaneSound'
  BY <1>1, <1>2, <1>3, <1>7, LaneQuiet, InvGives
<1> QED
  BY <1>1, <1>2, <1>3, <1>4, <1>5, <1>6, <1>8, StepBy

LEMMA RefuseTapKeeps ==
  ASSUME InlineInv, NEW id \in Tokens, RefuseTap(id)
  PROVE  InlineInv'
<1>1. /\ hand \in [Jobs \cup Resets -> Hands] /\ id \in Jobs /\ id \notin due /\ id \notin Commands
      /\ applied \subseteq Tokens /\ TapSound(id)
  BY InvGives DEF Jobs
<1>2. /\ Release(id) /\ game' = game /\ menu' = menu /\ due' = due /\ applied' = applied
      /\ hand[id].step \in {"send", "sendLate"} /\ lane' = lane /\ work' = work
      /\ hand' = [hand EXCEPT ![id] = NotBegun]
  BY <1>1 DEF RefuseTap, lanes
<1>3. NotBegun \in Hands /\ NotBegun.step = "no" /\ ~NotBegun.closes
  BY HandsAre
<1>4. /\ StoreSound' /\ made' = made /\ \A i \in Tokens \ {id} : Stays(i)
      /\ tokens'[id].here = tokens[id].here /\ tokens'[id].result = tokens[id].result
      /\ tokens[id].result = "none" => ~tokens'[id].used
  BY <1>2, ReleaseKeeps, InvGives
<1>5. hand'[id] = NotBegun
  BY <1>1, <1>2
<1>6. TapSound(id)'
  BY <1>1, <1>2, <1>3, <1>4, <1>5 DEF TapSound, Steps
<1>7. GamesSound' /\ Grows
  BY <1>2, GamesSame, InvGives
<1>8. work' \in [{Chat} -> Jobs \cup {None}]
  BY <1>2, InvGives DEF LaneSound
<1>9. LaneSound'
  BY <1>1, <1>2, <1>3, <1>8, LaneQuiet, InvGives
<1> QED
  BY <1>1, <1>2, <1>3, <1>4, <1>6, <1>7, <1>9, StepBy

LEMMA BeginKeeps ==
  ASSUME InlineInv, NEW j \in Jobs, Begin(j)
  PROVE  InlineInv'
<1> DEFINE h == [hand[j] EXCEPT !.step = "run"]
<1>1. hand \in [Jobs \cup Resets -> Hands] /\ applied \subseteq Tokens /\ hand[j] \in Hands
  BY InvGives
<1>2. /\ UNCHANGED store /\ game' = game /\ menu' = menu /\ due' = due /\ applied' = applied
      /\ Lanes!Start(Chat) /\ j = Head(lane[Chat])
      /\ hand' = [hand EXCEPT ![j] = h]
  BY <1>1 DEF Begin
<1>3. h \in Hands /\ h.step = "run" /\ h.answer = hand[j].answer /\ h.closes = hand[j].closes
  <2>1. "run" \in Steps
    BY DEF Steps
  <2> QED
    BY <1>1, <2>1, HandMoves
<1> HIDE DEF h
<1>4. StoreSound' /\ made' = made /\ tokens' = tokens /\ \A i \in Tokens : Stays(i)
  BY <1>2, StoreSame, InvGives
<1>5. GamesSound' /\ Grows
  BY <1>2, GamesSame, InvGives
<1>6. LaneSound' /\ work'[Chat] = j /\ hand[j].step = "wait"
  BY <1>1, <1>2, <1>3, LaneStart, InvGives
<1>7. j \notin due
  BY <1>6, InvGives
<1>8. ASSUME j \in Tokens PROVE TapSound(j)'
  BY <1>2, <1>3, <1>4, <1>6, <1>8, TapMoves DEF OnTheWay
<1>9. ASSUME j \in Commands PROVE CommandSound(j)'
  <2>1. hand[j].answer = "none"
    BY <1>6, <1>9, InvGives DEF CommandSound
  <2>2. hand'[j] = h
    BY <1>1, <1>2
  <2> QED
    BY <1>3, <2>1, <2>2 DEF CommandSound
<1> QED
  BY <1>1, <1>2, <1>3, <1>4, <1>5, <1>6, <1>7, <1>8, <1>9, StepBy

LEMMA PlayKeeps ==
  ASSUME InlineInv, NEW id \in Tokens, Play(id)
  PROVE  InlineInv'
<1> DEFINE g == made[id].game
<1>1. /\ hand \in [Jobs \cup Resets -> Hands] /\ id \in Jobs /\ id \notin due /\ id \notin Commands
      /\ applied \subseteq Tokens /\ TapSound(id) /\ hand[id] \in Hands /\ game \in [Games -> Games0]
  BY InvGives DEF Jobs, GamesSound
<1>2. /\ UNCHANGED store /\ menu' = menu /\ due' = due /\ applied' = applied \cup {id}
      /\ hand[id].step = "run" /\ lane' = lane /\ work' = work /\ Playing(g)
  BY <1>1 DEF Play, Accepts, lanes
<1>3. PICK next \in After(g) :
        /\ game' = [game EXCEPT ![g] = next]
        /\ hand' = [hand EXCEPT ![id].step = "won", ![id].game = g, ![id].closes = next.stage = "closed"]
  BY DEF Play
<1>4. g \in Games /\ made[id] # NotMade
  BY <1>1, <1>2, InvGives DEF TapSound, StoreSound, Purposes
<1> DEFINE h == [[[hand[id] EXCEPT !.step = "won"] EXCEPT !.game = g] EXCEPT !.closes = next.stage = "closed"]
<1>5. h \in Hands /\ h.step = "won" /\ hand' = [hand EXCEPT ![id] = h]
  BY <1>1, <1>3, <1>4 DEF Hands, Steps
<1> HIDE DEF h
<1>6. StoreSound' /\ made' = made /\ tokens' = tokens /\ \A i \in Tokens : Stays(i)
  BY <1>2, StoreSame, InvGives
<1> HIDE DEF g
<1>7. next \in Games0 /\ next.rev = game[g].rev + 1 /\ Open(g)
  BY <1>1, <1>2, <1>4, AfterSound DEF Playing, Open
<1>8. GamesSound' /\ Grows
  BY <1>2, <1>3, <1>4, <1>7, GoesOn, InvGives
<1>9. work' \in [{Chat} -> Jobs \cup {None}]
  BY <1>2, InvGives DEF LaneSound
<1>10. LaneSound'
  BY <1>1, <1>2, <1>5, <1>9, LaneQuiet, InvGives
<1>11. hand'[id] = h
  BY <1>1, <1>5
<1>12. TapSound(id)'
  BY <1>1, <1>2, <1>4, <1>5, <1>6, <1>11 DEF TapSound, Steps
<1>13. applied' \subseteq Tokens /\ \A i \in Tokens \ {id} : i \in applied' <=> i \in applied
  BY <1>1, <1>2
<1>14. work'[Chat] \in {work[Chat], None, id} /\ due' \subseteq due /\ id \notin due'
  BY <1>1, <1>2
<1> QED
  BY <1>1, <1>2, <1>5, <1>6, <1>8, <1>10, <1>12, <1>13, <1>14, StepBy

LEMMA RefuseKeeps ==
  ASSUME InlineInv, NEW id \in Tokens, Refuse(id)
  PROVE  InlineInv'
<1>1. hand \in [Jobs \cup Resets -> Hands] /\ id \in Jobs /\ id \notin due /\ id \notin Commands /\ applied \subseteq Tokens
  BY InvGives DEF Jobs
<1>2. PICK s \in {"stale", "rejected"} : hand' = [hand EXCEPT ![id].step = s]
  BY Zenon DEF Refuse
<1> DEFINE h == [hand[id] EXCEPT !.step = s]
<1>3. /\ UNCHANGED store /\ game' = game /\ menu' = menu /\ due' = due /\ applied' = applied
      /\ hand[id].step = "run" /\ lane' = lane /\ work' = work
      /\ hand' = [hand EXCEPT ![id] = h]
  BY <1>1, <1>2 DEF Refuse, lanes
<1>4. h \in Hands /\ h.step = s /\ h.closes = hand[id].closes
  <2>1. hand[id] \in Hands /\ s \in Steps
    BY <1>1 DEF Steps
  <2> QED
    BY <2>1, HandMoves
<1> HIDE DEF h
<1>5. StoreSound' /\ made' = made /\ tokens' = tokens /\ \A i \in Tokens : Stays(i)
  BY <1>3, StoreSame, InvGives
<1>6. TapSound(id)'
  BY <1>3, <1>4, <1>5, TapMoves DEF OnTheWay
<1>7. GamesSound' /\ Grows
  BY <1>3, GamesSame, InvGives
<1>8. work' \in [{Chat} -> Jobs \cup {None}]
  BY <1>3, InvGives DEF LaneSound
<1>9. LaneSound'
  BY <1>1, <1>3, <1>4, <1>8, LaneQuiet, InvGives
<1> QED
  BY <1>1, <1>3, <1>4, <1>5, <1>6, <1>7, <1>9, StepBy

LEMMA ReportKeeps ==
  ASSUME InlineInv, NEW id \in Tokens, Report(id)
  PROVE  InlineInv'
<1> DEFINE p == [hand[id] EXCEPT !.step = "purge"]
<1>1. /\ hand \in [Jobs \cup Resets -> Hands] /\ id \in Jobs /\ id \notin due /\ id \notin Commands
      /\ applied \subseteq Tokens /\ TapSound(id) /\ hand[id] \in Hands
  BY InvGives DEF Jobs
<1>2. /\ SetResult(id, Outcome(id)) /\ game' = game /\ menu' = menu /\ due' = due /\ applied' = applied
      /\ hand[id].step \in {"won", "stale", "rejected"}
      /\ \/ hand' = [hand EXCEPT ![id] = p] /\ hand[id].closes /\ UNCHANGED lanes
         \/ hand' = [hand EXCEPT ![id] = Over] /\ Ends(id)
  BY <1>1 DEF Report
<1>3. p \in Hands /\ p.step = "purge" /\ Over \in Hands /\ Over.step = "over" /\ ~Over.closes
  <2>1. "purge" \in Steps
    BY DEF Steps
  <2> QED
    BY <1>1, <2>1, HandMoves, HandsAre
<1>4. PICK h \in {p, Over} : hand' = [hand EXCEPT ![id] = h] /\ (h.step = "purge" => hand[id].step = "won")
                             /\ (h.closes => h.step = "purge")
  BY <1>1, <1>2, <1>3 DEF TapSound
<1>5. h \in Hands /\ h.step \in {"purge", "over"}
  BY <1>3, <1>4
<1>6. hand'[id] = h
  BY <1>1, <1>4
<1> HIDE DEF p
<1>7. Outcome(id) \in Results \ {"none"} /\ (Outcome(id) = "confirmed" <=> hand[id].step = "won")
  BY <1>2 DEF Outcome, Results
<1>8. /\ StoreSound' /\ made' = made /\ \A i \in Tokens \ {id} : Stays(i)
      /\ tokens'[id].here = tokens[id].here
      /\ tokens[id].here => tokens'[id].result = Outcome(id) /\ tokens'[id].used = tokens[id].used
  BY <1>2, <1>7, SetResultKeeps, InvGives
<1>9. /\ lane' = lane /\ work' \in [{Chat} -> Jobs \cup {None}] /\ work'[Chat] \in {work[Chat], None}
  BY <1>2, EndsKeeps, InvGives DEF lanes, LaneSound
<1>10. GamesSound' /\ Grows
  BY <1>2, GamesSame, InvGives
<1>11. LaneSound'
  BY <1>1, <1>2, <1>4, <1>5, <1>9, LaneQuiet, InvGives
<1>12. TapSound(id)'
  <2>1. made[id] # NotMade /\ (id \in applied <=> hand[id].step = "won")
    BY <1>1, <1>2 DEF TapSound
  <2>2. tokens[id].here => tokens[id].used
    BY <1>1, <1>2 DEF TapSound
  <2> QED
    BY <1>2, <1>4, <1>5, <1>6, <1>7, <1>8, <2>1, <2>2 DEF TapSound, Steps
<1> QED
  BY <1>1, <1>2, <1>4, <1>5, <1>8, <1>9, <1>10, <1>11, <1>12, StepBy

\* A job that has just ended has only its tap to account for.
LEMMA PurgeKeeps ==
  ASSUME InlineInv, NEW j \in Jobs, Purge(j)
  PROVE  InlineInv'
<1>1. /\ hand \in [Jobs \cup Resets -> Hands] /\ applied \subseteq Tokens /\ hand[j].step = "purge"
      /\ hand' = [hand EXCEPT ![j] = Over] /\ Ends(j)
      /\ game' = game /\ menu' = menu /\ due' = due /\ applied' = applied
  BY InvGives DEF Purge
<1>2. j \notin due
  BY <1>1, InvGives
<1>3. Over \in Hands /\ Over.step = "over" /\ ~Over.closes
  BY HandsAre
<1>4. /\ StoreSound' /\ made' = made
      /\ \A i \in Tokens : tokens'[i] = tokens[i] \/ ~tokens'[i].here
  BY InvGives, DeleteKeeps DEF Purge, InvalidateGame
<1>5. \A i \in Tokens : Stays(i)
  BY <1>4, StaysSame
<1>6. /\ lane' = lane /\ work' \in [{Chat} -> Jobs \cup {None}] /\ work'[Chat] \in {work[Chat], None}
  BY <1>1, EndsKeeps, InvGives
<1>7. GamesSound' /\ Grows
  BY <1>1, GamesSame, InvGives
<1>8. LaneSound'
  BY <1>1, <1>3, <1>6, LaneQuiet, InvGives
<1>9. hand'[j] = Over
  BY <1>1
<1>10. ASSUME j \in Tokens PROVE TapSound(j)'
  <2>1. TapSound(j) /\ Stays(j)
    BY <1>5, <1>10, InvGives
  <2> QED
    BY <1>1, <1>3, <1>4, <1>9, <2>1 DEF TapSound, Stays, Steps
<1>11. ASSUME j \in Commands PROVE CommandSound(j)'
  BY <1>3, <1>9 DEF CommandSound
<1> QED
  BY <1>1, <1>2, <1>3, <1>4, <1>5, <1>6, <1>7, <1>8, <1>10, <1>11, StepBy

LEMMA DeliverKeeps ==
  ASSUME InlineInv, NEW c \in Commands, Deliver(c)
  PROVE  InlineInv'
<1> DEFINE h == [hand[c] EXCEPT !.step = "wait"]
<1>1. /\ hand \in [Jobs \cup Resets -> Hands] /\ c \in Jobs /\ c \notin Tokens /\ applied \subseteq Tokens
      /\ CommandSound(c)
  BY InvGives DEF Jobs
<1>2. /\ UNCHANGED store /\ game' = game /\ menu' = menu /\ c \in due /\ due' = due \ {c} /\ applied' = applied
      /\ Lanes!Accept(Chat, c) /\ hand' = [hand EXCEPT ![c] = h]
  BY <1>1 DEF Deliver, MayCome
<1>3. hand[c] = NotBegun
  BY <1>2, InvGives DEF DueSound
<1>4. h \in Hands /\ h.step = "wait" /\ h.answer = "none"
  <2>1. hand[c] \in Hands /\ "wait" \in Steps
    BY <1>1 DEF Steps
  <2> QED
    BY <1>3, <2>1, HandMoves, HandsAre
<1> HIDE DEF h
<1>5. StoreSound' /\ made' = made /\ tokens' = tokens /\ \A i \in Tokens : Stays(i)
  BY <1>2, StoreSame, InvGives
<1>6. GamesSound' /\ Grows
  BY <1>2, GamesSame, InvGives
<1>7. hand[c].step = "no" /\ hand'[c] = h
  BY <1>1, <1>2, <1>3, HandsAre
<1>8. LaneSound' /\ work' = work
  BY <1>1, <1>2, <1>4, <1>7, LaneAccept, InvGives
<1>9. CommandSound(c)'
  BY <1>4, <1>7 DEF CommandSound
<1> QED
  BY <1>1, <1>2, <1>4, <1>5, <1>6, <1>8, <1>9, StepBy

\* A command that is concluded: whatever it made of the games, the lane is let
\* go unless it went before.
LEMMA ConcludeKeeps ==
  ASSUME InlineInv, NEW c \in Commands, NEW answer \in {"none", "stale"}, Conclude(c, answer),
         hand[c].step \in {"run", "act"}, GamesSound', Grows \/ work'[Chat] = None
  PROVE  InlineInv'
<1> DEFINE h == [Over EXCEPT !.answer = answer]
<1>1. hand \in [Jobs \cup Resets -> Hands] /\ c \in Jobs /\ c \notin Tokens /\ applied \subseteq Tokens /\ c \notin due
  BY InvGives DEF Jobs
<1>2. /\ UNCHANGED store /\ due' = due /\ applied' = applied
      /\ Ends(c) /\ hand' = [hand EXCEPT ![c] = h]
  BY DEF Conclude
<1>3. h \in Hands /\ h.step = "over"
  BY DEF Over, NotBegun, Hands, Steps
<1> HIDE DEF h
<1>4. StoreSound' /\ made' = made /\ tokens' = tokens /\ \A i \in Tokens : Stays(i)
  BY <1>2, StoreSame, InvGives
<1>5. /\ lane' = lane /\ work' \in [{Chat} -> Jobs \cup {None}] /\ work'[Chat] \in {work[Chat], None}
  BY <1>2, EndsKeeps, InvGives
<1>6. hand'[c] = h
  BY <1>1, <1>2
<1>7. LaneSound'
  BY <1>1, <1>2, <1>3, <1>5, LaneQuiet, InvGives
<1>8. CommandSound(c)'
  BY <1>3, <1>6 DEF CommandSound
<1> QED
  BY <1>1, <1>2, <1>3, <1>4, <1>5, <1>7, <1>8, StepBy

LEMMA FindNoneKeeps ==
  ASSUME InlineInv, NEW c \in Commands, FindNone(c)
  PROVE  InlineInv'
<1>1. Conclude(c, "none") /\ game' = game /\ hand[c].step = "run" /\ menu' = menu
  BY DEF FindNone, Conclude
<1>2. GamesSound' /\ Grows
  BY <1>1, GamesSame, InvGives
<1> QED
  BY <1>1, <1>2, ConcludeKeeps

LEMMA ActBarredKeeps ==
  ASSUME InlineInv, NEW c \in Commands, ActBarred(c)
  PROVE  InlineInv'
<1>1. Conclude(c, "none") /\ game' = game /\ hand[c].step = "act" /\ menu' = menu
  BY DEF ActBarred, Conclude
<1>2. GamesSound' /\ Grows
  BY <1>1, GamesSame, InvGives
<1> QED
  BY <1>1, <1>2, ConcludeKeeps

\* A new game, only while the command has the lane.
LEMMA NovoKeeps ==
  ASSUME InlineInv, NEW c \in Commands, Novo(c)
  PROVE  InlineInv'
<1>1. Conclude(c, "none") /\ hand[c].step = "run" /\ menu' = menu /\ Ends(c)
  BY DEF Novo, Conclude
<1>2. CASE Disowned(c) \/ ~Vacant
  <2>1. GamesSound' /\ Grows
    BY <1>1, <1>2, GamesSame, InvGives DEF Novo
  <2> QED
    BY <1>1, <2>1, ConcludeKeeps
<1>3. CASE ~Disowned(c) /\ Vacant
  <2>1. PICK g \in Games : game[g] = Unborn /\ game' = [game EXCEPT ![g].stage = "lobby"]
    BY <1>3 DEF Novo
  <2>2. GamesSound'
    BY <1>1, <1>3, <2>1, NovoSound, InvGives
  <2>3. work'[Chat] = None
    BY <1>1, <1>3, EndsKeeps, InvGives
  <2> QED
    BY <1>1, <2>2, <2>3, ConcludeKeeps
<1> QED
  BY <1>2, <1>3

\* What is found is noted with its revision, and with the first one unless
\* this is the second time.
LEMMA FindKeeps ==
  ASSUME InlineInv, NEW c \in Commands, Find(c)
  PROVE  InlineInv'
<1>1. /\ hand \in [Jobs \cup Resets -> Hands] /\ c \in Jobs /\ c \notin Tokens /\ applied \subseteq Tokens
      /\ CommandSound(c) /\ hand[c] \in Hands /\ game \in [Games -> Games0]
  BY InvGives DEF Jobs, GamesSound
<1>2. PICK g \in Games :
        /\ Open(g)
        /\ hand' = [hand EXCEPT ![c].step = "act", ![c].game = g, ![c].rev = game[g].rev,
                                ![c].first = IF hand[c].answer = "again" THEN @ ELSE game[g].rev]
  BY DEF Find
<1>3. PICK first : first = IF hand[c].answer = "again" THEN hand[c].first ELSE game[g].rev
  OBVIOUS
<1> DEFINE h == [step |-> "act", game |-> g, rev |-> game[g].rev, first |-> first, answer |-> hand[c].answer,
                closes |-> hand[c].closes]
<1>4. game[g].rev \in Nat /\ hand[c].first \in Nat /\ first \in Nat
  BY <1>1, <1>3 DEF Games0, Hands
<1>5. hand' = [hand EXCEPT ![c] = h]
  <2>1. PICK x : x = hand[c] /\ x \in Hands
    BY <1>1
  <2> DEFINE rev == game[g].rev
             e1 == [x EXCEPT !.step = "act"]
             e2 == [e1 EXCEPT !.game = g]
             e3 == [e2 EXCEPT !.rev = rev]
             e == [e3 EXCEPT !.first = first]
  <2>2. hand' = [hand EXCEPT ![c] = e]
    BY <1>1, <1>2, <1>3, <2>1 DEF Hands
  <2>3. x = [step |-> x.step, game |-> x.game, rev |-> x.rev, first |-> x.first, answer |-> x.answer, closes |-> x.closes]
    BY <2>1 DEF Hands
  <2>4. h = [step |-> "act", game |-> g, rev |-> rev, first |-> first, answer |-> x.answer, closes |-> x.closes]
    BY <2>1
  <2> HIDE DEF rev, h
  <2>5. e1 = [step |-> "act", game |-> x.game, rev |-> x.rev, first |-> x.first, answer |-> x.answer, closes |-> x.closes]
    BY <2>3
  <2> HIDE DEF e1
  <2>6. e2 = [step |-> "act", game |-> g, rev |-> x.rev, first |-> x.first, answer |-> x.answer, closes |-> x.closes]
    BY <2>5
  <2> HIDE DEF e2
  <2>7. e3 = [step |-> "act", game |-> g, rev |-> rev, first |-> x.first, answer |-> x.answer, closes |-> x.closes]
    BY <2>6
  <2> HIDE DEF e3
  <2>8. e = [step |-> "act", game |-> g, rev |-> rev, first |-> first, answer |-> x.answer, closes |-> x.closes]
    BY <2>7
  <2> HIDE DEF e
  <2> QED
    BY <2>2, <2>4, <2>8
<1>6. h \in Hands /\ h.step = "act"
  BY <1>1, <1>4 DEF Hands, Steps
<1>7. /\ UNCHANGED store /\ game' = game /\ menu' = menu /\ due' = due /\ applied' = applied
      /\ lane' = lane /\ work' = work /\ hand[c].step = "run" /\ Verb(c) # "novo"
  BY DEF Find, lanes
<1>8. StoreSound' /\ made' = made /\ tokens' = tokens /\ \A i \in Tokens : Stays(i)
  BY <1>7, StoreSame, InvGives
<1>9. GamesSound' /\ Grows
  BY <1>7, GamesSame, InvGives
<1>10. c \notin due
  BY <1>7, InvGives, <1>1
<1>11. CommandSound(c)'
  <2> DEFINE a == game[g].rev
  <2>1. hand'[c] = h
    BY <1>1, <1>5
  <2>2. ASSUME ~Disowned(c), hand[c].answer = "again" PROVE first + 1 <= a
    <3>1. hand[c].first + 1 <= game[hand[c].game].rev /\ g = hand[c].game
      BY <1>1, <1>2, <1>7, <2>2 DEF CommandSound
    <3>2. first = hand[c].first
      BY <1>3, <2>2
    <3> QED
      BY <3>1, <3>2
  <2>3. hand[c].answer # "again" => first = a
    BY <1>3
  <2>4. Disowned(c)' <=> Disowned(c)
    BY <1>7 DEF Disowned
  <2>5. ~Disowned(c) => first + (IF hand[c].answer = "again" THEN 1 ELSE 0) <= a
    <3> HIDE DEF a
    <3>1. a \in Nat
      BY <1>4 DEF a
    <3>2. CASE hand[c].answer = "again"
      BY <2>2, <3>2
    <3>3. CASE hand[c].answer # "again"
      BY <2>3, <3>1, <3>3
    <3> QED
      BY <3>2, <3>3
  <2>6. a <= a /\ game'[g].rev = a
    BY <1>4, <1>7
  <2>7. h.step = "act" /\ h.game = g /\ h.rev = a /\ h.first = first /\ h.answer = hand[c].answer
    OBVIOUS
  <2>8. Verb(c) # "novo"
    BY <1>7
  <2> HIDE DEF a, h
  <2> QED
    BY <2>1, <2>4, <2>5, <2>6, <2>7, <2>8 DEF CommandSound
<1> HIDE DEF h
<1>12. work' \in [{Chat} -> Jobs \cup {None}]
  BY <1>7, InvGives DEF LaneSound
<1>13. LaneSound'
  BY <1>1, <1>5, <1>6, <1>7, <1>12, LaneQuiet, InvGives
<1> QED
  BY <1>1, <1>5, <1>6, <1>7, <1>8, <1>9, <1>10, <1>11, <1>13, StepBy

\* A command acts a second time only if the game it found has changed.
LEMMA ActLateKeeps ==
  ASSUME InlineInv, NEW c \in Commands, ActLate(c)
  PROVE  InlineInv'
<1>1. /\ hand \in [Jobs \cup Resets -> Hands] /\ c \in Jobs /\ c \notin Tokens /\ applied \subseteq Tokens
      /\ CommandSound(c) /\ hand[c] \in Hands /\ game \in [Games -> Games0]
  BY InvGives DEF Jobs, GamesSound
<1>2. hand[c].step = "act" /\ ~Barred(c) /\ Late(c) /\ game' = game
  BY DEF ActLate
<1>3. CASE ~TriesAgain(c)
  <2>1. Conclude(c, "stale") /\ menu' = menu
    BY <1>3 DEF ActLate, Conclude
  <2>2. GamesSound' /\ Grows
    BY <1>2, <2>1, GamesSame, InvGives
  <2> QED
    BY <1>2, <2>1, <2>2, ConcludeKeeps
<1>4. CASE TriesAgain(c)
  <2> DEFINE h == [[hand[c] EXCEPT !.step = "run"] EXCEPT !.answer = "again"]
             g == hand[c].game
             a == game[g].rev
  <2> HIDE DEF g, a
  <2>0. hand' = [hand EXCEPT ![c].step = "run", ![c].answer = "again"]
    BY <1>4 DEF ActLate
  <2>1. hand' = [hand EXCEPT ![c] = h]
    BY <1>1, <2>0 DEF Hands
  <2> USE DEF g, a
  <2>2. h \in Hands /\ h.step = "run" /\ h.answer = "again" /\ h.game = g /\ h.first = hand[c].first
    BY <1>1 DEF Hands, Steps
  <2> HIDE DEF h
  <2>3. /\ UNCHANGED store /\ menu' = menu /\ due' = due /\ applied' = applied /\ lane' = lane /\ work' = work
    BY <1>4 DEF ActLate, lanes
  <2>4. StoreSound' /\ made' = made /\ tokens' = tokens /\ \A i \in Tokens : Stays(i)
    BY <2>3, StoreSame, InvGives
  <2>5. GamesSound' /\ Grows
    BY <1>2, <2>3, GamesSame, InvGives
  <2>6. c \notin due /\ work' \in [{Chat} -> Jobs \cup {None}]
    BY <1>1, <1>2, <2>3, InvGives DEF LaneSound
  <2>7. LaneSound'
    BY <1>1, <1>2, <2>1, <2>2, <2>3, <2>6, LaneQuiet, InvGives
  <2>8. CommandSound(c)'
    <3>1. /\ g \in Games /\ hand[c].rev <= a /\ hand[c].first + 0 <= hand[c].rev /\ Open(g)
          /\ hand[c].rev # a
      BY <1>1, <1>2, <1>4 DEF CommandSound, Barred, TriesAgain, Late
    <3>2. hand[c].first \in Nat /\ hand[c].rev \in Nat /\ a \in Nat
      BY <1>1, <3>1 DEF Hands, Games0
    <3>3. hand[c].first + 1 <= a
      <4> HIDE DEF a
      <4> QED
        BY <3>1, <3>2
    <3>4. \A x \in Games : Open(x) => x = g
      BY <3>1, InvGives DEF GamesSound
    <3>5. hand'[c] = h /\ game' = game
      BY <1>1, <1>2, <2>1
    <3>6. \A x \in Games : Open(x)' <=> Open(x)
      BY <1>2 DEF Open
    <3>7. h.first + 1 <= game'[h.game].rev /\ h.game \in Games /\ \A x \in Games : Open(x)' => x = h.game
      BY <2>2, <3>1, <3>3, <3>4, <3>5, <3>6
    <3> QED
      BY <2>2, <3>5, <3>7 DEF CommandSound
  <2> QED
    BY <1>1, <2>1, <2>2, <2>3, <2>4, <2>5, <2>6, <2>7, <2>8, StepBy
<1> QED
  BY <1>3, <1>4

\* A command that is past its act has nothing more to account for.
LEMMA CleansUp ==
  ASSUME InlineInv, NEW c \in Commands, NEW h \in Hands, hand' = [hand EXCEPT ![c] = h],
         hand[c].step \in {"act", "purgeUser"}, h.step \in {"purgeUser", "purge", "over"},
         UNCHANGED lanes \/ Ends(c),
         StoreSound', \A i \in Tokens : Stays(i), GamesSound', Grows, due' = due, applied' = applied
  PROVE  InlineInv'
<1>1. hand \in [Jobs \cup Resets -> Hands] /\ c \in Jobs /\ c \notin Tokens /\ applied \subseteq Tokens /\ c \notin due
  BY InvGives DEF Jobs
<1>2. /\ lane' = lane /\ work' \in [{Chat} -> Jobs \cup {None}] /\ work'[Chat] \in {work[Chat], None}
  BY EndsKeeps, InvGives DEF lanes, LaneSound
<1>3. LaneSound'
  BY <1>1, <1>2, LaneQuiet, InvGives
<1>4. hand'[c] = h
  BY <1>1
<1>5. CommandSound(c)'
  BY <1>4 DEF CommandSound
<1> QED
  BY <1>1, <1>2, <1>3, <1>5, StepBy

LEMMA ActKeeps ==
  ASSUME InlineInv, NEW c \in Commands, Act(c)
  PROVE  InlineInv'
<1> DEFINE g == hand[c].game
           x == [hand[c] EXCEPT !.step = "purgeUser"]
           u(b) == [x EXCEPT !.closes = b]
           p == [hand[c] EXCEPT !.step = "purge"]
<1>1. /\ hand \in [Jobs \cup Resets -> Hands] /\ c \in Jobs
      /\ CommandSound(c) /\ hand[c] \in Hands /\ game \in [Games -> Games0]
  BY InvGives DEF Jobs, GamesSound
<1>2. hand[c].step = "act" /\ ~Barred(c) /\ UNCHANGED store /\ menu' = menu /\ due' = due /\ applied' = applied
  BY DEF Act
<1>3. PICK next \in Done(c) :
        /\ game' = [game EXCEPT ![g] = next]
        /\ CASE Verb(c) = "sair" -> hand' = [hand EXCEPT ![c].step = "purgeUser",
                                                         ![c].closes = next.stage = "closed"]
             [] Verb(c) = "cancelar" -> hand' = [hand EXCEPT ![c].step = "purge"]
             [] OTHER -> hand' = [hand EXCEPT ![c] = Over]
  BY DEF Act
<1>4. g \in Games /\ Verb(c) # "novo" /\ Open(g)
  BY <1>1, <1>2 DEF CommandSound, Barred
<1>5. next \in Games0 /\ next.rev = game[g].rev + 1
  BY <1>1, <1>3, <1>4, DoneSound
<1>6. GamesSound' /\ Grows
  BY <1>2, <1>3, <1>4, <1>5, GoesOn, InvGives
<1>7. \/ hand' = [hand EXCEPT ![c] = u(next.stage = "closed")]
      \/ hand' = [hand EXCEPT ![c] = p]
      \/ hand' = [hand EXCEPT ![c] = Over]
  BY <1>1, <1>3
<1>8. UNCHANGED lanes \/ Ends(c)
  BY DEF Act
<1>9. /\ \A b \in BOOLEAN : u(b) \in Hands /\ u(b).step = "purgeUser"
      /\ p \in Hands /\ p.step = "purge" /\ Over \in Hands /\ Over.step = "over"
  <2>1. "purge" \in Steps /\ "purgeUser" \in Steps
    BY DEF Steps
  <2>2. x \in Hands /\ x.step = "purgeUser" /\ p \in Hands /\ p.step = "purge"
    BY <1>1, <2>1, HandMoves
  <2> HIDE DEF x, p
  <2>3. \A b \in BOOLEAN : u(b) \in Hands /\ u(b).step = "purgeUser"
    BY <2>2, HandCloses
  <2> QED
    BY <2>2, <2>3, HandsAre
<1>10. PICK h \in {u(next.stage = "closed"), p, Over} : hand' = [hand EXCEPT ![c] = h]
  BY <1>7
<1>11. h \in Hands /\ h.step \in {"purgeUser", "purge", "over"}
  BY <1>9
<1>12. StoreSound' /\ \A i \in Tokens : Stays(i)
  BY <1>2, StoreSame, InvGives
<1> QED
  BY <1>2, <1>6, <1>8, <1>10, <1>11, <1>12, CleansUp

LEMMA PurgeUserKeeps ==
  ASSUME InlineInv, NEW c \in Commands, PurgeUser(c)
  PROVE  InlineInv'
<1> DEFINE p == [hand[c] EXCEPT !.step = "purge"]
<1>1. hand \in [Jobs \cup Resets -> Hands] /\ c \in Jobs /\ hand[c] \in Hands
  BY InvGives DEF Jobs
<1>2. hand[c].step = "purgeUser" /\ game' = game /\ menu' = menu /\ due' = due /\ applied' = applied
  BY DEF PurgeUser
<1>3. p \in Hands /\ p.step = "purge" /\ Over \in Hands /\ Over.step = "over"
  <2>1. "purge" \in Steps
    BY DEF Steps
  <2> QED
    BY <1>1, <2>1, HandMoves, HandsAre
<1>4. hand' = [hand EXCEPT ![c] = p] \/ hand' = [hand EXCEPT ![c] = Over]
  BY <1>1 DEF PurgeUser
<1>5. UNCHANGED lanes \/ Ends(c)
  BY DEF PurgeUser
<1>6. PICK h \in {p, Over} : hand' = [hand EXCEPT ![c] = h]
  BY <1>4
<1>7. h \in Hands /\ h.step \in {"purgeUser", "purge", "over"}
  BY <1>3
<1>8. /\ StoreSound' /\ made' = made
      /\ \A i \in Tokens : tokens'[i] = tokens[i] \/ ~tokens'[i].here
  BY InvGives, DeleteKeeps DEF PurgeUser, InvalidateUserGame
<1>9. \A i \in Tokens : Stays(i)
  BY <1>8, StaysSame
<1>10. GamesSound' /\ Grows
  BY <1>2, GamesSame, InvGives
<1> QED
  BY <1>2, <1>5, <1>6, <1>7, <1>8, <1>9, <1>10, CleansUp

-----------------------------------------------------------------------------
(* Resets, and steps outside the lane *)

\* What waited is dropped and what ran is disowned: nothing is left to relate
\* to the lane.
LEMMA RenewKeeps ==
  ASSUME InlineInv, NEW r \in Resets, Renew(r)
  PROVE  InlineInv'
<1> DEFINE wipe == [NotBegun EXCEPT !.step = "wipe"]
           New(j) == IF j = r THEN wipe
                     ELSE IF hand[j].step = "wait" THEN [hand[j] EXCEPT !.step = "dropped"]
                     ELSE IF hand[j].step = "send" THEN [hand[j] EXCEPT !.step = "sendLate"]
                     ELSE hand[j]
<1>1. /\ hand \in [Jobs \cup Resets -> Hands] /\ applied \subseteq Tokens
      /\ LaneSound /\ DueSound /\ r \notin Jobs /\ None \notin Jobs
  BY InvGives
<1>2. /\ UNCHANGED store /\ game' = game /\ menu' = menu /\ due' = due \ {r} /\ applied' = applied /\ r \in due
      /\ lane' = [lane EXCEPT ![Chat] = <<>>] /\ work' = [work EXCEPT ![Chat] = None]
      /\ hand' = [j \in Jobs \cup Resets |-> New(j)]
  BY <1>1 DEF Renew, MayCome, Lanes!Renew
<1>3. wipe \in Hands /\ wipe.step = "wipe"
  BY HandsAre
<1>4. \A j \in Jobs \cup Resets : hand[j] \in Hands
  BY <1>1
<1>5. \A j \in Jobs \cup Resets :
        /\ hand[j].step = "wait" /\ j # r => New(j) \in Hands /\ New(j).step = "dropped"
        /\ hand[j].step = "send" /\ j # r => New(j) \in Hands /\ New(j).step = "sendLate"
        /\ j # r => New(j).closes = hand[j].closes
        /\ hand[j].step \notin {"wait", "send"} /\ j # r => New(j) = hand[j]
        /\ j = r => New(j) = wipe
  <2>1. "dropped" \in Steps /\ "sendLate" \in Steps
    BY DEF Steps
  <2> HIDE DEF wipe
  <2> QED
    BY <1>4, <2>1, HandMoves
<1> HIDE DEF wipe, New
<1>6. hand' \in [Jobs \cup Resets -> Hands]
  <2>1. \A j \in Jobs \cup Resets : New(j) \in Hands
    BY <1>3, <1>4, <1>5
  <2> QED
    BY <1>2, <2>1
<1>7. \A j \in Jobs \cup Resets : hand'[j] = New(j)
  BY <1>2
<1>8. StoreSound' /\ made' = made /\ tokens' = tokens
  BY <1>2, StoreSame, InvGives
<1>9. GamesSound'
  BY <1>2, GamesSame, InvGives
<1>10. lane' \in [{Chat} -> Seq(Jobs)] /\ lane'[Chat] = <<>> /\ work' \in [{Chat} -> Jobs \cup {None}] /\ work'[Chat] = None
  BY <1>1, <1>2 DEF LaneSound
<1>11. \A j \in Jobs : hand'[j].step # "wait"
  BY <1>1, <1>5, <1>7
<1>12. LaneSound'
  BY <1>10, <1>11 DEF LaneSound
<1>13. DueSound'
  <2> SUFFICES ASSUME NEW c \in due' PROVE hand'[c] = NotBegun
    BY <1>1, <1>2 DEF DueSound
  <2>1. c \in due /\ c # r /\ c \in Jobs \cup Resets /\ hand[c] = NotBegun
    BY <1>1, <1>2 DEF DueSound, Jobs
  <2>2. hand[c].step = "no"
    BY <2>1, HandsAre
  <2> QED
    BY <1>5, <1>7, <2>1, <2>2
<1>14. ASSUME NEW i \in Tokens PROVE TapSound(i)'
  <2>1. TapSound(i) /\ i \in Jobs \cup Resets /\ i # r
    BY <1>1, InvGives DEF Jobs
  <2>2. \/ hand[i].step = "wait" /\ hand'[i].step = "dropped"
        \/ hand[i].step = "send" /\ hand'[i].step = "sendLate"
        \/ hand'[i].step = hand[i].step
    BY <1>5, <1>7, <2>1
  <2>3. hand'[i].closes = hand[i].closes
    BY <1>5, <1>7, <2>1
  <2> QED
    BY <1>2, <1>8, <2>1, <2>2, <2>3 DEF TapSound, Steps
<1>15. ASSUME NEW c \in Commands PROVE CommandSound(c)'
  <2>1. CommandSound(c) /\ c \in Jobs \cup Resets /\ c # r /\ c # None
    BY <1>1, InvGives DEF Jobs
  <2>2. Disowned(c)'
    BY <1>10, <2>1 DEF Disowned
  <2>3. hand'[c].step \in {"dropped", "sendLate"} \/ hand'[c] = hand[c]
    BY <1>5, <1>7, <2>1
  <2> QED
    BY <2>1, <2>2, <2>3 DEF CommandSound
<1>16. HandsSound'
  BY <1>1, <1>2, <1>6, <1>14, <1>15 DEF HandsSound
<1> QED
  BY <1>8, <1>9, <1>12, <1>13, <1>16 DEF InlineInv

\* A step of a reset after that.
LEMMA ResetGoesOn ==
  ASSUME InlineInv, NEW r \in Resets, NEW h \in Hands, hand' = [hand EXCEPT ![r] = h],
         hand[r].step \in {"wipe", "purge"}, h.step \in {"purge", "over"},
         StoreSound', \A i \in Tokens : Stays(i), GamesSound', Grows, due' = due, UNCHANGED lanes, applied' = applied
  PROVE  InlineInv'
<1>1. /\ hand \in [Jobs \cup Resets -> Hands] /\ applied \subseteq Tokens
      /\ r \notin Jobs /\ r \notin due /\ r \notin Tokens /\ r \notin Commands
  BY InvGives DEF Jobs
<1>2. lane' = lane /\ work' = work /\ work' \in [{Chat} -> Jobs \cup {None}]
  BY InvGives DEF lanes, LaneSound
<1>3. LaneSound'
  BY <1>1, <1>2, LaneQuiet, InvGives
<1> QED
  BY <1>1, <1>2, <1>3, StepBy

LEMMA WipeKeeps ==
  ASSUME InlineInv, NEW r \in Resets, Wipe(r)
  PROVE  InlineInv'
<1> DEFINE p == [hand[r] EXCEPT !.step = "purge"]
<1>1. hand \in [Jobs \cup Resets -> Hands] /\ hand[r] \in Hands
  BY InvGives
<1>2. hand[r].step = "wipe" /\ UNCHANGED store /\ menu' = menu /\ due' = due /\ UNCHANGED lanes /\ applied' = applied
  BY DEF Wipe
<1>3. p \in Hands /\ p.step = "purge" /\ Over \in Hands /\ Over.step = "over"
  <2>1. "purge" \in Steps
    BY DEF Steps
  <2> QED
    BY <1>1, <2>1, HandMoves, HandsAre
<1>4. \/ Wiped /\ hand' = [hand EXCEPT ![r] = p]
      \/ game' = game /\ hand' = [hand EXCEPT ![r] = Over]
  BY <1>1 DEF Wipe, Wiped
<1>5. PICK h \in {p, Over} : hand' = [hand EXCEPT ![r] = h]
  BY <1>4
<1>6. h \in Hands /\ h.step \in {"purge", "over"}
  BY <1>3
<1>7. GamesSound' /\ Grows
  BY <1>2, <1>4, GamesSame, WipeSound, InvGives
<1>8. StoreSound' /\ \A i \in Tokens : Stays(i)
  BY <1>2, StoreSame, InvGives
<1> QED
  BY <1>2, <1>5, <1>6, <1>7, <1>8, ResetGoesOn

LEMMA PurgeAllKeeps ==
  ASSUME InlineInv, NEW r \in Resets, PurgeAll(r)
  PROVE  InlineInv'
<1>1. /\ hand[r].step = "purge" /\ hand' = [hand EXCEPT ![r] = Over] /\ game' = game /\ menu' = menu
      /\ due' = due /\ UNCHANGED lanes /\ applied' = applied
  BY DEF PurgeAll
<1>2. PICK ids : Delete(ids)
  BY DEF PurgeAll
<1>3. /\ StoreSound' /\ made' = made
      /\ \A i \in Tokens : tokens'[i] = tokens[i] \/ ~tokens'[i].here
  BY <1>2, InvGives, DeleteKeeps
<1>4. \A i \in Tokens : Stays(i)
  BY <1>3, StaysSame
<1>5. GamesSound' /\ Grows
  BY <1>1, GamesSame, InvGives
<1>6. Over \in Hands /\ Over.step = "over"
  BY HandsAre
<1> QED
  BY <1>1, <1>3, <1>4, <1>5, <1>6, ResetGoesOn

LEMMA WebMoveKeeps ==
  ASSUME InlineInv, NEW g \in Games, WebMove(g)
  PROVE  InlineInv'
<1>1. /\ UNCHANGED store /\ menu' = menu /\ due' = due /\ lane' = lane /\ work' = work
      /\ hand' = hand /\ applied' = applied /\ Open(g)
  BY DEF WebMove, lanes
<1>2. PICK next \in After(g) : game' = [game EXCEPT ![g] = next]
  BY DEF WebMove
<1>3. next \in Games0 /\ next.rev = game[g].rev + 1
  BY <1>2, AfterSound, InvGives DEF GamesSound
<1>4. GamesSound' /\ Grows
  BY <1>1, <1>2, <1>3, GoesOn, InvGives
<1>5. StoreSound' /\ \A i \in Tokens : Stays(i)
  BY <1>1, StoreSame, InvGives
<1> QED
  BY <1>1, <1>4, <1>5, StepAside

\* Menus are only written by the worker that makes them.
LEMMA MenuSound ==
  ASSUME GamesSound, game' = game, NEW w \in InlineWorkers, NEW m \in Menus \cup {NoMenu}, menu' = [menu EXCEPT ![w] = m]
  PROVE  GamesSound' /\ Grows
<1>1. menu' \in [InlineWorkers -> Menus \cup {NoMenu}]
  BY DEF GamesSound
<1>2. \A g \in Games : game[g].rev \in Nat
  BY DEF GamesSound, Games0
<1>3. Grows
  BY <1>2 DEF Grows, Open
<1> QED
  BY <1>1, <1>3 DEF GamesSound, Open

LEMMA LookKeeps ==
  ASSUME InlineInv, NEW w \in InlineWorkers, NEW p \in Users, NEW g \in Games, Look(w, p, g)
  PROVE  InlineInv'
<1> DEFINE m == [user |-> p, game |-> g, rev |-> game[g].rev, left |-> Offers(g, p), ids |-> {}]
<1>1. /\ UNCHANGED store /\ game' = game /\ due' = due /\ lane' = lane /\ work' = work
      /\ hand' = hand /\ applied' = applied /\ menu' = [menu EXCEPT ![w] = m]
  BY DEF Look, lanes
<1>2. m \in Menus
  BY InvGives DEF Menus, Offers, GamesSound, Games0
<1> HIDE DEF m
<1>3. GamesSound' /\ Grows
  BY <1>1, <1>2, MenuSound, InvGives
<1>4. StoreSound' /\ \A i \in Tokens : Stays(i)
  BY <1>1, StoreSame, InvGives
<1> QED
  BY <1>1, <1>3, <1>4, StepAside

\* A new token has not been tapped.
LEMMA OfferKeeps ==
  ASSUME InlineInv, NEW w \in InlineWorkers, NEW id \in Tokens, Offer(w, id)
  PROVE  InlineInv'
<1> DEFINE m == menu[w]
<1>1. /\ game' = game /\ due' = due /\ lane' = lane /\ work' = work /\ hand' = hand /\ applied' = applied
  BY DEF Offer, lanes
<1>2. PICK verb \in m.left :
        /\ Create(id, m.user, m.game, m.rev, verb)
        /\ menu' = [menu EXCEPT ![w] = IF m.left = {verb} THEN NoMenu
                                      ELSE [m EXCEPT !.left = @ \ {verb}, !.ids = @ \cup {id}]]
  BY DEF Offer
<1>3. m \in Menus \cup {NoMenu}
  BY InvGives DEF GamesSound
<1>4. m \in Menus
  <2>1. NoMenu.left = {}
    BY DEF NoMenu
  <2> QED
    BY <1>2, <1>3, <2>1
<1>5. PICK l : l = m.left \ {verb}
  OBVIOUS
<1>6. PICK ids : ids = m.ids \cup {id}
  OBVIOUS
<1> DEFINE n == [user |-> m.user, game |-> m.game, rev |-> m.rev, left |-> l, ids |-> ids]
<1>7. [m EXCEPT !.left = @ \ {verb}, !.ids = @ \cup {id}] = n
  <2> DEFINE e1 == [m EXCEPT !.left = l]
             e2 == [e1 EXCEPT !.ids = ids]
  <2> HIDE DEF m
  <2>1. m = [user |-> m.user, game |-> m.game, rev |-> m.rev, left |-> m.left, ids |-> m.ids]
    BY <1>4 DEF Menus
  <2>2. [m EXCEPT !.left = @ \ {verb}, !.ids = @ \cup {id}] = e2
    BY <1>5, <1>6, <2>1
  <2>3. e1 = [user |-> m.user, game |-> m.game, rev |-> m.rev, left |-> l, ids |-> m.ids]
    BY <2>1
  <2> HIDE DEF e1
  <2>4. e2 = n
    BY <2>3
  <2> HIDE DEF e2
  <2> QED
    BY <2>2, <2>4
<1>8. n \in Menus
  BY <1>4, <1>5, <1>6 DEF Menus
<1>9. PICK k \in {NoMenu, n} : menu' = [menu EXCEPT ![w] = k]
  BY <1>2, <1>7
<1>10. GamesSound' /\ Grows
  <2>1. k \in Menus \cup {NoMenu}
    BY <1>8
  <2> HIDE DEF n
  <2> QED
    BY <1>1, <1>9, <2>1, MenuSound, InvGives
<1>11. /\ StoreSound' /\ made[id] = NotMade /\ made'[id] # NotMade
       /\ \A i \in Tokens \ {id} : made'[i] = made[i] /\ (tokens'[i] = tokens[i] \/ ~tokens'[i].here)
       /\ tokens'[id] = Created
  <2>1. m.user \in Users /\ m.game \in Games /\ m.rev \in Nat /\ verb \in {"draw", "play", "choose"}
    BY <1>2, <1>4 DEF Menus
  <2> HIDE DEF m
  <2> QED
    BY <1>2, <2>1, CreateKeeps, InvGives
<1>12. \A i \in Tokens \ {id} : Stays(i)
  BY <1>11, StaysSame
<1>13. TapSound(id)'
  <2>1. hand[id].step = "no" /\ id \notin applied /\ ~hand[id].closes
    BY <1>11, InvGives DEF TapSound
  <2>2. ~Created.used /\ Created.result = "none"
    BY DEF Created, Absent
  <2> QED
    BY <1>1, <1>11, <2>1, <2>2 DEF TapSound, Steps
<1> QED
  BY <1>1, <1>10, <1>11, <1>12, <1>13, StepAside

LEMMA TimeKeeps ==
  ASSUME InlineInv, NEW id \in Tokens, TimePasses(id)
  PROVE  InlineInv'
<1>1. /\ game' = game /\ menu' = menu /\ due' = due /\ lane' = lane /\ work' = work
      /\ hand' = hand /\ applied' = applied /\ Expire(id)
  BY DEF TimePasses, lanes
<1>2. StoreSound' /\ \A i \in Tokens : Stays(i)
  BY <1>1, ExpireKeeps, InvGives
<1>3. GamesSound' /\ Grows
  BY <1>1, GamesSame, InvGives
<1> QED
  BY <1>1, <1>2, <1>3, StepAside

-----------------------------------------------------------------------------
(* The invariant *)

LEMMA InlineInit ==
  ASSUME Init
  PROVE  InlineInv
<1>1. /\ made = [id \in Tokens |-> NotMade] /\ tokens = [id \in Tokens |-> Absent]
      /\ order = <<>> /\ owned = [p \in Users |-> <<>>]
      /\ menu = [w \in InlineWorkers |-> NoMenu] /\ due = Commands \cup Resets
      /\ lane = [c \in {Chat} |-> <<>>] /\ work = [c \in {Chat} |-> None]
      /\ hand = [j \in Jobs \cup Resets |-> NotBegun] /\ applied = {}
  BY DEF Init, TokensInit
<1>2. PICK g \in Games, p \in Starters, stage \in {"lobby", "turn"} :
        game = [h \in Games |-> IF h # g THEN Unborn
                                ELSE [stage |-> stage, rev |-> 0, seats |-> Seated,
                                      who |-> IF stage = "lobby" THEN None ELSE p]]
  BY DEF Init
<1>3. StoreSound
  <2>1. Kept = {}
    BY <1>1 DEF Kept, Absent
  <2>2. IsInjective(order) /\ ToSet(order) = {} /\ Len(order) = 0 /\ order \in Seq(Tokens)
    BY <1>1 DEF IsInjective, ToSet
  <2>3. \A S : Sift(order, S) = <<>>
    BY <1>1, SiftEmpty
  <2>4. \A q \in Users : owned[q] = <<>>
    BY <1>1
  <2>5. \A q \in Users : owned[q] = Sift(order, {id \in Tokens : made[id].user = q})
    BY <2>3, <2>4
  <2>6. \A q \in Users : Len(owned[q]) <= UserLimit
    BY <2>4
  <2>7. StoreAgrees
    <3>1. Len(order) <= GlobalLimit /\ ToSet(order) = Kept
      BY <2>1, <2>2
    <3> QED
      BY <2>2, <2>5, <2>6, <3>1, Zenon DEF StoreAgrees
  <2>8. Absent \in TokenStates
    BY DEF Absent, TokenStates, Results
  <2> QED
    BY <1>1, <2>1, <2>2, <2>7, <2>8 DEF StoreSound
<1>4. GamesSound
  <2>1. [stage |-> stage, rev |-> 0, seats |-> Seated, who |-> IF stage = "lobby" THEN None ELSE p] \in Games0
    BY DEF Games0
  <2>2. Unborn \in Games0 /\ Unborn.stage = "unborn"
    BY DEF Unborn, Games0
  <2>3. game \in [Games -> Games0]
    BY <1>2, <2>1, <2>2
  <2>4. \A h \in Games : Open(h) => h = g
    BY <1>2, <2>2 DEF Open
  <2> QED
    BY <1>1, <2>3, <2>4 DEF GamesSound
<1>5. LaneSound
  <2>1. \A j \in Jobs : hand[j].step = "no"
    BY <1>1, HandsAre
  <2>2. lane[Chat] = <<>> /\ lane \in [{Chat} -> Seq(Jobs)] /\ work \in [{Chat} -> Jobs \cup {None}]
    BY <1>1
  <2> QED
    BY <2>1, <2>2 DEF LaneSound
<1>6. DueSound
  BY <1>1 DEF DueSound, Jobs
<1>7. HandsSound
  <2>1. hand \in [Jobs \cup Resets -> Hands] /\ applied \subseteq Tokens
    BY <1>1, HandsAre
  <2>2. \A j \in Jobs : hand[j].step = "no" /\ hand[j].answer = "none" /\ ~hand[j].closes
    BY <1>1, HandsAre
  <2>3. \A i \in Tokens : TapSound(i)
    BY <1>1, <2>2 DEF TapSound, Jobs, Absent, Steps
  <2>4. \A c \in Commands : CommandSound(c)
    BY <2>2 DEF CommandSound, Jobs
  <2> QED
    BY <2>1, <2>3, <2>4 DEF HandsSound
<1> QED
  BY <1>3, <1>4, <1>5, <1>6, <1>7 DEF InlineInv

LEMMA InlineStep ==
  ASSUME InlineInv, [Next]_vars
  PROVE  InlineInv'
<1>1. ASSUME NEW g \in Games, WebMove(g) \/ \E w \in InlineWorkers, p \in Users : Look(w, p, g)
      PROVE  InlineInv'
  BY <1>1, WebMoveKeeps, LookKeeps
<1>2. ASSUME NEW w \in InlineWorkers, NEW id \in Tokens, Offer(w, id)
      PROVE  InlineInv'
  BY <1>2, OfferKeeps
<1>3. ASSUME NEW id \in Tokens, Tap(id) \/ Queue(id) \/ QueueLate(id) \/ RefuseTap(id) \/ TimePasses(id)
      PROVE  InlineInv'
  BY <1>3, TapKeeps, QueueKeeps, QueueLateKeeps, RefuseTapKeeps, TimeKeeps
<1>4. ASSUME NEW c \in Commands, Deliver(c)
      PROVE  InlineInv'
  BY <1>4, DeliverKeeps
<1>5. ASSUME NEW j \in Jobs, Begin(j)
      PROVE  InlineInv'
  BY <1>5, BeginKeeps
<1>6. ASSUME NEW j \in Jobs, Running(j)
      PROVE  InlineInv'
  <2>1. CASE j \in Tokens /\ (Play(j) \/ Refuse(j) \/ Report(j))
    BY <2>1, PlayKeeps, RefuseKeeps, ReportKeeps
  <2>2. CASE j \in Commands /\ (Find(j) \/ FindNone(j) \/ Novo(j) \/ ActLate(j))
    BY <2>2, FindKeeps, FindNoneKeeps, NovoKeeps, ActLateKeeps
  <2>3. CASE j \in Commands /\ (ActBarred(j) \/ Act(j) \/ PurgeUser(j))
    BY <2>3, ActBarredKeeps, ActKeeps, PurgeUserKeeps
  <2>4. CASE Purge(j)
    BY <2>4, PurgeKeeps
  <2> QED
    BY <1>6, <2>1, <2>2, <2>3, <2>4 DEF Running
<1>7. ASSUME NEW r \in Resets, Renew(r) \/ Wipe(r) \/ PurgeAll(r)
      PROVE  InlineInv'
  BY <1>7, RenewKeeps, WipeKeeps, PurgeAllKeeps
<1>8. ASSUME UNCHANGED vars
      PROVE  InlineInv'
  <2>1. /\ UNCHANGED store /\ game' = game /\ menu' = menu /\ due' = due /\ lane' = lane /\ work' = work
        /\ hand' = hand /\ applied' = applied
    BY <1>8 DEF vars, lanes
  <2>2. StoreSound' /\ (\A i \in Tokens : Stays(i)) /\ GamesSound' /\ Grows
    BY <2>1, StoreSame, GamesSame, InvGives
  <2> QED
    BY <2>1, <2>2, StepAside
<1> QED
  BY <1>1, <1>2, <1>3, <1>4, <1>5, <1>6, <1>7, <1>8 DEF Next

\* The inductive invariant of the inline play: the token store is in order,
\* one game at most is open, the lane, the messages and the hands agree, and
\* every token says how far its tap is.
THEOREM InlineInvariant == Spec => []InlineInv
<1>1. Init => InlineInv
  BY InlineInit
<1>2. InlineInv /\ [Next]_vars => InlineInv'
  BY InlineStep
<1> QED
  BY <1>1, <1>2, PTL DEF Spec

\* Every variable has its type, and a chat has one open game at most.
THEOREM InlineTypes == Spec => []InlineTypeOK
<1>1. InlineInv => InlineTypeOK
  <2> SUFFICES ASSUME InlineInv PROVE InlineTypeOK
    OBVIOUS
  <2>1. /\ made \in [Tokens -> Purposes \cup {NotMade}] /\ tokens \in [Tokens -> TokenStates]
        /\ game \in [Games -> Games0] /\ \A g, h \in Games : Open(g) /\ Open(h) => g = h
    BY InvGives DEF StoreSound, GamesSound
  <2>2. made \in [Tokens -> [user : Users \cup {None}, game : Games \cup {None}, rev : Nat,
                             verb : {"none", "draw", "play", "choose"}]]
    BY <2>1 DEF Purposes, NotMade
  <2>3. due \subseteq Commands \cup Resets /\ applied \subseteq Tokens
    BY InvGives DEF DueSound
  <2>4. \A j \in DOMAIN hand : hand[j].step \in Steps
    BY InvGives DEF Hands
  <2>5. lane[Chat] \in Seq(Jobs) /\ work[Chat] \in Jobs \cup {None}
    BY InvGives DEF LaneSound
  <2>6. Cardinality({g \in Games : Open(g)}) <= 1
    <3> DEFINE O == {g \in Games : Open(g)}
    <3>1. CASE O = {}
      <4> HIDE DEF O
      <4>1. Cardinality(O) = 0
        BY <3>1, FS_EmptySet
      <4> QED
        BY <4>1 DEF O
    <3>2. CASE O # {}
      <4>1. PICK g : O = {g}
        BY <2>1, <3>2
      <4> HIDE DEF O
      <4>2. Cardinality(O) = 1
        BY <4>1, FS_Singleton
      <4> QED
        BY <4>2 DEF O
    <3> QED
      BY <3>1, <3>2
  <2> QED
    BY <2>1, <2>2, <2>3, <2>4, <2>5, <2>6 DEF InlineTypeOK, TokenStates
<1> QED
  BY <1>1, InlineInvariant, PTL

\* However tokens are created, evicted, expired, consumed and invalidated, the
\* store's map, its order of creation and its lists by player show the same
\* tokens, and no limit is exceeded.
THEOREM ViewsAgree == Spec => []StoreAgrees
<1>1. InlineInv => StoreAgrees
  BY DEF InlineInv, StoreSound
<1> QED
  BY <1>1, InlineInvariant, PTL

\* What a player is told of a tap is what became of it.
THEOREM TapsAreToldTheTruth == Spec => []ResultsAreTrue
<1>1. InlineInv => ResultsAreTrue
  <2> SUFFICES ASSUME InlineInv, NEW id \in Kept
               PROVE  /\ Status(id) = "confirmed" => id \in applied
                      /\ Status(id) = "stale" \/ tokens[id].result = "rejected" => id \notin applied
                      /\ Status(id) = "waiting" => id \notin applied
    BY DEF ResultsAreTrue
  <2>1. id \in Tokens /\ tokens[id].here /\ TapSound(id)
    BY InvGives DEF Kept
  <2>2. Status(id) = (IF ~tokens[id].used THEN "waiting"
                      ELSE IF tokens[id].result \in {"confirmed", "stale"} THEN tokens[id].result ELSE "processed")
    BY DEF Status
  <2>3. ~tokens[id].used => id \notin applied
    BY <2>1 DEF TapSound
  <2>4. tokens[id].result # "none" => (tokens[id].result = "confirmed" <=> id \in applied)
    BY <2>1 DEF TapSound
  <2> QED
    BY <2>2, <2>3, <2>4
<1> QED
  BY <1>1, InlineInvariant, PTL

\* No tap is swallowed: a used token has its result, or its tap is on the way,
\* or was dropped by a reset.
THEOREM NoTapIsLost == Spec => []TapsAccounted
<1>1. InlineInv => TapsAccounted
  <2> SUFFICES ASSUME InlineInv, NEW id \in Kept, tokens[id].used, tokens[id].result = "none"
               PROVE  \/ hand[id].step \in {"send", "sendLate", "dropped"}
                      \/ hand[id].step = "wait" /\ id \in ToSet(lane[Chat])
                      \/ hand[id].step \in {"run", "won", "stale", "rejected"}
    BY DEF TapsAccounted
  <2>1. id \in Tokens /\ tokens[id].here /\ TapSound(id) /\ id \in Jobs
    BY InvGives DEF Kept, Jobs
  <2>2. hand[id].step \in {"send", "sendLate", "dropped", "wait", "run", "won", "stale", "rejected"}
    BY <2>1 DEF TapSound, Steps
  <2>3. ASSUME hand[id].step = "wait" PROVE id \in ToSet(lane[Chat])
    <3>1. lane[Chat] \in Seq(Jobs) /\ \E i \in 1 .. Len(lane[Chat]) : lane[Chat][i] = id
      BY <2>1, <2>3, InvGives DEF LaneSound
    <3> QED
      BY <3>1 DEF ToSet
  <2> QED
    BY <2>2, <2>3
<1> QED
  BY <1>1, InlineInvariant, PTL

\* A result is only replaced with its token: no second report is made of a tap.
THEOREM ResultsStay == Spec => ResultStays
<1>1. InlineInv /\ [Next]_vars =>
        \A id \in Kept : tokens[id].result # "none" /\ tokens'[id].here => tokens'[id].result = tokens[id].result
  <2> SUFFICES ASSUME InlineInv, [Next]_vars, NEW id \in Kept, tokens[id].result # "none", tokens'[id].here
               PROVE  tokens'[id].result = tokens[id].result
    OBVIOUS
  <2>1. id \in Tokens /\ tokens[id].here /\ TapSound(id) /\ StoreSound
    BY InvGives DEF Kept
  <2>2. hand[id].step \in {"purge", "over"}
    BY <2>1 DEF TapSound
  <2>3. made[id] # NotMade
    BY <2>1, <2>2 DEF TapSound
  <2> SUFFICES tokens'[id] = tokens[id] \/ ~tokens'[id].here \/ Stays(id)
    BY DEF Stays
  <2>4. ASSUME UNCHANGED store PROVE tokens'[id] = tokens[id]
    BY <2>4 DEF store
  <2>5. ASSUME NEW g \in Games, WebMove(g) \/ \E w \in InlineWorkers, p \in Users : Look(w, p, g)
        PROVE  UNCHANGED store
    BY <2>5 DEF WebMove, Look
  <2>6. ASSUME NEW w \in InlineWorkers, NEW i \in Tokens, Offer(w, i)
        PROVE  tokens'[id] = tokens[id] \/ ~tokens'[id].here
    <3>1. PICK verb \in menu[w].left : Create(i, menu[w].user, menu[w].game, menu[w].rev, verb)
      BY <2>6 DEF Offer
    <3>2. made[i] = NotMade /\ i # id
      BY <2>3, <3>1 DEF Create
    <3>3. PICK dropped : tokens' = [k \in Tokens |-> IF k = i THEN Created ELSE IF k \in dropped THEN Absent ELSE tokens[k]]
      <4> DEFINE d == Overdue \cup Evicted(menu[w].user)
      <4>1. tokens' = [k \in Tokens |-> IF k = i THEN Created ELSE IF k \in d THEN Absent ELSE tokens[k]]
        BY <3>1, Zenon DEF Create
      <4> HIDE DEF d
      <4> QED
        BY <4>1
    <3> QED
      BY <2>1, <3>2, <3>3 DEF Absent
  <2>7. ASSUME NEW i \in Tokens, Tap(i) PROVE Stays(id)
    <3>1. Consume(i, made[i].user)
      BY <2>7 DEF Tap
    <3>2. /\ ~tokens[i].used /\ \A k \in Tokens \ {i} : Stays(k)
      BY <2>1, <3>1, ConsumeKeeps
    <3>3. tokens[id].used
      BY <2>1, <2>2 DEF TapSound
    <3> QED
      BY <2>1, <3>2, <3>3
  <2>8. ASSUME NEW i \in Tokens, RefuseTap(i) PROVE Stays(id)
    <3>1. Release(i) /\ i # id
      BY <2>2, <2>8 DEF RefuseTap
    <3> QED
      BY <2>1, <3>1, ReleaseKeeps
  <2>9. ASSUME NEW i \in Tokens, TimePasses(i) PROVE Stays(id)
    <3>1. Expire(i)
      BY <2>9 DEF TimePasses
    <3> QED
      BY <2>1, <3>1, ExpireKeeps
  <2>10. ASSUME NEW i \in Tokens, Report(i) PROVE Stays(id)
    <3>1. SetResult(i, Outcome(i)) /\ i # id /\ hand[i].step \in {"won", "stale", "rejected"}
      BY <2>2, <2>10 DEF Report
    <3>2. Outcome(i) \in Results
      BY <3>1 DEF Outcome, Results
    <3> QED
      BY <2>1, <3>1, <3>2, SetResultKeeps
  <2>11. ASSUME NEW j \in Jobs, Purge(j) PROVE tokens'[id] = tokens[id] \/ ~tokens'[id].here
    BY <2>1, <2>11, DeleteKeeps DEF Purge, InvalidateGame
  <2>12. ASSUME NEW c \in Commands, PurgeUser(c) PROVE tokens'[id] = tokens[id] \/ ~tokens'[id].here
    BY <2>1, <2>12, DeleteKeeps DEF PurgeUser, InvalidateUserGame
  <2>13. ASSUME NEW r \in Resets, PurgeAll(r) PROVE tokens'[id] = tokens[id] \/ ~tokens'[id].here
    BY <2>1, <2>13, DeleteKeeps DEF PurgeAll
  <2>14. ASSUME NEW i \in Tokens, Queue(i) \/ QueueLate(i) \/ Play(i) \/ Refuse(i) PROVE UNCHANGED store
    BY <2>14 DEF Queue, QueueLate, Play, Refuse
  <2>15. ASSUME NEW c \in Commands,
                Deliver(c) \/ Find(c) \/ FindNone(c) \/ Novo(c) \/ ActLate(c) \/ ActBarred(c) \/ Act(c)
         PROVE  UNCHANGED store
    BY <2>15 DEF Deliver, Find, FindNone, Novo, ActLate, ActBarred, Act, Conclude, store
  <2>16. ASSUME NEW j \in Jobs, Begin(j) PROVE UNCHANGED store
    BY <2>16 DEF Begin
  <2>17. ASSUME NEW r \in Resets, Renew(r) \/ Wipe(r) PROVE UNCHANGED store
    BY <2>17 DEF Renew, Wipe
  <2>18. ASSUME NEW j \in Jobs, Running(j)
         PROVE tokens'[id] = tokens[id] \/ ~tokens'[id].here \/ Stays(id)
    BY <2>4, <2>10, <2>11, <2>12, <2>14, <2>15, <2>18 DEF Running
  <2>19. CASE UNCHANGED vars
    BY <2>4, <2>19 DEF vars
  <2>20. CASE Next
    BY <2>4, <2>5, <2>6, <2>7, <2>8, <2>9, <2>13, <2>14, <2>15, <2>16, <2>17, <2>18, <2>20 DEF Next
  <2> QED
    BY <2>19, <2>20
<1> QED
  BY <1>1, InlineInvariant, PTL DEF Spec, ResultStays

\* /entrar and a choice of the mode fail as stale only on a game that has been
\* changed twice since the command found it first.
THEOREM StaleMeansTwice == Spec => StaleAfterTwoChanges
<1>1. InlineInv /\ [Next]_vars =>
        \A c \in Commands :
          Verb(c) \in {"entrar", "modo"} /\ hand[c].answer # "stale" /\ hand'[c].answer = "stale" =>
            game[hand[c].game].rev >= hand[c].first + 2
  <2> SUFFICES ASSUME InlineInv, [Next]_vars, NEW c \in Commands, Verb(c) \in {"entrar", "modo"},
                      hand[c].answer # "stale", hand'[c].answer = "stale"
               PROVE  game[hand[c].game].rev >= hand[c].first + 2
    OBVIOUS
  <2>1. /\ hand \in [Jobs \cup Resets -> Hands] /\ c \in Jobs \cup Resets /\ c \notin Tokens /\ c \notin Resets
        /\ CommandSound(c) /\ hand[c] \in Hands /\ game \in [Games -> Games0]
    BY InvGives DEF Jobs, GamesSound
  <2>2. ActLate(c) /\ ~TriesAgain(c)
    <3>1. ASSUME NEW j \in Jobs \cup Resets, NEW h, hand' = [hand EXCEPT ![j] = h], j = c => h.answer # "stale"
          PROVE  FALSE
      BY <2>1, <3>1
    <3>2. ASSUME NEW j \in Jobs \cup Resets, NEW s, hand' = [hand EXCEPT ![j].step = s]
          PROVE  FALSE
      <4> DEFINE h == [hand[j] EXCEPT !.step = s]
      <4>1. hand' = [hand EXCEPT ![j] = h]
        BY <2>1, <3>2
      <4>2. j = c => h.answer # "stale"
        BY <2>1 DEF Hands
      <4> HIDE DEF h
      <4> QED
        BY <3>1, <4>1, <4>2
    <3>3. Over.answer = "none" /\ NotBegun.answer = "none"
      BY HandsAre
    <3>4. ASSUME NEW i \in Tokens, Tap(i) \/ RefuseTap(i) PROVE FALSE
      <4>1. i \in Jobs \cup Resets /\ i # c
        BY <2>1 DEF Jobs
      <4>2. PICK h : hand' = [hand EXCEPT ![i] = h]
        BY <3>4 DEF Tap, RefuseTap
      <4> QED
        BY <3>1, <4>1, <4>2
    <3>5. ASSUME NEW i \in Tokens, Queue(i) \/ QueueLate(i) \/ Refuse(i) PROVE FALSE
      <4>1. i \in Jobs \cup Resets
        BY DEF Jobs
      <4>2. PICK s : hand' = [hand EXCEPT ![i].step = s]
        BY <3>5 DEF Queue, QueueLate, Refuse
      <4> QED
        BY <3>2, <4>1, <4>2
    <3>6. ASSUME NEW i \in Tokens, Play(i) \/ Report(i) PROVE FALSE
      <4>1. i \in Jobs \cup Resets /\ i # c
        BY <2>1 DEF Jobs
      <4>2. hand'[c] = hand[c]
        <5>1. CASE Play(i)
          <6>1. PICK next \in After(made[i].game) :
                 hand' = [hand EXCEPT ![i].step = "won", ![i].game = made[i].game,
                                      ![i].closes = next.stage = "closed"]
            BY <5>1 DEF Play
          <6> QED
            BY <2>1, <4>1, <6>1
        <5>2. CASE Report(i)
          BY <2>1, <4>1, <5>2 DEF Report
        <5> QED
          BY <3>6, <5>1, <5>2
      <4> QED
        BY <4>2
    <3>7. ASSUME hand' = hand PROVE FALSE
      BY <3>7
    <3>8. ASSUME NEW j \in Jobs, Begin(j) PROVE FALSE
      <4>1. hand' = [hand EXCEPT ![j].step = "run"]
        BY <3>8 DEF Begin
      <4> QED
        BY <3>2, <4>1
    <3>9. ASSUME NEW j \in Jobs, Purge(j) PROVE FALSE
      <4>1. hand' = [hand EXCEPT ![j] = Over]
        BY <3>9 DEF Purge
      <4> QED
        BY <3>1, <3>3, <4>1
    <3>10. ASSUME NEW d \in Commands, Deliver(d) PROVE FALSE
      <4>1. hand' = [hand EXCEPT ![d].step = "wait"]
        BY <3>10 DEF Deliver
      <4> QED
        BY <3>2, <4>1 DEF Jobs
    <3>11. ASSUME NEW d \in Commands, NEW answer, Conclude(d, answer), answer # "stale" \/ d # c PROVE FALSE
      <4> DEFINE h == [Over EXCEPT !.answer = answer]
      <4>1. hand' = [hand EXCEPT ![d] = h] /\ d \in Jobs \cup Resets
        BY <3>11 DEF Conclude, Jobs
      <4>2. h.answer = answer
        BY DEF Over, NotBegun
      <4> HIDE DEF h
      <4> QED
        BY <3>1, <3>11, <4>1, <4>2
    <3>12. ASSUME NEW d \in Commands, FindNone(d) \/ Novo(d) \/ ActBarred(d) PROVE FALSE
      <4>1. Conclude(d, "none")
        BY <3>12 DEF FindNone, Novo, ActBarred
      <4> QED
        BY <3>11, <4>1
    <3>13. ASSUME NEW d \in Commands, Find(d) PROVE FALSE
      <4>1. d \in Jobs \cup Resets /\ hand[d] \in Hands
        BY <2>1 DEF Jobs
      <4>2. PICK g \in Games :
             hand' = [hand EXCEPT ![d].step = "act", ![d].game = g, ![d].rev = game[g].rev,
                                  ![d].first = IF hand[d].answer = "again" THEN @ ELSE game[g].rev]
        BY <3>13 DEF Find
      <4>3. hand'[c].answer = hand[c].answer
        BY <2>1, <4>1, <4>2 DEF Hands
      <4> QED
        BY <4>3
    <3>14. ASSUME NEW d \in Commands, Act(d) PROVE FALSE
      <4>1. d \in Jobs \cup Resets
        BY DEF Jobs
      <4>2. PICK next \in Done(d) :
              CASE Verb(d) = "sair" -> hand' = [hand EXCEPT ![d].step = "purgeUser",
                                                            ![d].closes = next.stage = "closed"]
                [] Verb(d) = "cancelar" -> hand' = [hand EXCEPT ![d].step = "purge"]
                [] OTHER -> hand' = [hand EXCEPT ![d] = Over]
        BY <3>14 DEF Act
      <4>3. CASE Verb(d) = "sair"
        <5> DEFINE x == [hand[d] EXCEPT !.step = "purgeUser"]
                   h == [x EXCEPT !.closes = next.stage = "closed"]
        <5>1. hand[d] \in Hands
          BY <2>1, <4>1
        <5>2. hand' = [hand EXCEPT ![d] = h]
          BY <2>1, <4>1, <4>2, <4>3
        <5>3. h.answer = hand[d].answer
          BY <5>1 DEF Hands
        <5> HIDE DEF h, x
        <5> QED
          BY <3>1, <4>1, <5>2, <5>3
      <4>4. CASE Verb(d) # "sair"
        <5>1. (\E s : hand' = [hand EXCEPT ![d].step = s]) \/ hand' = [hand EXCEPT ![d] = Over]
          BY <4>2, <4>4
        <5> QED
          BY <3>1, <3>2, <3>3, <4>1, <5>1
      <4> QED
        BY <4>3, <4>4
    <3>15. ASSUME NEW d \in Commands, PurgeUser(d) PROVE FALSE
      <4>1. d \in Jobs \cup Resets
        BY DEF Jobs
      <4>2. (\E s : hand' = [hand EXCEPT ![d].step = s]) \/ hand' = [hand EXCEPT ![d] = Over]
        BY <3>15 DEF PurgeUser
      <4> QED
        BY <3>1, <3>2, <3>3, <4>1, <4>2
    <3>16. ASSUME NEW d \in Commands, ActLate(d) PROVE d = c /\ ~TriesAgain(d)
      <4>1. CASE TriesAgain(d)
        <5>1. hand' = [hand EXCEPT ![d].step = "run", ![d].answer = "again"]
          BY <3>16, <4>1 DEF ActLate
        <5>2. hand[d] \in Hands
          BY <2>1 DEF Jobs
        <5>3. hand'[c].answer \in {"again", hand[c].answer}
          BY <2>1, <5>1, <5>2 DEF Hands
        <5> QED
          BY <5>3
      <4>2. CASE ~TriesAgain(d)
        <5>1. Conclude(d, "stale")
          BY <3>16, <4>2 DEF ActLate
        <5> QED
          BY <3>11, <4>2, <5>1
      <4> QED
        BY <4>1, <4>2
    <3>17. ASSUME NEW r \in Resets, Renew(r) PROVE FALSE
      <4>1. c # r /\ c \in DOMAIN hand
        BY <2>1
      <4>2. \/ hand'[c] = hand[c]
            \/ hand'[c] = [hand[c] EXCEPT !.step = "dropped"]
            \/ hand'[c] = [hand[c] EXCEPT !.step = "sendLate"]
        BY <3>17, <4>1 DEF Renew
      <4>3. hand'[c].answer = hand[c].answer
        BY <2>1, <4>2 DEF Hands
      <4> QED
        BY <4>3
    <3>18. ASSUME NEW r \in Resets, Wipe(r) \/ PurgeAll(r) PROVE FALSE
      <4>1. (\E s : hand' = [hand EXCEPT ![r].step = s]) \/ hand' = [hand EXCEPT ![r] = Over]
        BY <3>18 DEF Wipe, PurgeAll
      <4> QED
        BY <3>1, <3>2, <3>3, <4>1
    <3>19. ASSUME NEW j \in Jobs, Running(j) PROVE ActLate(c) /\ ~TriesAgain(c)
      BY <3>5, <3>6, <3>9, <3>12, <3>13, <3>14, <3>15, <3>16, <3>19 DEF Running
    <3>20. CASE UNCHANGED vars
      BY <3>7, <3>20 DEF vars
    <3>21. ASSUME NEW g \in Games, WebMove(g) \/ \E w \in InlineWorkers, p \in Users : Look(w, p, g) PROVE FALSE
      BY <3>7, <3>21 DEF WebMove, Look
    <3>22. ASSUME NEW w \in InlineWorkers, NEW i \in Tokens, Offer(w, i) PROVE FALSE
      BY <3>7, <3>22 DEF Offer
    <3>23. ASSUME NEW i \in Tokens, TimePasses(i) PROVE FALSE
      BY <3>7, <3>23 DEF TimePasses
    <3>24. CASE Next
      BY <3>4, <3>5, <3>8, <3>10, <3>17, <3>18, <3>19, <3>21, <3>22, <3>23, <3>24 DEF Next
    <3> QED
      BY <3>20, <3>24
  <2> DEFINE a == game[hand[c].game].rev
             f == hand[c].first
             r == hand[c].rev
  <2>3. hand[c].step = "act" /\ ~Barred(c) /\ Late(c) /\ hand[c].answer = "again"
    BY <2>2 DEF ActLate, TriesAgain
  <2>4. hand[c].game \in Games /\ r <= a /\ f + 1 <= r /\ r # a
    BY <2>1, <2>3 DEF CommandSound, Barred, Late
  <2>5. a \in Nat /\ f \in Nat /\ r \in Nat
    BY <2>1, <2>4 DEF Games0, Hands
  <2>6. a >= f + 2
    <3> HIDE DEF a, f, r
    <3> QED
      BY <2>4, <2>5
  <2> QED
    BY <2>6
<1> QED
  BY <1>1, InlineInvariant, PTL DEF Spec, StaleAfterTwoChanges
=============================================================================
