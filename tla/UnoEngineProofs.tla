-------------------------- MODULE UnoEngineProofs --------------------------
(***************************************************************************)
(* Proofs about UnoEngine, for every deck, rule set, number of players and *)
(* hand size: the inductive invariant EngineInv, hence TypeOK and          *)
(* CardsConserved, and on top of it DebtInv, hence what is said of         *)
(* penalties and challenges, and of how hands lose cards.                  *)
(***************************************************************************)
EXTENDS UnoEngine, SequenceTheorems, FiniteSetTheorems, TLAPS

-----------------------------------------------------------------------------
(* Seats *)

\* The remainder by the number of seats, for the three values NextSeat meets
\* when it looks one seat ahead.
LEMMA ModRange ==
  ASSUME NEW a \in Int, NEW n \in Nat \ {0}
  PROVE  a % n \in 0 .. n - 1
OBVIOUS

LEMMA ModOneAhead ==
  ASSUME NEW i \in Nat, NEW n \in Nat, n >= 2, i < n, NEW d \in {-1, 1}
  PROVE  (i + 1 * d) % n # i
<1>1. CASE i + d \in 0 .. n - 1
  BY <1>1
<1>2. CASE i + d = n
  BY <1>2
<1>3. CASE i + d = -1
  BY <1>3
<1> QED
  BY <1>1, <1>2, <1>3

\* A player in the order has exactly one seat.
LEMMA SeatOfSeated ==
  ASSUME NEW S, NEW order \in Seq(S), NEW p \in Range(order)
  PROVE  SeatOf(order, p) \in 1 .. Len(order) /\ order[SeatOf(order, p)] = p
BY LenProperties DEF SeatOf, Range

LEMMA NextSeatSeated ==
  ASSUME NEW s \in State, NEW p \in Seated(s), NEW k \in Int
  PROVE  NextSeat(s, p, k) \in Seated(s)
<1>1. s.order \in Seq(Players) /\ s.direction \in Int
  BY DEF State
<1>2. SeatOf(s.order, p) \in 1 .. Len(s.order)
  BY <1>1, SeatOfSeated DEF Seated
<1> DEFINE n == Len(s.order)
           m == (SeatOf(s.order, p) - 1 + k * s.direction)
<1>3. n \in Nat \ {0} /\ m \in Int
  BY <1>1, <1>2, LenProperties
<1>4. (m % n) + 1 \in 1 .. n
  <2> HIDE DEF n, m
  <2>1. m % n \in 0 .. n - 1
    BY <1>3, ModRange
  <2> QED
    BY <1>3, <2>1
<1>5. s.order[(m % n) + 1] \in Range(s.order)
  BY <1>1, <1>4, LenProperties DEF Range
<1> QED
  BY <1>5 DEF NextSeat, Seated

\* With two or more seats, whoever is one seat ahead is somebody else.
LEMMA NextSeatIsOther ==
  ASSUME NEW s \in State, SeatOrder(s), NEW p \in Seated(s), Len(s.order) >= 2
  PROVE  NextSeat(s, p, 1) # p
<1>1. s.order \in Seq(Players) /\ s.direction \in {-1, 1} /\ IsInjective(s.order)
  BY DEF State, SeatOrder
<1> DEFINE i == SeatOf(s.order, p)
           n == Len(s.order)
           j == (i - 1 + 1 * s.direction) % n
<1>2. i \in 1 .. n /\ s.order[i] = p /\ n \in Nat /\ n >= 2
  BY <1>1, SeatOfSeated, LenProperties DEF Seated
<1>3. j \in 0 .. n - 1 /\ j # i - 1
  <2> HIDE DEF i, n
  <2>1. i - 1 + 1 * s.direction \in Int /\ n \in Nat \ {0} /\ i - 1 \in Nat /\ i - 1 < n
    BY <1>1, <1>2
  <2> QED
    BY <1>1, <1>2, <2>1, ModRange, ModOneAhead
<1>4. s.order[j + 1] # s.order[i]
  <2> HIDE DEF i, j
  <2> QED
    BY <1>1, <1>2, <1>3, LenProperties DEF IsInjective
<1> QED
  BY <1>2, <1>4 DEF NextSeat, Seated

\* Taking a seat away moves those behind it one seat forward.
LEMMA RemovedAt ==
  ASSUME NEW S, NEW order \in Seq(S), NEW p \in Range(order)
  PROVE  /\ Without(order, p) \in Seq(S)
         /\ Len(Without(order, p)) = Len(order) - 1
         /\ \A k \in 1 .. Len(order) - 1 :
              Without(order, p)[k] = IF k < SeatOf(order, p) THEN order[k] ELSE order[k + 1]
<1> DEFINE i == SeatOf(order, p)
           n == Len(order)
           left == SubSeq(order, 1, i - 1)
           right == SubSeq(order, i + 1, n)
           w == Without(order, p)
<1>1. /\ i \in 1 .. n /\ order[i] = p /\ n \in Nat
      /\ DOMAIN order = 1 .. n /\ \A k \in 1 .. n : order[k] \in S
  BY SeatOfSeated, LenProperties, ElementOfSeq
<1> HIDE DEF i
<1>2. /\ left \in Seq(S) /\ Len(left) = i - 1
      /\ \A k \in 1 .. i - 1 : left[k] = order[k]
  <2>1. \A k \in 1 .. i - 1 : order[k] \in S
    BY <1>1
  <2> QED
    BY <1>1, <2>1, SubSeqProperties
<1>3. /\ right \in Seq(S) /\ Len(right) = n - i
      /\ \A k \in 1 .. n - i : right[k] = order[k + i]
  <2> HIDE DEF n, left, w
  <2>1. \A k \in i + 1 .. n : order[k] \in S
    BY <1>1
  <2>2. i + 1 \in Int /\ n \in Int
    BY <1>1
  <2>3. /\ right \in Seq(S)
        /\ Len(right) = IF i + 1 <= n THEN n - (i + 1) + 1 ELSE 0
        /\ \A k \in 1 .. n - (i + 1) + 1 : right[k] = order[i + 1 + k - 1]
    BY <2>1, <2>2, SubSeqProperties
  <2> HIDE DEF right
  <2> QED
    BY <1>1, <2>3
<1>4. w = left \o right
  BY DEF Without, SX!RemoveAt, i
<1> HIDE DEF left, right, w, n
<1>5. /\ w \in Seq(S) /\ Len(w) = n - 1
      /\ \A k \in 1 .. n - 1 : w[k] = IF k < i THEN order[k] ELSE order[k + 1]
  <2>1. /\ w \in Seq(S)
        /\ Len(w) = (i - 1) + (n - i)
        /\ \A k \in 1 .. Len(left) + Len(right) :
              w[k] = IF k <= Len(left) THEN left[k] ELSE right[k - Len(left)]
    BY <1>2, <1>3, <1>4, ConcatProperties
  <2>2. ASSUME NEW k \in 1 .. n - 1
        PROVE  w[k] = IF k < i THEN order[k] ELSE order[k + 1]
    <3>1. w[k] = IF k <= i - 1 THEN left[k] ELSE right[k - (i - 1)]
      BY <1>1, <1>2, <1>3, <2>1
    <3>2. CASE k < i
      BY <1>1, <1>2, <3>1, <3>2
    <3>3. CASE ~(k < i)
      <4>1. k - (i - 1) \in 1 .. n - i /\ k - (i - 1) + i = k + 1 /\ ~(k <= i - 1)
        BY <1>1, <3>3
      <4> QED
        BY <1>3, <3>1, <3>3, <4>1
    <3> QED
      BY <3>2, <3>3
  <2> QED
    BY <1>1, <2>1, <2>2
<1> QED
  BY <1>5 DEF w, n, i

\* It takes away its player and nobody else.
LEMMA WithoutSeat ==
  ASSUME NEW S, NEW order \in Seq(S), IsInjective(order), NEW p \in Range(order)
  PROVE  /\ Without(order, p) \in Seq(S)
         /\ Len(Without(order, p)) = Len(order) - 1
         /\ Range(Without(order, p)) = Range(order) \ {p}
         /\ IsInjective(Without(order, p))
<1> DEFINE i == SeatOf(order, p)
           n == Len(order)
           w == Without(order, p)
<1>1. /\ i \in 1 .. n /\ order[i] = p /\ n \in Nat
      /\ DOMAIN order = 1 .. n /\ \A k \in 1 .. n : order[k] \in S
  BY SeatOfSeated, LenProperties, ElementOfSeq
<1>5. /\ w \in Seq(S) /\ Len(w) = n - 1
      /\ \A k \in 1 .. n - 1 : w[k] = IF k < i THEN order[k] ELSE order[k + 1]
  BY RemovedAt
<1> HIDE DEF i, w, n
<1>6. DOMAIN w = 1 .. n - 1
  BY <1>1, <1>5, LenProperties
<1>7. IsInjective(w)
  <2> DEFINE at(k) == IF k < i THEN k ELSE k + 1
  <2>1. \A k \in 1 .. n - 1 : at(k) \in 1 .. n /\ w[k] = order[at(k)]
    BY <1>1, <1>5
  <2>2. \A k, l \in 1 .. n - 1 : at(k) = at(l) => k = l
    BY <1>1
  <2> HIDE DEF at
  <2>3. \A k, l \in 1 .. n : order[k] = order[l] => k = l
    BY <1>1 DEF IsInjective
  <2> QED
    BY <1>6, <2>1, <2>2, <2>3 DEF IsInjective
<1>8. Range(w) = Range(order) \ {p}
  <2>1. ASSUME NEW k \in 1 .. n - 1 PROVE w[k] \in Range(order) \ {p}
    <3>1. PICK l \in 1 .. n : l # i /\ w[k] = order[l]
      BY <1>1, <1>5
    <3>2. order[l] # order[i]
      BY <1>1, <3>1 DEF IsInjective
    <3> QED
      BY <1>1, <3>1, <3>2 DEF Range
  <2>2. ASSUME NEW k \in 1 .. n, order[k] # p PROVE order[k] \in Range(w)
    <3>1. CASE k < i
      BY <1>1, <1>5, <1>6, <2>2, <3>1 DEF Range
    <3>2. CASE k > i
      <4>1. k - 1 \in 1 .. n - 1 /\ w[k - 1] = order[k]
        BY <1>1, <1>5, <3>2
      <4> QED
        BY <1>6, <4>1 DEF Range
    <3> QED
      BY <1>1, <2>2, <3>1, <3>2
  <2> QED
    BY <1>1, <1>6, <2>1, <2>2 DEF Range
<1> QED
  BY <1>5, <1>7, <1>8 DEF w, n

\* w is the order with p put in seat i.
Inserted(w, order, i, p) ==
  /\ Len(w) = Len(order) + 1
  /\ \A k \in 1 .. Len(order) + 1 :
       w[k] = IF k < i THEN order[k] ELSE IF k = i THEN p ELSE order[k - 1]

\* Putting a newcomer in a seat moves those from there on one seat back.
LEMMA InsertedAt ==
  ASSUME NEW S, NEW order \in Seq(S), NEW p \in S, NEW i \in 1 .. Len(order) + 1
  PROVE  /\ SX!InsertAt(order, i, p) \in Seq(S)
         /\ Inserted(SX!InsertAt(order, i, p), order, i, p)
<1> DEFINE n == Len(order)
           left == SubSeq(order, 1, i - 1)
           right == SubSeq(order, i, n)
           w == SX!InsertAt(order, i, p)
<1>1. /\ n \in Nat /\ i \in 1 .. n + 1
      /\ DOMAIN order = 1 .. n /\ \A k \in 1 .. n : order[k] \in S
  BY LenProperties, ElementOfSeq
<1> HIDE DEF n, left, right, w
<1>4. /\ left \in Seq(S) /\ Len(left) = i - 1
      /\ \A k \in 1 .. i - 1 : left[k] = order[k]
  <2>1. /\ left \in Seq(S)
        /\ Len(left) = IF 1 <= i - 1 THEN (i - 1) - 1 + 1 ELSE 0
        /\ \A k \in 1 .. (i - 1) - 1 + 1 : left[k] = order[1 + k - 1]
    BY <1>1, SubSeqProperties DEF left
  <2> QED
    BY <1>1, <2>1
<1>5. /\ right \in Seq(S) /\ Len(right) = n - i + 1
      /\ \A k \in 1 .. n - i + 1 : right[k] = order[i + k - 1]
  <2>1. /\ right \in Seq(S)
        /\ Len(right) = IF i <= n THEN n - i + 1 ELSE 0
        /\ \A k \in 1 .. n - i + 1 : right[k] = order[i + k - 1]
    BY <1>1, SubSeqProperties DEF right
  <2>2. Len(right) = n - i + 1
    BY <1>1, <2>1
  <2> QED
    BY <2>1, <2>2
<1>6. w = (left \o <<p>>) \o right
  BY DEF SX!InsertAt, w, left, right, n
<1> DEFINE front == left \o <<p>>
<1>7. /\ front \in Seq(S) /\ Len(front) = i
      /\ \A k \in 1 .. i : front[k] = IF k < i THEN order[k] ELSE p
  BY <1>1, <1>4, ConcatProperties, <<p>> \in Seq(S), Len(<<p>>) = 1, <<p>>[1] = p
<1> HIDE DEF front
<1>8. /\ w \in Seq(S) /\ Len(w) = n + 1
      /\ \A k \in 1 .. n + 1 : w[k] = IF k < i THEN order[k]
                                      ELSE IF k = i THEN p ELSE order[k - 1]
  <2>0. w = front \o right
    BY <1>6 DEF front
  <2>1. /\ w \in Seq(S) /\ Len(w) = i + (n - i + 1)
        /\ \A k \in 1 .. i + (n - i + 1) : w[k] = IF k <= i THEN front[k] ELSE right[k - i]
    <3>1. /\ w \in Seq(S) /\ Len(w) = Len(front) + Len(right)
          /\ \A k \in 1 .. Len(front) + Len(right) :
               w[k] = IF k <= Len(front) THEN front[k] ELSE right[k - Len(front)]
      BY <1>5, <1>7, <2>0, ConcatProperties
    <3> QED
      BY <1>5, <1>7, <3>1
  <2>2. Len(w) = n + 1 /\ i + (n - i + 1) = n + 1
    BY <1>1, <2>1
  <2>3. ASSUME NEW k \in 1 .. n + 1, k > i PROVE w[k] = order[k - 1]
    <3>1. w[k] = right[k - i]
      BY <1>1, <2>1, <2>2, <2>3
    <3>2. k - i \in 1 .. n - i + 1 /\ i + (k - i) - 1 = k - 1
      BY <1>1, <2>3
    <3>3. right[k - i] = order[i + (k - i) - 1]
      BY <1>5, <3>2
    <3> QED
      BY <3>1, <3>2, <3>3
  <2>4. ASSUME NEW k \in 1 .. n + 1, k <= i PROVE w[k] = IF k < i THEN order[k] ELSE p
    BY <1>1, <1>7, <2>1, <2>2, <2>4
  <2> QED
    BY <1>1, <2>1, <2>2, <2>3, <2>4
<1> QED
  BY <1>8 DEF w, n, Inserted

\* It moves nobody out of the order.
LEMMA InsertedSeat ==
  ASSUME NEW S, NEW order \in Seq(S), IsInjective(order),
         NEW p \in S, p \notin Range(order), NEW i \in 1 .. Len(order) + 1
  PROVE  /\ SX!InsertAt(order, i, p) \in Seq(S)
         /\ Len(SX!InsertAt(order, i, p)) = Len(order) + 1
         /\ Range(SX!InsertAt(order, i, p)) = Range(order) \cup {p}
         /\ IsInjective(SX!InsertAt(order, i, p))
<1> DEFINE n == Len(order)
           w == SX!InsertAt(order, i, p)
<1>1. /\ n \in Nat /\ i \in 1 .. n + 1
      /\ DOMAIN order = 1 .. n /\ \A k \in 1 .. n : order[k] \in S
  BY LenProperties, ElementOfSeq
<1>2. \A k, l \in 1 .. n : order[k] = order[l] => k = l
  BY <1>1 DEF IsInjective
<1>3. \A k \in 1 .. n : order[k] # p
  BY <1>1 DEF Range
<1>8. /\ w \in Seq(S) /\ Len(w) = n + 1
      /\ \A k \in 1 .. n + 1 : w[k] = IF k < i THEN order[k]
                                      ELSE IF k = i THEN p ELSE order[k - 1]
  <2>1. w \in Seq(S) /\ Inserted(w, order, i, p)
    BY InsertedAt
  <2> QED
    BY <2>1 DEF Inserted
<1> HIDE DEF n, w
<1>9. DOMAIN w = 1 .. n + 1
  BY <1>1, <1>8, LenProperties
<1>10. IsInjective(w)
  <2> SUFFICES ASSUME NEW k \in 1 .. n + 1, NEW l \in 1 .. n + 1, w[k] = w[l] PROVE k = l
    BY <1>9 DEF IsInjective
  <2> DEFINE at(j) == IF j < i THEN j ELSE j - 1
  <2>1. \A j \in 1 .. n + 1 : j # i => at(j) \in 1 .. n /\ w[j] = order[at(j)]
    BY <1>1, <1>8
  <2>2. w[i] = p
    BY <1>1, <1>8
  <2> QED
    BY <1>1, <1>2, <1>3, <2>1, <2>2
<1>11. Range(w) = Range(order) \cup {p}
  <2>1. ASSUME NEW k \in 1 .. n + 1 PROVE w[k] \in Range(order) \cup {p}
    <3>1. k = i \/ (k # i /\ (k \in 1 .. n \/ k - 1 \in 1 .. n))
      BY <1>1
    <3>2. \A l \in 1 .. n : order[l] \in Range(order)
      BY <1>1 DEF Range
    <3> QED
      BY <1>1, <1>8, <3>1, <3>2
  <2>2. p \in Range(w)
    BY <1>1, <1>8, <1>9 DEF Range
  <2>3. ASSUME NEW k \in 1 .. n PROVE order[k] \in Range(w)
    <3>1. CASE k < i
      <4>1. k \in 1 .. n + 1 /\ w[k] = order[k]
        BY <1>1, <1>8, <3>1
      <4> QED
        BY <1>9, <4>1 DEF Range
    <3>2. CASE k >= i
      <4>1. k + 1 \in 1 .. n + 1 /\ w[k + 1] = order[k]
        BY <1>1, <1>8, <3>2
      <4> QED
        BY <1>9, <4>1 DEF Range
    <3> QED
      BY <1>1, <3>1, <3>2
  <2> QED
    BY <1>1, <1>9, <2>1, <2>2, <2>3 DEF Range
<1> QED
  BY <1>8, <1>10, <1>11 DEF w, n

\* The last seat goes to whoever joins in the lobby.
LEMMA AppendedSeat ==
  ASSUME NEW S, NEW order \in Seq(S), IsInjective(order), NEW p \in S, p \notin Range(order)
  PROVE  /\ Append(order, p) \in Seq(S)
         /\ Range(Append(order, p)) = Range(order) \cup {p}
         /\ IsInjective(Append(order, p))
<1> DEFINE n == Len(order)
           w == Append(order, p)
<1>1. n \in Nat /\ DOMAIN order = 1 .. n
  BY LenProperties
<1>2. /\ w \in Seq(S) /\ Len(w) = n + 1
      /\ \A k \in 1 .. n : w[k] = order[k]
      /\ w[n + 1] = p
  BY AppendProperties
<1>3. DOMAIN w = 1 .. n + 1
  BY <1>1, <1>2, LenProperties
<1> HIDE DEF n, w
<1>4. \A k \in 1 .. n + 1 : k \in 1 .. n \/ k = n + 1
  BY <1>1
<1>5. n + 1 \in 1 .. n + 1 /\ 1 .. n \subseteq 1 .. n + 1
  BY <1>1
<1>6. Range(w) = Range(order) \cup {p}
  BY <1>1, <1>2, <1>3, <1>4, <1>5 DEF Range
<1>7. IsInjective(w)
  BY <1>1, <1>2, <1>3, <1>4 DEF IsInjective, Range
<1> QED
  BY <1>2, <1>6, <1>7 DEF w

-----------------------------------------------------------------------------
(* Helpers: what each does to a table that is in order *)

\* Cards have one owner each and the seats are those of the players playing.
Held(s) == s \in State /\ PileOwnership(s) /\ SeatOrder(s)

LEMMA ChangeTurnHeld ==
  ASSUME NEW s, Held(s), NEW p \in Players \cup {None}
  PROVE  Held(ChangeTurn(s, p))
<1>1. ChangeTurn(s, p) \in State
  BY DEF Held, State, ChangeTurn
<1>2. PileOwnership(ChangeTurn(s, p))
  BY DEF Held, State, ChangeTurn, PileOwnership
<1>3. SeatOrder(ChangeTurn(s, p))
  BY DEF Held, State, ChangeTurn, SeatOrder, Seated
<1> QED
  BY <1>1, <1>2, <1>3 DEF Held

LEMMA UnchallengedHeld ==
  ASSUME NEW s, Held(s)
  PROVE  Held(Unchallenged(s))
<1>1. Unchallenged(s) \in State
  BY DEF Held, State, Unchallenged
<1>2. PileOwnership(Unchallenged(s))
  BY DEF Held, State, Unchallenged, PileOwnership
<1>3. SeatOrder(Unchallenged(s))
  BY DEF Held, State, Unchallenged, SeatOrder, Seated
<1> QED
  BY <1>1, <1>2, <1>3 DEF Held

LEMMA FinishHeld ==
  ASSUME NEW s, Held(s), NEW reason \in FinishReasons
  PROVE  Held(Finish(s, reason))
<1> DEFINE t == Finish(s, reason)
<1>1. t \in State
  BY DEF Held, State, Finish, Unchallenged, Phases
<1>2. PileOwnership(t)
  BY DEF Held, State, Finish, Unchallenged, PileOwnership
<1>3. SeatOrder(t)
  BY DEF Held, State, Finish, Unchallenged, SeatOrder, Seated
<1> QED
  BY <1>1, <1>2, <1>3 DEF Held

LEMMA RecordLastHeld ==
  ASSUME NEW s, Held(s), Len(s.order) >= 1
  PROVE  Held(RecordLast(s))
<1> DEFINE last == [player |-> s.order[1], wentOut |-> FALSE]
<1>1. s.order[1] \in Players
  BY LenProperties, ElementOfSeq DEF Held, State
<1>2. last \in Placement
  BY <1>1 DEF Placement
<1>3. Append(s.placements, last) \in Seq(Placement)
  BY <1>2, AppendProperties DEF Held, State
<1> HIDE DEF last
<1>4. RecordLast(s) = [s EXCEPT !.placements = Append(s.placements, last)]
  BY DEF Held, State, RecordLast, last
<1>5. RecordLast(s) \in State
  BY ZenonT(30), <1>3, <1>4 DEF Held, State
<1>6. PileOwnership(RecordLast(s))
  BY <1>4 DEF Held, State, PileOwnership
<1>7. SeatOrder(RecordLast(s))
  BY <1>4 DEF Held, State, SeatOrder, Seated
<1> QED
  BY <1>5, <1>6, <1>7 DEF Held

\* Everything about the two tables is the same but who holds which card.
SamePlay(s, t) ==
  /\ t.rules = s.rules /\ t.phase = s.phase /\ t.inventory = s.inventory
  /\ t.top = s.top /\ t.status = s.status /\ t.order = s.order
  /\ t.dealer = s.dealer /\ t.current = s.current /\ t.direction = s.direction
  /\ t.activeColor = s.activeColor /\ t.drawnCard = s.drawnCard
  /\ t.drawCounter = s.drawCounter /\ t.pending = s.pending
  /\ t.pendingBluff = s.pendingBluff /\ t.challengeable = s.challengeable
  /\ t.placements = s.placements /\ t.finishReason = s.finishReason

\* Card by card: the inventory is what lies on the piles and in the hands.
LEMMA InventorySplit ==
  ASSUME NEW s \in State
  PROVE  (s.inventory = s.drawPile \cup s.discards \cup ({s.top} \ {None}) \cup (UNION Range(s.hands)))
           <=> \A c : c \in s.inventory <=> \/ c \in s.drawPile \cup s.discards
                                            \/ c = s.top /\ c # None
                                            \/ \E q \in Players : c \in s.hands[q]
<1>1. DOMAIN s.hands = Players
  BY DEF State
<1>2. \A c : c \in UNION Range(s.hands) <=> \E q \in Players : c \in s.hands[q]
  BY <1>1 DEF Range
<1> QED
  BY <1>2

\* A draw splits the pile and the discards, whether or not they are recycled.
LEMMA DrawsSplit ==
  ASSUME NEW s, Held(s), NEW n \in Nat, NEW r \in Draws(s, n)
  PROVE  /\ r.cards \cup r.drawPile \cup r.discards = s.drawPile \cup s.discards
         /\ r.cards \cap (r.drawPile \cup r.discards) = {}
         /\ r.drawPile \cap r.discards = {}
<1>1. s.drawPile \cap s.discards = {}
  BY DEF Held, PileOwnership
<1>2. CASE n <= Cardinality(s.drawPile)
  <2>1. PICK d \in SUBSET s.drawPile :
          r = [cards |-> d, drawPile |-> s.drawPile \ d, discards |-> s.discards]
    BY <1>2 DEF Draws, kSubset
  <2> QED
    BY <1>1, <2>1
<1>3. CASE ~(n <= Cardinality(s.drawPile))
  <2>1. PICK d \in SUBSET s.discards :
          r = [cards |-> s.drawPile \cup d, drawPile |-> s.discards \ d, discards |-> {}]
    BY <1>3 DEF Draws, kSubset
  <2> QED
    BY <1>1, <2>1
<1> QED
  BY <1>2, <1>3

LEMMA DrawToHeld ==
  ASSUME NEW s, Held(s), NEW p \in Seated(s), NEW n \in Nat, NEW t \in DrawTo(s, p, n)
  PROVE  /\ Held(t)
         /\ SamePlay(s, t)
         /\ \A q \in Players : s.hands[q] \subseteq t.hands[q]
<1>1. PICK r \in Draws(s, n) : t = [s EXCEPT !.hands[p] = @ \cup r.cards,
                                             !.drawPile = r.drawPile,
                                             !.discards = r.discards]
  BY DEF DrawTo
<1>2. /\ r.cards \cup r.drawPile \cup r.discards = s.drawPile \cup s.discards
      /\ r.cards \cap (r.drawPile \cup r.discards) = {}
      /\ r.drawPile \cap r.discards = {}
  BY DrawsSplit
<1>3. p \in Players /\ s.status[p] = "Playing"
  BY DEF Held, SeatOrder
<1>4. t \in State
  BY ZenonT(30), <1>1, <1>2, <1>3 DEF Held, State
<1>5. SamePlay(s, t) /\ t.drawPile = r.drawPile /\ t.discards = r.discards
  BY <1>1 DEF Held, State, SamePlay
<1>6. \A q \in Players : t.hands[q] = IF q = p THEN s.hands[p] \cup r.cards ELSE s.hands[q]
  BY <1>1, <1>3 DEF Held, State
<1>7. PileOwnership(t)
  <2>1. ASSUME NEW c
        PROVE  c \in t.inventory <=> \/ c \in t.drawPile \cup t.discards
                                     \/ c = t.top /\ c # None
                                     \/ \E q \in Players : c \in t.hands[q]
    <3>1. c \in s.inventory <=> \/ c \in s.drawPile \cup s.discards
                                \/ c = s.top /\ c # None
                                \/ \E q \in Players : c \in s.hands[q]
      BY InventorySplit DEF Held, PileOwnership
    <3>2. (\E q \in Players : c \in t.hands[q])
            <=> c \in r.cards \/ \E q \in Players : c \in s.hands[q]
      BY <1>3, <1>6
    <3> QED
      BY <1>2, <1>5, <3>1, <3>2 DEF SamePlay
  <2> QED
    BY <1>2, <1>3, <1>4, <1>5, <1>6, <2>1, InventorySplit DEF Held, PileOwnership, SamePlay
<1>8. SeatOrder(t)
  BY <1>5 DEF Held, SeatOrder, SamePlay, Seated
<1> QED
  BY <1>4, <1>5, <1>6, <1>7, <1>8 DEF Held

-----------------------------------------------------------------------------
(* The inductive invariant of a table, and the ends of a turn that keep it *)

Sound(s) ==
  /\ Held(s)
  /\ BareTable(s)
  /\ TurnSeated(s)
  /\ ChoiceSeated(s)
  /\ BlufferSeated(s)

LEMMA EngineInvIsSound == EngineInv <=> Sound(state)
BY DEF EngineInv, Sound, Held, TypeOK

\* A running game between two turns: no choice open, two or more seated.
InPlay(s) ==
  /\ Held(s)
  /\ s.phase = "TakingTurn"
  /\ s.pending = None
  /\ Len(s.order) >= 2
  /\ BlufferSeated(s)

LEMMA ChangeTurnSound ==
  ASSUME NEW s, InPlay(s), NEW p \in Seated(s)
  PROVE  Sound(ChangeTurn(s, p))
<1> DEFINE t == ChangeTurn(s, p)
<1>1. p \in Players
  BY DEF InPlay, Held, SeatOrder
<1>2. Held(t)
  BY <1>1, ChangeTurnHeld DEF InPlay
<1>3. /\ t.phase = s.phase /\ t.pending = s.pending /\ t.pendingBluff = s.pendingBluff
      /\ t.order = s.order /\ t.current = p
  BY DEF InPlay, Held, State, ChangeTurn
<1> QED
  BY <1>2, <1>3 DEF InPlay, Sound, BareTable, TurnSeated, ChoiceSeated, BlufferSeated, Seated

LEMMA FinishSound ==
  ASSUME NEW s, Held(s), NEW reason \in FinishReasons
  PROVE  Sound(Finish(s, reason))
<1> DEFINE t == Finish(s, reason)
<1>1. Held(t)
  BY FinishHeld
<1>2. t.phase = "Finished" /\ t.pending = None /\ t.pendingBluff = None
  BY DEF Held, State, Finish, Unchallenged
<1> QED
  BY <1>1, <1>2 DEF Sound, BareTable, TurnSeated, ActivePhases, ChoiceSeated, BlufferSeated

LEMMA GoOutHeld ==
  ASSUME NEW s, Held(s), NEW p \in Seated(s), s.hands[p] = {}
  PROVE  /\ Held(GoOut(s, p))
         /\ Seated(GoOut(s, p)) = Seated(s) \ {p}
         /\ Len(GoOut(s, p).order) = Len(s.order) - 1
<1> DEFINE place == [player |-> p, wentOut |-> TRUE]
           t == GoOut(s, p)
<1>1. p \in Players /\ s.status[p] = "Playing"
  BY DEF Held, SeatOrder
<1>2. Append(s.placements, place) \in Seq(Placement)
  BY <1>1, AppendProperties DEF Held, State, Placement
<1>3. /\ Without(s.order, p) \in Seq(Players)
      /\ Len(Without(s.order, p)) = Len(s.order) - 1
      /\ Range(Without(s.order, p)) = Range(s.order) \ {p}
      /\ IsInjective(Without(s.order, p))
  BY WithoutSeat DEF Held, State, SeatOrder, Seated
<1> HIDE DEF place
<1>4. t = [s EXCEPT !.status[p] = "WentOut",
                    !.placements = Append(s.placements, place),
                    !.order = Without(s.order, p)]
  BY DEF GoOut, place, Held, State
<1>5. t \in State
  <2>1. [s.status EXCEPT ![p] = "WentOut"] \in [Players -> Statuses]
    BY <1>1 DEF Held, State, Statuses
  <2> HIDE DEF t
  <2> QED
    BY <1>2, <1>3, <1>4, <2>1 DEF Held, State
<1>6. /\ t.order = Without(s.order, p)
      /\ t.inventory = s.inventory /\ t.drawPile = s.drawPile /\ t.discards = s.discards
      /\ t.top = s.top /\ t.hands = s.hands
      /\ \A q \in Players : t.status[q] = IF q = p THEN "WentOut" ELSE s.status[q]
  BY <1>1, <1>4 DEF Held, State
<1>7. PileOwnership(t)
  BY <1>6 DEF Held, PileOwnership
<1>8. SeatOrder(t) /\ Seated(t) = Seated(s) \ {p} /\ Len(t.order) = Len(s.order) - 1
  BY <1>1, <1>3, <1>6 DEF Held, SeatOrder, Seated
<1> QED
  BY <1>5, <1>7, <1>8 DEF Held

\* The end of a play leaves a sound table, unless it takes a bluffer away.
LEMMA CompletePlaySound ==
  ASSUME NEW s, InPlay(s), NEW p \in Seated(s), NEW next \in Seated(s),
         s.pendingBluff # None /\ s.pendingBluff.bluffing /\ s.pendingBluff.actor = p
           => s.hands[p] # {}
  PROVE  Sound(CompletePlay(s, p, next))
<1>1. Held(s) /\ s \in State /\ SeatOrder(s) /\ Len(s.order) >= 2
  BY DEF InPlay, Held
<1>2. CASE s.hands[p] # {}
  BY <1>2, ChangeTurnSound DEF CompletePlay
<1>3. CASE s.hands[p] = {}
  <2> DEFINE out == GoOut(s, p)
             fallback == NextSeat(s, p, 1)
             after == IF next = p THEN fallback ELSE next
  <2>1. /\ Held(out)
        /\ Seated(out) = Seated(s) \ {p}
        /\ Len(out.order) = Len(s.order) - 1
    BY <1>1, <1>3, GoOutHeld
  <2>2. after \in Seated(out)
    BY <1>1, <2>1, NextSeatSeated, NextSeatIsOther
  <2>3. Len(s.order) \in Nat
    BY <1>1, LenProperties DEF State
  <2>4. CASE s.rules.EndPolicy = "FirstWinner" \/ Len(out.order) = 1
    <3>1. Held(RecordLast(out))
      BY <1>1, <2>1, <2>3, RecordLastHeld
    <3>2. "Completed" \in FinishReasons
      BY DEF FinishReasons
    <3> HIDE DEF out
    <3> QED
      BY <1>3, <2>1, <2>4, <3>1, <3>2, FinishSound DEF CompletePlay, out
  <2>5. CASE ~(s.rules.EndPolicy = "FirstWinner" \/ Len(out.order) = 1)
    <3>1. /\ out.phase = s.phase /\ out.pending = s.pending
          /\ out.pendingBluff = s.pendingBluff
      BY <1>1 DEF State, GoOut
    <3>2. Len(out.order) >= 2
      <4> DEFINE n == Len(s.order)
                 m == Len(out.order)
      <4>1. n \in Nat /\ n >= 2 /\ m = n - 1 /\ m # 1
        BY <1>1, <2>1, <2>3, <2>5
      <4> HIDE DEF m, n
      <4>2. m >= 2
        BY <4>1
      <4> QED
        BY <4>2 DEF m
    <3>3. BlufferSeated(out)
      BY <1>3, <2>1, <3>1 DEF BlufferSeated, InPlay
    <3>4. InPlay(out)
      BY <2>1, <3>1, <3>2, <3>3 DEF InPlay
    <3>5. CompletePlay(s, p, next) = ChangeTurn(out, after)
      BY <1>3, <2>5 DEF CompletePlay
    <3> QED
      BY <2>2, <3>4, <3>5, ChangeTurnSound
  <2> QED
    BY <2>4, <2>5
<1> QED
  BY <1>2, <1>3

-----------------------------------------------------------------------------
(* Drawing, passing, challenging *)

LEMMA TurnIsInPlay ==
  ASSUME Sound(state), state.phase = "TakingTurn"
  PROVE  InPlay(state)
BY DEF Sound, ChoiceSeated, TurnSeated, InPlay, ActivePhases

\* Dropping the challenge, a draw or a new amount to draw leave a table in play.
LEMMA UnchallengedInPlay ==
  ASSUME NEW s, InPlay(s)
  PROVE  /\ InPlay(Unchallenged(s))
         /\ Seated(Unchallenged(s)) = Seated(s)
         /\ Unchallenged(s).drawCounter = s.drawCounter
<1> DEFINE t == Unchallenged(s)
<1>1. Held(t)
  BY UnchallengedHeld DEF InPlay
<1>2. /\ t.phase = s.phase /\ t.pending = s.pending /\ t.order = s.order
      /\ t.pendingBluff = None /\ t.drawCounter = s.drawCounter
  BY DEF InPlay, Held, State, Unchallenged
<1> QED
  BY <1>1, <1>2 DEF InPlay, BlufferSeated, Seated

LEMMA DrawToInPlay ==
  ASSUME NEW s, InPlay(s), NEW p \in Seated(s), NEW n \in Nat, NEW t \in DrawTo(s, p, n)
  PROVE  InPlay(t) /\ Seated(t) = Seated(s)
<1>1. Held(t) /\ SamePlay(s, t)
  BY DrawToHeld DEF InPlay
<1> QED
  BY <1>1 DEF InPlay, SamePlay, BlufferSeated, Seated

LEMMA CounterInPlay ==
  ASSUME NEW s, InPlay(s), NEW n \in Nat
  PROVE  InPlay([s EXCEPT !.drawCounter = n]) /\ Seated([s EXCEPT !.drawCounter = n]) = Seated(s)
<1> DEFINE t == [s EXCEPT !.drawCounter = n]
<1>1. t \in State
  <2>1. s \in State
    BY DEF InPlay, Held
  <2> QED
    BY <2>1 DEF State
<1>2. /\ t.phase = s.phase /\ t.pending = s.pending /\ t.order = s.order
      /\ t.pendingBluff = s.pendingBluff
      /\ t.inventory = s.inventory /\ t.drawPile = s.drawPile /\ t.discards = s.discards
      /\ t.top = s.top /\ t.hands = s.hands /\ t.status = s.status
  BY DEF InPlay, Held, State
<1>3. PileOwnership(t) /\ SeatOrder(t)
  BY <1>2 DEF InPlay, Held, PileOwnership, SeatOrder, Seated
<1> QED
  BY <1>1, <1>2, <1>3 DEF InPlay, Held, BlufferSeated, Seated

\* Whoever plays has a seat, and the seat ahead is taken.
LEMMA OnTurnSeated ==
  ASSUME NEW p \in Players, Sound(state), state.status[p] = "Playing"
  PROVE  p \in Seated(state)
BY DEF Sound, Held, SeatOrder

LEMMA PassOnSound ==
  ASSUME NEW s, InPlay(s), NEW p \in Seated(s)
  PROVE  Sound(ChangeTurn(s, NextSeat(s, p, 1)))
BY NextSeatSeated, ChangeTurnSound DEF InPlay, Held

LEMMA PassTurnSound ==
  ASSUME NEW p \in Players, Sound(state), PassTurn(p) \/ SkipTurn(p)
  PROVE  Sound(state')
<1>1. InPlay(state) /\ p \in Seated(state)
  BY TurnIsInPlay, OnTurnSeated DEF PassTurn, SkipTurn, OnTurn
<1> QED
  BY <1>1, PassOnSound DEF PassTurn, SkipTurn

LEMMA DrawPenaltySound ==
  ASSUME NEW p \in Players, Sound(state), DrawPenalty(p)
  PROVE  Sound(state')
<1> DEFINE u == Unchallenged(state)
<1>1. InPlay(state) /\ p \in Seated(state) /\ state.drawCounter \in Nat
  BY TurnIsInPlay, OnTurnSeated DEF DrawPenalty, OnTurn, Sound, Held, State
<1>2. InPlay(u) /\ p \in Seated(u)
  BY <1>1, UnchallengedInPlay
<1>3. PICK t \in DrawTo(u, p, state.drawCounter) :
        state' = ChangeTurn([t EXCEPT !.drawCounter = 0], NextSeat(t, p, 1))
  BY DEF DrawPenalty
<1>4. InPlay(t) /\ p \in Seated(t)
  BY <1>1, <1>2, DrawToInPlay
<1>5. NextSeat(t, p, 1) \in Seated(t)
  BY <1>4, NextSeatSeated DEF InPlay, Held
<1> QED
  BY <1>3, <1>4, <1>5, CounterInPlay, ChangeTurnSound

\* A drawn card is a card: the pile and the hand have none in common.
LEMMA OneDrawnInPlay ==
  ASSUME NEW s, InPlay(s), NEW p \in Seated(s), NEW t \in OneDrawn(s, p)
  PROVE  InPlay(t) /\ Seated(t) = Seated(s) /\ t.current = s.current
<1> DEFINE u == Unchallenged(s)
<1>1. InPlay(u) /\ Seated(u) = Seated(s) /\ u.hands = s.hands /\ u.current = s.current
  <2>1. InPlay(u) /\ Seated(u) = Seated(s)
    BY UnchallengedInPlay
  <2>2. s \in State
    BY DEF InPlay, Held
  <2> QED
    BY <2>1, <2>2 DEF State, Unchallenged
<1>2. PICK d \in DrawTo(u, p, 1) :
        t = [d EXCEPT !.drawnCard = CHOOSE c \in d.hands[p] : c \notin s.hands[p]]
  BY DEF OneDrawn
<1>3. InPlay(d) /\ Seated(d) = Seated(s) /\ SamePlay(u, d)
  BY <1>1, <1>2, DrawToInPlay, DrawToHeld DEF InPlay
<1>4. p \in Players /\ d \in State
  BY <1>3 DEF InPlay, Held, SeatOrder
<1> DEFINE card == CHOOSE c \in d.hands[p] : c \notin s.hands[p]
<1>5. card \in Cards
  <2>1. \E c \in d.hands[p] : c \notin s.hands[p]
    <3>1. PICK r \in Draws(u, 1) : d = [u EXCEPT !.hands[p] = @ \cup r.cards,
                                                 !.drawPile = r.drawPile,
                                                 !.discards = r.discards]
      BY <1>2 DEF DrawTo
    <3>2. r.cards # {} /\ r.cards \subseteq u.drawPile \cup u.discards
      <4>1. IsFiniteSet(u.drawPile)
        BY <1>1, CardsOK, FS_Subset DEF CardsAssumption, InPlay, Held, State
      <4>2. CASE 1 <= Cardinality(u.drawPile)
        <5>1. PICK e \in SUBSET u.drawPile : Cardinality(e) = 1 /\ r.cards = e
          BY <4>2 DEF Draws, kSubset
        <5> QED
          BY <5>1, FS_EmptySet
      <4>3. CASE ~(1 <= Cardinality(u.drawPile))
        <5>1. Cardinality(u.drawPile) = 0
          BY <4>1, <4>3, FS_CardinalityType
        <5>2. PICK e \in SUBSET u.discards :
                Cardinality(e) = 1 /\ r.cards = u.drawPile \cup e
          BY <4>3, <5>1 DEF Draws, kSubset
        <5> QED
          BY <5>2, FS_EmptySet
      <4> QED
        BY <4>2, <4>3
    <3>3. d.hands[p] = u.hands[p] \cup r.cards
      BY <1>1, <1>4, <3>1 DEF InPlay, Held, State
    <3>4. u.hands[p] \cap (u.drawPile \cup u.discards) = {}
      BY <1>1, <1>4 DEF InPlay, Held, PileOwnership
    <3> QED
      BY <1>1, <3>2, <3>3, <3>4
  <2>2. card \in d.hands[p]
    BY <2>1
  <2> QED
    BY <1>4, <2>2 DEF State
<1> HIDE DEF card
<1>6. t = [d EXCEPT !.drawnCard = card]
  BY <1>2 DEF card
<1>7. t \in State
  BY <1>4, <1>5, <1>6 DEF State
<1>8. /\ t.phase = d.phase /\ t.pending = d.pending /\ t.order = d.order
      /\ t.pendingBluff = d.pendingBluff /\ t.current = d.current
      /\ t.inventory = d.inventory /\ t.drawPile = d.drawPile /\ t.discards = d.discards
      /\ t.top = d.top /\ t.hands = d.hands /\ t.status = d.status
  BY <1>4, <1>6 DEF State
<1>9. PileOwnership(t) /\ SeatOrder(t)
  BY <1>3, <1>8 DEF InPlay, Held, PileOwnership, SeatOrder, Seated
<1> QED
  BY <1>1, <1>3, <1>7, <1>8, <1>9 DEF InPlay, Held, BlufferSeated, Seated, SamePlay

LEMMA InPlaySound ==
  ASSUME NEW s, InPlay(s), s.current \in Seated(s)
  PROVE  Sound(s)
BY DEF InPlay, Sound, BareTable, TurnSeated, ChoiceSeated

LEMMA DrawOneSound ==
  ASSUME NEW p \in Players, Sound(state), DrawOne(p) \/ DrawOneWeb(p)
  PROVE  Sound(state')
<1>1. InPlay(state) /\ p \in Seated(state) /\ p = state.current
  BY TurnIsInPlay, OnTurnSeated DEF DrawOne, DrawOneWeb, OnTurn
<1>2. PICK t \in OneDrawn(state, p) : state' = ChangeTurn(t, NextSeat(t, p, 1)) \/ state' = t
  BY DEF DrawOne, DrawOneWeb
<1>3. InPlay(t) /\ p \in Seated(t) /\ t.current = p
  BY <1>1, OneDrawnInPlay
<1> QED
  BY <1>2, <1>3, PassOnSound, InPlaySound

LEMMA CallBluffSound ==
  ASSUME NEW p \in Players, Sound(state), CallBluff(p)
  PROVE  Sound(state')
<1> DEFINE u == Unchallenged(state)
           bluff == state.pendingBluff
           loser == IF bluff.bluffing THEN bluff.actor ELSE p
           count == state.drawCounter + (IF bluff.bluffing THEN 0 ELSE WrongCallPenalty)
<1>1. InPlay(state) /\ p \in Seated(state)
  BY TurnIsInPlay, OnTurnSeated DEF CallBluff, OnTurn
<1>2. count \in Nat
  BY EngineOK DEF EngineAssumption, Sound, Held, State
<1>3. loser \in Seated(state)
  BY <1>1 DEF CallBluff, InPlay, BlufferSeated
<1>4. InPlay(u) /\ p \in Seated(u) /\ loser \in Seated(u)
  BY <1>1, <1>3, UnchallengedInPlay
<1>5. PICK t \in DrawTo(u, loser, count) :
        state' = ChangeTurn([t EXCEPT !.drawCounter = 0], NextSeat(t, p, 1))
  BY DEF CallBluff
<1> HIDE DEF loser, count
<1>6. InPlay(t) /\ p \in Seated(t)
  BY <1>2, <1>4, <1>5, DrawToInPlay
<1>7. NextSeat(t, p, 1) \in Seated(t)
  BY <1>6, NextSeatSeated DEF InPlay, Held
<1> QED
  BY <1>5, <1>6, <1>7, CounterInPlay, ChangeTurnSound

-----------------------------------------------------------------------------
(* The lobby and the seats *)

LEMMA NewGameSound ==
  ASSUME NEW rules \in RuleSets
  PROVE  Sound(NewGame(rules))
<1> DEFINE s == NewGame(rules)
<1>1. <<>> \in Seq(Players) /\ <<>> \in Seq(Placement) /\ DOMAIN s.order = {} /\ s.order = <<>>
  BY EmptySeq DEF NewGame
<1>2. s \in State
  BY <1>1 DEF NewGame, State, DeckForRules, Phases, Statuses
<1>3. /\ s.phase = "Lobby" /\ s.drawPile = s.inventory /\ s.discards = {} /\ s.top = None
      /\ s.hands = [p \in Players |-> {}] /\ s.status = [p \in Players |-> "None"]
      /\ s.pending = None /\ s.pendingBluff = None
  BY DEF NewGame
<1>4. s.inventory \subseteq Cards /\ None \notin Cards
  BY <1>2, CardsOK DEF State, CardsAssumption
<1> HIDE DEF s
<1>5. PileOwnership(s)
  BY <1>2, <1>3, <1>4, InventorySplit DEF PileOwnership
<1>6. SeatOrder(s)
  BY <1>1, <1>3 DEF SeatOrder, Seated, Range, IsInjective
<1> QED
  BY <1>2, <1>3, <1>5, <1>6
     DEF s, Sound, Held, BareTable, TurnSeated, ActivePhases, ChoiceSeated, BlufferSeated

LEMMA SetRulesSound ==
  ASSUME NEW rules \in RuleSets, Sound(state), SetRules(rules)
  PROVE  Sound(state')
<1> DEFINE t == state'
<1>1. /\ state \in State /\ state.phase = "Lobby" /\ state.top = None /\ state.discards = {}
      /\ \A p \in Players : state.hands[p] = {}
      /\ state.pending = None /\ state.pendingBluff = None
  BY DEF Sound, Held, BareTable, ChoiceSeated, SetRules
<1>2. CASE CustomDeck
  <2>1. t = [state EXCEPT !.rules = rules]
    BY <1>2 DEF SetRules
  <2>2. t \in State
    BY <1>1, <2>1 DEF State
  <2>3. /\ t.phase = "Lobby" /\ t.inventory = state.inventory /\ t.drawPile = state.drawPile
        /\ t.discards = {} /\ t.top = None /\ t.hands = state.hands
        /\ t.status = state.status /\ t.order = state.order
        /\ t.pending = None /\ t.pendingBluff = None
    BY <1>1, <2>1 DEF State
  <2> HIDE DEF t
  <2>4. PileOwnership(t) /\ SeatOrder(t)
    BY <1>1, <2>3 DEF Sound, Held, PileOwnership, SeatOrder, Seated
  <2> QED
    BY <1>1, <2>2, <2>3, <2>4
       DEF t, Sound, Held, BareTable, TurnSeated, ActivePhases, ChoiceSeated, BlufferSeated
<1>3. CASE ~CustomDeck
  <2> DEFINE deck == DeckForRules(rules)
  <2>1. t = [state EXCEPT !.rules = rules, !.inventory = deck, !.drawPile = deck]
    BY <1>3 DEF SetRules
  <2>2. deck \subseteq Cards /\ None \notin Cards
    BY CardsOK DEF DeckForRules, CardsAssumption
  <2>3. t \in State
    BY <1>1, <2>1, <2>2 DEF State
  <2>4. /\ t.phase = "Lobby" /\ t.inventory = deck /\ t.drawPile = deck
        /\ t.discards = {} /\ t.top = None /\ t.hands = state.hands
        /\ t.status = state.status /\ t.order = state.order
        /\ t.pending = None /\ t.pendingBluff = None
    BY <1>1, <2>1 DEF State
  <2> HIDE DEF t, deck
  <2>5. PileOwnership(t)
    BY <1>1, <2>2, <2>3, <2>4, InventorySplit DEF PileOwnership
  <2>6. SeatOrder(t)
    BY <2>4 DEF Sound, Held, SeatOrder, Seated
  <2> QED
    BY <1>1, <2>3, <2>4, <2>5, <2>6
       DEF t, Sound, Held, BareTable, TurnSeated, ActivePhases, ChoiceSeated, BlufferSeated
<1> QED
  BY <1>2, <1>3

LEMMA CancelGameSound ==
  ASSUME Sound(state), CancelGame
  PROVE  Sound(state')
BY FinishSound DEF Sound, CancelGame, FinishReasons

\* Somebody without a seat gets one, with an empty hand.
SeatTaken(s, p, order) ==
  [s EXCEPT !.status[p] = "Playing", !.hands[p] = {}, !.order = order]

LEMMA SeatTakenHeld ==
  ASSUME NEW s, Held(s), NEW p \in Players, s.status[p] # "Playing",
         NEW order \in Seq(Players), IsInjective(order), Range(order) = Range(s.order) \cup {p}
  PROVE  LET t == SeatTaken(s, p, order)
         IN  /\ Held(t) /\ Seated(t) = Seated(s) \cup {p}
             /\ t.order = order /\ t.hands = s.hands
             /\ t.phase = s.phase /\ t.pending = s.pending /\ t.pendingBluff = s.pendingBluff
             /\ t.current = s.current /\ t.top = s.top /\ t.discards = s.discards
<1> DEFINE t == SeatTaken(s, p, order)
<1>1. s.hands[p] = {} /\ s \in State
  BY DEF Held, PileOwnership
<1>2. /\ [s.status EXCEPT ![p] = "Playing"] \in [Players -> Statuses]
      /\ [s.hands EXCEPT ![p] = {}] \in [Players -> SUBSET Cards]
  BY <1>1 DEF State, Statuses
<1>3. t \in State
  BY <1>1, <1>2 DEF State, SeatTaken
<1>4. /\ t.order = order /\ t.inventory = s.inventory
      /\ t.drawPile = s.drawPile /\ t.discards = s.discards /\ t.top = s.top
      /\ t.phase = s.phase /\ t.pending = s.pending /\ t.pendingBluff = s.pendingBluff
      /\ t.current = s.current
      /\ \A q \in Players : t.status[q] = IF q = p THEN "Playing" ELSE s.status[q]
  BY <1>1 DEF State, SeatTaken
<1>5. t.hands = s.hands
  BY <1>1 DEF State, SeatTaken
<1>6. PileOwnership(t) /\ SeatOrder(t)
  BY <1>4, <1>5 DEF Held, PileOwnership, SeatOrder, Seated
<1> QED
  BY <1>3, <1>4, <1>5, <1>6 DEF Held, Seated

LEMMA JoinLobbySound ==
  ASSUME NEW p \in Players, Sound(state), JoinLobby(p)
  PROVE  Sound(state')
<1> DEFINE order == Append(state.order, p)
<1>1. /\ Held(state) /\ state \in State /\ state.phase = "Lobby"
      /\ state.status[p] # "Playing" /\ p \notin Range(state.order)
      /\ state.order \in Seq(Players) /\ IsInjective(state.order)
  BY DEF JoinLobby, CanJoin, Sound, Held, SeatOrder, Seated, State
<1>2. /\ order \in Seq(Players) /\ IsInjective(order)
      /\ Range(order) = Range(state.order) \cup {p}
  BY <1>1, AppendedSeat
<1> HIDE DEF order
<1>3. state' = SeatTaken(state, p, order)
  BY <1>1 DEF JoinLobby, State, order, SeatTaken
<1>4. /\ Held(state') /\ state'.hands = state.hands
      /\ state'.phase = "Lobby" /\ state'.pending = state.pending
      /\ state'.pendingBluff = state.pendingBluff
      /\ state'.top = state.top /\ state'.discards = state.discards
  BY <1>1, <1>2, <1>3, SeatTakenHeld
<1> QED
  BY <1>1, <1>4
     DEF Sound, BareTable, TurnSeated, ActivePhases, ChoiceSeated, BlufferSeated

LEMMA JoinLateSound ==
  ASSUME NEW p \in Players, Sound(state), JoinLate(p)
  PROVE  Sound(state')
<1> DEFINE seat == SeatOf(state.order, state.current) + (IF state.direction = -1 THEN 1 ELSE 0)
           order == SX!InsertAt(state.order, seat, p)
           s == SeatTaken(state, p, order)
<1>1. /\ Held(state) /\ state \in State /\ state.phase \in ActivePhases
      /\ state.status[p] # "Playing" /\ p \notin Range(state.order)
      /\ state.order \in Seq(Players) /\ IsInjective(state.order)
      /\ state.current \in Range(state.order) /\ Len(state.order) >= 2
  BY DEF JoinLate, CanJoin, Sound, Held, SeatOrder, Seated, State, TurnSeated
<1>2. seat \in 1 .. Len(state.order) + 1 /\ Len(state.order) \in Nat
  BY <1>1, SeatOfSeated, LenProperties
<1> HIDE DEF seat
<1>3. /\ order \in Seq(Players) /\ IsInjective(order)
      /\ Range(order) = Range(state.order) \cup {p}
      /\ Len(order) = Len(state.order) + 1
  BY <1>1, <1>2, InsertedSeat
<1>4. state' \in DrawTo(s, p, HandSize)
  BY <1>1 DEF JoinLate, State, seat, SeatTaken
<1> HIDE DEF order
<1>5. /\ Held(s) /\ Seated(s) = Seated(state) \cup {p}
      /\ s.order = order /\ s.hands = state.hands
      /\ s.phase = state.phase /\ s.pending = state.pending
      /\ s.pendingBluff = state.pendingBluff /\ s.current = state.current
  BY <1>1, <1>3, SeatTakenHeld
<1> HIDE DEF s
<1>6. /\ Held(state') /\ SamePlay(s, state')
      /\ \A q \in Players : s.hands[q] \subseteq state'.hands[q]
  BY <1>4, <1>5, EngineOK, DrawToHeld DEF EngineAssumption
<1>7. /\ state'.phase \in ActivePhases /\ state'.phase = state.phase
      /\ Len(state'.order) >= 2 /\ Seated(state') = Seated(state) \cup {p}
      /\ state'.current = state.current /\ state'.pending = state.pending
      /\ state'.pendingBluff = state.pendingBluff
      /\ \A q \in Players : state.hands[q] \subseteq state'.hands[q]
  BY <1>1, <1>2, <1>3, <1>5, <1>6 DEF SamePlay, Seated
<1>8. Seated(state) \subseteq Players
  BY <1>1 DEF Held, SeatOrder
<1>9. ChoiceSeated(state')
  BY <1>7, <1>8 DEF Sound, ChoiceSeated
<1>10. BareTable(state') /\ TurnSeated(state') /\ BlufferSeated(state')
  BY <1>1, <1>7 DEF Sound, BareTable, ActivePhases, TurnSeated, BlufferSeated, Seated
<1> QED
  BY <1>6, <1>9, <1>10 DEF Sound

\* A departure leaves the cards in the inventory and the others in their seats.
LEMMA VacatedHeld ==
  ASSUME NEW s, Held(s), NEW p \in Seated(s)
  PROVE  LET t == Vacated(s, p)
         IN  /\ Held(t) /\ Seated(t) = Seated(s) \ {p}
             /\ Len(t.order) = Len(s.order) - 1
             /\ \A q \in Players : q # p => t.hands[q] = s.hands[q]
             /\ t.phase = s.phase /\ t.pending = s.pending /\ t.pendingBluff = s.pendingBluff
             /\ t.current = s.current /\ t.top = s.top
<1> DEFINE t == Vacated(s, p)
           order == Without(s.order, p)
<1>1. p \in Players /\ s.status[p] = "Playing" /\ s \in State
  BY DEF Held, SeatOrder
<1>2. /\ order \in Seq(Players) /\ Len(order) = Len(s.order) - 1
      /\ Range(order) = Range(s.order) \ {p} /\ IsInjective(order)
  BY WithoutSeat DEF Held, State, SeatOrder, Seated
<1>3. t = [s EXCEPT !.discards = s.discards \cup s.hands[p],
                    !.hands[p] = {},
                    !.status[p] = "Left",
                    !.order = order]
  BY <1>1 DEF Vacated, State
<1> HIDE DEF t, order
<1>5. t \in State
  <2> DEFINE gone == [s.status EXCEPT ![p] = "Left"]
             hands == [s.hands EXCEPT ![p] = {}]
             pile == s.discards \cup s.hands[p]
  <2>1. gone \in [Players -> Statuses] /\ hands \in [Players -> SUBSET Cards]
        /\ pile \in SUBSET Cards
    BY <1>1 DEF State, Statuses
  <2>2. t = [s EXCEPT !.discards = pile, !.hands = hands, !.status = gone, !.order = order]
    BY <1>1, <1>3 DEF State
  <2> HIDE DEF gone, hands, pile
  <2> QED
    BY <1>1, <1>2, <2>1, <2>2 DEF State
<1>6. /\ t.order = order /\ t.inventory = s.inventory
      /\ t.drawPile = s.drawPile /\ t.top = s.top
      /\ t.phase = s.phase /\ t.pending = s.pending /\ t.pendingBluff = s.pendingBluff
      /\ t.current = s.current
      /\ t.discards = s.discards \cup s.hands[p]
  BY <1>1, <1>3 DEF State
<1>7. /\ \A q \in Players : t.status[q] = IF q = p THEN "Left" ELSE s.status[q]
      /\ \A q \in Players : t.hands[q] = IF q = p THEN {} ELSE s.hands[q]
  BY <1>1, <1>3 DEF State
<1>8. PileOwnership(t)
  <2>1. ASSUME NEW c
        PROVE  c \in t.inventory <=> \/ c \in t.drawPile \cup t.discards
                                     \/ c = t.top /\ c # None
                                     \/ \E q \in Players : c \in t.hands[q]
    <3>1. c \in s.inventory <=> \/ c \in s.drawPile \cup s.discards
                                \/ c = s.top /\ c # None
                                \/ \E q \in Players : c \in s.hands[q]
      BY <1>1, InventorySplit DEF Held, PileOwnership
    <3>2. (\E q \in Players : c \in s.hands[q])
            <=> c \in s.hands[p] \/ \E q \in Players : c \in t.hands[q]
      BY <1>1, <1>7
    <3> QED
      BY <1>6, <3>1, <3>2
  <2>2. /\ t.drawPile \cap t.discards = {} /\ t.top \notin t.drawPile \cup t.discards
        /\ \A q \in Players : t.hands[q] \cap (t.drawPile \cup t.discards \cup {t.top}) = {}
        /\ \A q, r \in Players : q # r => t.hands[q] \cap t.hands[r] = {}
        /\ \A q \in Players : t.status[q] # "Playing" => t.hands[q] = {}
    BY <1>1, <1>6, <1>7 DEF Held, PileOwnership
  <2> QED
    BY <1>5, <2>1, <2>2, InventorySplit DEF PileOwnership
<1>9. SeatOrder(t) /\ Seated(t) = Seated(s) \ {p} /\ Len(t.order) = Len(s.order) - 1
  BY <1>1, <1>2, <1>6, <1>7 DEF Held, SeatOrder, Seated
<1> QED
  BY <1>5, <1>6, <1>7, <1>8, <1>9 DEF Held, t

\* What holds of a running game between the moment p's seat is gone and the
\* moment every choice and challenge that involved p is settled.
Gap(s, p) ==
  /\ Held(s) /\ p \notin Seated(s) /\ s.phase \in ActivePhases /\ Len(s.order) >= 2
  /\ s.current # p => s.current \in Seated(s)
  /\ s.phase = "ChoosingPlayer" => s.pendingBluff = None
  /\ s.pending # None =>
       /\ s.phase = "ChoosingColor" /\ s.pendingBluff = None
       /\ s.pending.actor \in Seated(s)
       /\ s.pending.target # p => s.pending.target \in Seated(s)
       /\ s.pending.bluffing => s.hands[s.pending.actor] # {} /\ s.pending.swapTarget = None
  /\ s.pendingBluff # None /\ s.pendingBluff.bluffing /\ s.pendingBluff.actor # p =>
       s.pendingBluff.actor \in Seated(s)

LEMMA ReopenSwapGap ==
  ASSUME NEW p, NEW s, Gap(s, p)
  PROVE  Gap(ReopenSwap(s, p), p) /\ Seated(ReopenSwap(s, p)) = Seated(s)
<1>1. CASE s.pending # None /\ s.pending.swapHands /\ s.pending.swapTarget = p
  <2> DEFINE t == ReopenSwap(s, p)
  <2>1. t = [s EXCEPT !.pending = None, !.phase = "ChoosingPlayer"] /\ s \in State
    BY <1>1 DEF ReopenSwap, Gap, Held
  <2> HIDE DEF t
  <2>2. t \in State
    BY ZenonT(30), <2>1 DEF State, Phases
  <2>3. /\ t.phase = "ChoosingPlayer" /\ t.pending = None /\ t.pendingBluff = s.pendingBluff
        /\ t.order = s.order /\ t.current = s.current /\ t.status = s.status
        /\ t.inventory = s.inventory /\ t.drawPile = s.drawPile /\ t.discards = s.discards
        /\ t.top = s.top /\ t.hands = s.hands
    BY <2>1 DEF State
  <2>4. PileOwnership(t) /\ SeatOrder(t) /\ Seated(t) = Seated(s)
    BY <2>3 DEF Gap, Held, PileOwnership, SeatOrder, Seated
  <2>5. s.pendingBluff = None
    BY <1>1 DEF Gap
  <2> QED
    BY <2>2, <2>3, <2>4, <2>5 DEF t, Gap, Held, ActivePhases
<1>2. CASE ~(s.pending # None /\ s.pending.swapHands /\ s.pending.swapTarget = p)
  BY <1>2 DEF ReopenSwap
<1> QED
  BY <1>1, <1>2

LEMMA RetargetGap ==
  ASSUME NEW p, NEW s, Gap(s, p)
  PROVE  /\ Gap(Retarget(s, p), p) /\ Seated(Retarget(s, p)) = Seated(s)
         /\ Retarget(s, p).pending # None => Retarget(s, p).pending.target \in Seated(s)
<1>1. CASE s.pending # None /\ s.pending.target = p
  <2> DEFINE t == Retarget(s, p)
             q == NextSeat(s, s.pending.actor, 1)
             choice == [s.pending EXCEPT !.target = q]
  <2>1. s \in State /\ q \in Seated(s) /\ Seated(s) \subseteq Players
    BY <1>1, NextSeatSeated DEF Gap, Held, SeatOrder
  <2>2. s.pending \in ColorChoice
    BY <1>1, <2>1 DEF State
  <2> HIDE DEF q
  <2>3. choice \in ColorChoice /\ choice.target = q /\ choice.actor = s.pending.actor
        /\ choice.bluffing = s.pending.bluffing /\ choice.swapTarget = s.pending.swapTarget
    BY <2>1, <2>2 DEF ColorChoice
  <2>4. t = [s EXCEPT !.pending = choice]
    BY <1>1, <2>1, <2>2 DEF Retarget, q, State
  <2> HIDE DEF t, choice
  <2>5. t \in State
    BY <2>1, <2>3, <2>4 DEF State
  <2>6. /\ t.phase = s.phase /\ t.pending = choice /\ t.pendingBluff = s.pendingBluff
        /\ t.order = s.order /\ t.current = s.current /\ t.status = s.status
        /\ t.inventory = s.inventory /\ t.drawPile = s.drawPile /\ t.discards = s.discards
        /\ t.top = s.top /\ t.hands = s.hands
    BY <2>1, <2>4 DEF State
  <2>7. PileOwnership(t) /\ SeatOrder(t) /\ Seated(t) = Seated(s)
    BY <2>6 DEF Gap, Held, PileOwnership, SeatOrder, Seated
  <2> QED
    BY <1>1, <2>1, <2>3, <2>5, <2>6, <2>7 DEF t, Gap, Held
<1>2. CASE ~(s.pending # None /\ s.pending.target = p)
  BY <1>2 DEF Retarget, Gap
<1> QED
  BY <1>1, <1>2

LEMMA DropBluffGap ==
  ASSUME NEW p, NEW s, Gap(s, p), s.pending # None => s.pending.target \in Seated(s)
  PROVE  LET t == DropBluff(s, p)
         IN  /\ Gap(t, p) /\ Seated(t) = Seated(s) /\ t.current = s.current
             /\ BlufferSeated(t) /\ ChoiceSeated(t)
<1> DEFINE t == DropBluff(s, p)
<1>1. CASE s.pendingBluff # None /\ p \in {s.pendingBluff.actor, s.pendingBluff.target}
  <2>1. t = Unchallenged(s) /\ s \in State
    BY <1>1 DEF DropBluff, Gap, Held
  <2> HIDE DEF t
  <2>2. Held(t)
    BY <2>1, UnchallengedHeld DEF Gap
  <2>3. /\ t.phase = s.phase /\ t.pending = s.pending /\ t.pendingBluff = None
        /\ t.order = s.order /\ t.current = s.current /\ t.hands = s.hands
    BY <2>1 DEF State, Unchallenged
  <2> QED
    BY <2>2, <2>3 DEF t, Gap, Seated, ChoiceSeated, BlufferSeated, ActivePhases
<1>2. CASE ~(s.pendingBluff # None /\ p \in {s.pendingBluff.actor, s.pendingBluff.target})
  <2>1. t = s
    BY <1>2 DEF DropBluff
  <2> HIDE DEF t
  <2> QED
    BY <1>2, <2>1 DEF t, Gap, ChoiceSeated, BlufferSeated, ActivePhases
<1> QED
  BY <1>1, <1>2

\* Right after the seat is given up only choices and challenges are unsettled.
LEMMA VacatedGap ==
  ASSUME Sound(state), state.phase \in ActivePhases, NEW p \in Seated(state),
         state.pending # None => state.pending.actor # p, Len(state.order) > 2
  PROVE  Gap(Vacated(state, p), p)
<1> DEFINE s == Vacated(state, p)
<1>1. /\ Held(state) /\ state \in State /\ Seated(state) \subseteq Players
      /\ Len(state.order) \in Nat
  BY LenProperties DEF Sound, Held, SeatOrder, State
<1>2. /\ Held(s) /\ Seated(s) = Seated(state) \ {p}
      /\ Len(s.order) = Len(state.order) - 1
      /\ \A q \in Players : q # p => s.hands[q] = state.hands[q]
      /\ s.phase = state.phase /\ s.pending = state.pending
      /\ s.pendingBluff = state.pendingBluff
      /\ s.current = state.current
  BY <1>1, VacatedHeld
<1> HIDE DEF s
<1>3. Len(s.order) >= 2
  BY <1>1, <1>2
<1>4. TurnSeated(state) /\ ChoiceSeated(state) /\ BlufferSeated(state)
  BY DEF Sound
<1>5. s.current # p => s.current \in Seated(s)
  BY <1>2, <1>4 DEF TurnSeated
<1>6. s.pending # None =>
        /\ s.phase = "ChoosingColor" /\ s.pendingBluff = None
        /\ s.pending.actor \in Seated(s)
        /\ s.pending.target # p => s.pending.target \in Seated(s)
        /\ s.pending.bluffing =>
             s.hands[s.pending.actor] # {} /\ s.pending.swapTarget = None
  BY <1>1, <1>2, <1>4 DEF ChoiceSeated
<1>7. s.pendingBluff # None /\ s.pendingBluff.bluffing /\ s.pendingBluff.actor # p =>
        s.pendingBluff.actor \in Seated(s)
  BY <1>2, <1>4 DEF BlufferSeated
<1>8. Gap(s, p)
  BY <1>2, <1>3, <1>4, <1>5, <1>6, <1>7 DEF Gap, ChoiceSeated
<1> QED
  BY <1>8 DEF s

LEMMA LeaveGameSound ==
  ASSUME NEW p \in Players, Sound(state), LeaveGame(p)
  PROVE  Sound(state')
<1> DEFINE s == Vacated(state, p)
           next == NextSeat(state, p, 1)
<1>1. /\ p \in Seated(state) /\ Held(state) /\ state \in State
      /\ state.pending # None => state.pending.actor # p
      /\ Seated(state) \subseteq Players
  BY OnTurnSeated DEF LeaveGame, Sound, Held, SeatOrder
<1>2. /\ Held(s) /\ Seated(s) = Seated(state) \ {p}
      /\ Len(s.order) = Len(state.order) - 1
      /\ \A q \in Players : q # p => s.hands[q] = state.hands[q]
      /\ s.phase = state.phase /\ s.pending = state.pending
      /\ s.pendingBluff = state.pendingBluff
      /\ s.current = state.current /\ s.top = state.top
  BY <1>1, VacatedHeld
<1>3. CASE state.phase = "Lobby" /\ state' = s
  <2>1. s.discards = {} /\ s.hands[p] = {}
    BY <1>1, <1>3 DEF Vacated, State, Sound, BareTable
  <2> HIDE DEF s
  <2> QED
    BY <1>1, <1>2, <1>3, <2>1
       DEF Sound, BareTable, TurnSeated, ActivePhases, ChoiceSeated, BlufferSeated
<1>4. CASE Len(s.order) <= 1
           /\ state' = Finish(IF Len(s.order) = 1 THEN RecordLast(s) ELSE s, "Departure")
  <2>1. "Departure" \in FinishReasons
    BY DEF FinishReasons
  <2> HIDE DEF s
  <2>2. ASSUME Len(s.order) = 1 PROVE Held(RecordLast(s))
    <3>1. Len(s.order) >= 1
      BY <2>2
    <3> QED
      BY <1>2, <3>1, RecordLastHeld
  <2> QED
    BY <1>2, <1>4, <2>1, <2>2, FinishSound
<1>5. CASE /\ state.phase # "Lobby" /\ Len(s.order) > 1
           /\ state' = PassSeat(DropBluff(Retarget(ReopenSwap(s, p), p), p), p, next)
  <2>1. state.phase \in ActivePhases
    BY <1>1, <1>5 DEF LeaveGame, State, Phases, ActivePhases
  <2>2. Len(s.order) >= 2
    <3>1. Len(s.order) \in Nat
      BY <1>2, LenProperties DEF Held, State
    <3> QED
      BY <1>5, <3>1
  <2>3. next \in Seated(s)
    <3>1. Len(state.order) >= 2
      BY <2>1 DEF Sound, TurnSeated
    <3>2. next \in Seated(state) /\ next # p
      BY <1>1, <3>1, NextSeatSeated, NextSeatIsOther DEF Held
    <3> QED
      BY <1>2, <3>2
  <2> HIDE DEF s, next
  <2>4. Gap(s, p)
    <3>1. Len(state.order) > 2
      <4>1. Len(state.order) \in Nat /\ Len(s.order) = Len(state.order) - 1
        BY <1>1, <1>2, LenProperties DEF State
      <4> QED
        BY <2>2, <4>1
    <3> QED
      BY <1>1, <2>1, <3>1, VacatedGap DEF s
  <2> DEFINE s1 == ReopenSwap(s, p)
             s2 == Retarget(s1, p)
             s3 == DropBluff(s2, p)
  <2>5. Gap(s1, p) /\ Seated(s1) = Seated(s)
    BY <2>4, ReopenSwapGap
  <2> HIDE DEF s1
  <2>6. /\ Gap(s2, p) /\ Seated(s2) = Seated(s)
        /\ s2.pending # None => s2.pending.target \in Seated(s2)
    BY <2>5, RetargetGap
  <2> HIDE DEF s2
  <2>7. /\ Gap(s3, p) /\ Seated(s3) = Seated(s) /\ BlufferSeated(s3) /\ ChoiceSeated(s3)
    BY <2>6, DropBluffGap
  <2>8. state' = PassSeat(s3, p, next)
    BY <1>5 DEF s1, s2
  <2> HIDE DEF s3
  <2>9. CASE s3.current # p
    BY <2>7, <2>8, <2>9 DEF PassSeat, Gap, Sound, TurnSeated, BareTable, ActivePhases
  <2>10. CASE s3.current = p
    <3> DEFINE t == ChangeTurn(s3, next)
    <3>1. state' = t /\ s3 \in State /\ next \in Players
      BY <1>1, <1>2, <2>3, <2>7, <2>8, <2>10 DEF PassSeat, Gap, Held
    <3>2. Held(t)
      BY <2>7, <3>1, ChangeTurnHeld DEF Gap
    <3>3. /\ t.phase = s3.phase /\ t.pending = s3.pending /\ t.pendingBluff = s3.pendingBluff
          /\ t.order = s3.order /\ t.current = next /\ t.hands = s3.hands
      BY <3>1 DEF State, ChangeTurn
    <3> HIDE DEF t
    <3> QED
      BY <2>3, <2>7, <3>1, <3>2, <3>3
         DEF Gap, Sound, TurnSeated, BareTable, ActivePhases, ChoiceSeated, BlufferSeated, Seated
  <2> QED
    BY <2>9, <2>10
<1> QED
  BY <1>3, <1>4, <1>5 DEF LeaveGame

-----------------------------------------------------------------------------
(* Playing a card *)

LEMMA DiscardedHeld ==
  ASSUME NEW s, Held(s), NEW p \in Players, NEW c \in s.hands[p]
  PROVE  LET t == Discarded(s, p, c)
         IN  /\ Held(t) /\ Seated(t) = Seated(s) /\ t.order = s.order
             /\ t.phase = s.phase /\ t.pending = s.pending /\ t.pendingBluff = None
             /\ t.current = s.current /\ t.top = c
<1> DEFINE t == Discarded(s, p, c)
           hands == [s.hands EXCEPT ![p] = @ \ {c}]
           below == s.discards \cup ({s.top} \ {None})
<1>1. s \in State /\ c \in Cards /\ None \notin Cards
  BY CardsOK DEF Held, State, CardsAssumption
<1>2. hands \in [Players -> SUBSET Cards] /\ below \in SUBSET Cards
  BY <1>1 DEF State
<1>3. \A q \in Players : hands[q] = IF q = p THEN s.hands[p] \ {c} ELSE s.hands[q]
  BY <1>1 DEF State
<1>4. t = [s EXCEPT !.pendingBluff = None, !.challengeable = FALSE,
                    !.hands = hands, !.discards = below, !.top = c, !.drawnCard = None]
  BY <1>1 DEF Discarded, Unchallenged, State
<1> HIDE DEF t, hands
<1>5. t \in State
  <2> DEFINE u == [s EXCEPT !.pendingBluff = None, !.challengeable = FALSE]
             v == [u EXCEPT !.hands = hands, !.discards = below]
  <2>1. u \in State
    BY <1>1 DEF State
  <2>2. t = [v EXCEPT !.top = c, !.drawnCard = None]
    BY <1>1, <1>4 DEF State
  <2> HIDE DEF u, below
  <2>3. v \in State
    BY ZenonT(30), <1>2, <2>1 DEF State
  <2> HIDE DEF v
  <2>4. c \in Cards \cup {None} /\ None \in Cards \cup {None}
    BY <1>1
  <2>5. [v EXCEPT !.top = c, !.drawnCard = None] \in State
    BY ZenonT(30), <2>3, <2>4 DEF State
  <2> QED
    BY <2>2, <2>5
<1>6. /\ t.order = s.order /\ t.status = s.status /\ t.phase = s.phase
      /\ t.pending = s.pending /\ t.pendingBluff = None /\ t.current = s.current
      /\ t.inventory = s.inventory /\ t.drawPile = s.drawPile
      /\ t.discards = below /\ t.top = c /\ t.hands = hands
  BY <1>1, <1>4 DEF State
<1>7. PileOwnership(t)
  <2>1. ASSUME NEW x
        PROVE  x \in t.inventory <=> \/ x \in t.drawPile \cup t.discards
                                     \/ x = t.top /\ x # None
                                     \/ \E q \in Players : x \in t.hands[q]
    <3>1. x \in s.inventory <=> \/ x \in s.drawPile \cup s.discards
                                \/ x = s.top /\ x # None
                                \/ \E q \in Players : x \in s.hands[q]
      BY <1>1, InventorySplit DEF Held, PileOwnership
    <3>2. (\E q \in Players : x \in s.hands[q]) <=> x = c \/ \E q \in Players : x \in t.hands[q]
      BY <1>3, <1>6
    <3> QED
      BY <1>1, <1>6, <3>1, <3>2
  <2>2. \A q, r \in Players : q # r => s.hands[q] \cap s.hands[r] = {}
    BY DEF Held, PileOwnership
  <2>3. c \notin s.drawPile \cup s.discards /\ c # s.top
    BY DEF Held, PileOwnership
  <2>4. /\ t.drawPile \cap t.discards = {} /\ t.top \notin t.drawPile \cup t.discards
        /\ \A q \in Players : t.hands[q] \cap (t.drawPile \cup t.discards \cup {t.top}) = {}
        /\ \A q, r \in Players : q # r => t.hands[q] \cap t.hands[r] = {}
        /\ \A q \in Players : t.status[q] # "Playing" => t.hands[q] = {}
    BY <1>1, <1>3, <1>6, <2>2, <2>3 DEF Held, PileOwnership
  <2> QED
    BY <1>5, <2>1, <2>4, InventorySplit DEF PileOwnership
<1>8. SeatOrder(t) /\ Seated(t) = Seated(s)
  BY <1>6 DEF Held, SeatOrder, Seated
<1> QED
  BY <1>3, <1>5, <1>6, <1>7, <1>8 DEF Held, t

\* A card put down by the player on turn leaves a table in play, no challenge open.
LEMMA DiscardedInPlay ==
  ASSUME NEW p \in Players, NEW c, Sound(state), OnTurn(p, "TakingTurn"), Playable(state, p, c)
  PROVE  LET t == Discarded(state, p, c)
         IN  /\ InPlay(t) /\ p \in Seated(t) /\ t.pendingBluff = None /\ t.current = p
             /\ c \in Cards /\ t.top = c
<1>1. InPlay(state) /\ p \in Seated(state) /\ p = state.current /\ c \in state.hands[p]
  BY TurnIsInPlay, OnTurnSeated DEF OnTurn, Playable
<1>2. Held(state) /\ c \in Cards
  BY <1>1 DEF InPlay, Held, State
<1> DEFINE t == Discarded(state, p, c)
<1>3. /\ Held(t) /\ Seated(t) = Seated(state) /\ t.order = state.order
      /\ t.phase = state.phase /\ t.pending = state.pending /\ t.pendingBluff = None
      /\ t.current = state.current /\ t.top = c
  BY <1>1, <1>2, DiscardedHeld
<1> HIDE DEF t
<1>4. InPlay(t)
  BY <1>1, <1>3 DEF InPlay, BlufferSeated
<1> QED
  BY <1>1, <1>2, <1>3, <1>4 DEF t

LEMMA PlaySwapHandsSound ==
  ASSUME NEW p \in Players, NEW c, Sound(state), PlaySwapHands(p, c)
  PROVE  Sound(state')
<1> DEFINE s == Discarded(state, p, c)
<1>1. InPlay(s) /\ p \in Seated(s) /\ s.pendingBluff = None /\ s.current = p
  BY DiscardedInPlay DEF PlaySwapHands
<1>2. CASE state' = CompletePlay(s, p, NextSeat(s, p, 1))
  <2>1. NextSeat(s, p, 1) \in Seated(s)
    BY <1>1, NextSeatSeated DEF InPlay, Held
  <2> HIDE DEF s
  <2> QED
    BY <1>1, <1>2, <2>1, CompletePlaySound
<1>3. CASE state' = [s EXCEPT !.phase = "ChoosingPlayer"]
  <2> DEFINE t == state'
  <2> HIDE DEF s
  <2>1. s \in State
    BY <1>1 DEF InPlay, Held
  <2>2. t \in State
    BY ZenonT(30), <1>3, <2>1 DEF State, Phases
  <2>3. /\ t.phase = "ChoosingPlayer" /\ t.pending = s.pending /\ t.pendingBluff = None
        /\ t.order = s.order /\ t.current = p /\ t.status = s.status
        /\ t.inventory = s.inventory /\ t.drawPile = s.drawPile /\ t.discards = s.discards
        /\ t.top = s.top /\ t.hands = s.hands
    BY <1>1, <1>3, <2>1 DEF State
  <2> HIDE DEF t
  <2>4. PileOwnership(t) /\ SeatOrder(t)
    BY <1>1, <2>3 DEF InPlay, Held, PileOwnership, SeatOrder, Seated
  <2>5. Sound(t)
    BY <1>1, <2>2, <2>3, <2>4
       DEF Sound, Held, InPlay, BareTable, TurnSeated, ChoiceSeated, BlufferSeated, Seated
  <2> QED
    BY <2>5 DEF t
<1> QED
  BY <1>2, <1>3 DEF PlaySwapHands

LEMMA ChoiceOpenedType ==
  ASSUME NEW s \in State, NEW choice \in ColorChoice
  PROVE  [s EXCEPT !.phase = "ChoosingColor", !.pending = choice] \in State
<1>1. "ChoosingColor" \in Phases /\ choice \in ColorChoice \cup {None}
  BY DEF Phases
<1> QED
  BY <1>1 DEF State

\* Opening a colour choice at a table in play without a challenge.
LEMMA ChoiceOpened ==
  ASSUME NEW s, Held(s), s.phase \in {"TakingTurn", "ChoosingPlayer"}, Len(s.order) >= 2,
         s.pendingBluff = None, NEW p \in Seated(s), s.current = p,
         NEW choice \in ColorChoice, choice.actor = p, choice.target \in Seated(s),
         choice.bluffing => s.hands[p] # {} /\ choice.swapTarget = None
  PROVE  Sound([s EXCEPT !.phase = "ChoosingColor", !.pending = choice])
<1> DEFINE t == [s EXCEPT !.phase = "ChoosingColor", !.pending = choice]
<1>1. s \in State
  BY DEF Held
<1>2. t \in State
  BY <1>1, ChoiceOpenedType
<1>3. /\ t.phase = "ChoosingColor" /\ t.pending = choice /\ t.pendingBluff = None
      /\ t.order = s.order /\ t.current = p /\ t.status = s.status
      /\ t.inventory = s.inventory /\ t.drawPile = s.drawPile /\ t.discards = s.discards
      /\ t.top = s.top /\ t.hands = s.hands
  BY <1>1 DEF State
<1> HIDE DEF t
<1>4. PileOwnership(t) /\ SeatOrder(t) /\ Seated(t) = Seated(s)
  BY <1>3 DEF Held, PileOwnership, SeatOrder, Seated
<1> QED
  BY <1>2, <1>3, <1>4
     DEF t, Sound, Held, BareTable, TurnSeated, ChoiceSeated, BlufferSeated

LEMMA PlayWildSound ==
  ASSUME NEW p \in Players, NEW c, Sound(state), PlayWild(p, c)
  PROVE  Sound(state')
<1> DEFINE s == Discarded(state, p, c)
           stacked == /\ state.drawCounter > 0
                      /\ RankOf[state.top] = DrawTwo
                      /\ state.rules.StackWildDrawFourOnTwo
           open == RankOf[c] = WildDrawFour /\ ~stacked
           bluffing == open /\ \E d \in s.hands[p] : ColorOf[d] = s.activeColor
           cost == IF RankOf[c] = WildDrawFour THEN FourPenalty ELSE 0
           target == NextSeat(s, p, 1)
           choice == [ actor |-> p,
                       target |-> target,
                       previousColor |-> s.activeColor,
                       drawCount |-> cost,
                       initial |-> FALSE,
                       bluffing |-> bluffing,
                       challengeable |-> open,
                       swapHands |-> FALSE,
                       swapTarget |-> None ]
<1>1. /\ InPlay(s) /\ p \in Seated(s) /\ s.pendingBluff = None /\ s.current = p
  BY DiscardedInPlay DEF PlayWild
<1>2. state' = [s EXCEPT !.phase = "ChoosingColor", !.pending = choice]
  BY DEF PlayWild
<1>3. bluffing \in BOOLEAN /\ open \in BOOLEAN /\ cost \in {0, FourPenalty}
  OBVIOUS
<1>4. bluffing => s.hands[p] # {}
  OBVIOUS
<1> HIDE DEF s, bluffing, open, cost
<1>5. target \in Seated(s) /\ target \in Players
  BY <1>1, NextSeatSeated DEF InPlay, Held, SeatOrder
<1>6. s.activeColor \in Colors \cup {None}
  BY <1>1 DEF InPlay, Held, State
<1> HIDE DEF target
<1>7. /\ choice \in ColorChoice /\ choice.actor = p /\ choice.target = target
      /\ choice.bluffing = bluffing /\ choice.swapTarget = None
  BY <1>3, <1>5, <1>6 DEF ColorChoice
<1> HIDE DEF choice
<1> QED
  BY <1>1, <1>2, <1>4, <1>5, <1>7, ChoiceOpened DEF InPlay

\* Who holds what, who sits where, and what is open: all that a table in play
\* is about.
SameTable(s, t) ==
  /\ t.phase = s.phase /\ t.pending = s.pending /\ t.pendingBluff = s.pendingBluff
  /\ t.order = s.order /\ t.status = s.status
  /\ t.inventory = s.inventory /\ t.drawPile = s.drawPile /\ t.discards = s.discards
  /\ t.top = s.top /\ t.hands = s.hands

LEMMA SameTableInPlay ==
  ASSUME NEW s, InPlay(s), NEW t \in State, SameTable(s, t)
  PROVE  InPlay(t) /\ Seated(t) = Seated(s) /\ t.pendingBluff = s.pendingBluff
<1>1. PileOwnership(t) /\ SeatOrder(t) /\ Seated(t) = Seated(s)
  BY DEF SameTable, InPlay, Held, PileOwnership, SeatOrder, Seated
<1> QED
  BY <1>1 DEF SameTable, InPlay, Held, BlufferSeated

\* The colour, the direction and the penalty do not matter to a table in play.
LEMMA ColorInPlay ==
  ASSUME NEW s, InPlay(s), NEW color \in Colors \cup {None}
  PROVE  /\ InPlay([s EXCEPT !.activeColor = color])
         /\ Seated([s EXCEPT !.activeColor = color]) = Seated(s)
         /\ [s EXCEPT !.activeColor = color].pendingBluff = s.pendingBluff
<1>1. s \in State
  BY DEF InPlay, Held
<1>2. [s EXCEPT !.activeColor = color] \in State
  BY <1>1 DEF State
<1>3. SameTable(s, [s EXCEPT !.activeColor = color])
  BY <1>1 DEF State, SameTable
<1> QED
  BY <1>2, <1>3, SameTableInPlay

LEMMA DirectionInPlay ==
  ASSUME NEW s, InPlay(s)
  PROVE  /\ InPlay([s EXCEPT !.direction = -@])
         /\ Seated([s EXCEPT !.direction = -@]) = Seated(s)
         /\ [s EXCEPT !.direction = -@].pendingBluff = s.pendingBluff
<1>1. s \in State
  BY DEF InPlay, Held
<1>2. s.direction \in {-1, 1} /\ -(s.direction) \in {-1, 1}
  BY <1>1 DEF State
<1>3. [s EXCEPT !.direction = -@] \in State
  BY ZenonT(30), <1>1, <1>2 DEF State
<1>4. SameTable(s, [s EXCEPT !.direction = -@])
  BY <1>1 DEF State, SameTable
<1> QED
  BY <1>3, <1>4, SameTableInPlay

LEMMA ColoredEffectsSound ==
  ASSUME NEW s, InPlay(s), s.pendingBluff = None, NEW p \in Seated(s),
         NEW t \in ColoredEffects(s, p)
  PROVE  Sound(t)
<1> DEFINE next == NextSeat(s, p, 1)
           reversed == [s EXCEPT !.direction = -@]
           raised == [s EXCEPT !.drawCounter = @ + TwoPenalty]
<1>1. s \in State /\ s.drawCounter \in Nat /\ TwoPenalty \in Nat
  BY EngineOK DEF InPlay, Held, State, EngineAssumption
<1>2. \A k \in {1, 2} : NextSeat(s, p, k) \in Seated(s)
  BY <1>1, NextSeatSeated
<1>3. InPlay(reversed) /\ Seated(reversed) = Seated(s) /\ reversed.pendingBluff = None
  BY DirectionInPlay
<1>4. InPlay(raised) /\ Seated(raised) = Seated(s) /\ raised.pendingBluff = None
  <2>1. raised = [s EXCEPT !.drawCounter = s.drawCounter + TwoPenalty]
    BY <1>1 DEF State
  <2>2. s.drawCounter + TwoPenalty \in Nat
    BY <1>1
  <2>3. raised.pendingBluff = None
    BY <1>1 DEF State
  <2> HIDE DEF raised
  <2> QED
    BY <2>1, <2>2, <2>3, CounterInPlay
<1>5. CASE t = CompletePlay(s, p, NextSeat(s, p, 2)) \/ t = CompletePlay(s, p, p)
           \/ t = CompletePlay(s, p, next)
  BY <1>2, <1>5, CompletePlaySound
<1>6. CASE t = CompletePlay(reversed, p, NextSeat(reversed, p, 1))
  <2> HIDE DEF reversed
  <2>1. NextSeat(reversed, p, 1) \in Seated(reversed)
    BY <1>3, NextSeatSeated DEF InPlay, Held
  <2> QED
    BY <1>3, <1>6, <2>1, CompletePlaySound
<1>7. CASE t = CompletePlay(raised, p, next)
  <2> HIDE DEF raised
  <2> QED
    BY <1>2, <1>4, <1>7, CompletePlaySound
<1>8. CASE t \in {CompletePlay(u, p, NextSeat(u, p, 2)) : u \in DrawTo(s, next, TwoPenalty)}
  <2>1. PICK u \in DrawTo(s, next, TwoPenalty) : t = CompletePlay(u, p, NextSeat(u, p, 2))
    BY <1>8
  <2>2. InPlay(u) /\ Seated(u) = Seated(s) /\ u.pendingBluff = None
    BY <1>1, <1>2, <2>1, DrawToInPlay, DrawToHeld DEF InPlay, SamePlay
  <2>3. NextSeat(u, p, 2) \in Seated(u)
    BY <2>2, NextSeatSeated DEF InPlay, Held
  <2> QED
    BY <2>1, <2>2, <2>3, CompletePlaySound
<1> QED
  BY <1>5, <1>6, <1>7, <1>8 DEF ColoredEffects

LEMMA PlayColoredSound ==
  ASSUME NEW p \in Players, NEW c, Sound(state), PlayColored(p, c)
  PROVE  Sound(state')
<1> DEFINE s == Discarded(state, p, c)
           u == [s EXCEPT !.activeColor = ColorOf[c]]
<1>1. InPlay(s) /\ p \in Seated(s) /\ s.pendingBluff = None /\ c \in Cards
  BY DiscardedInPlay DEF PlayColored
<1>2. ColorOf[c] \in Colors \cup {None}
  BY <1>1, CardsOK DEF CardsAssumption
<1>3. state' \in ColoredEffects(u, p)
  BY DEF PlayColored
<1> HIDE DEF s
<1>4. InPlay(u) /\ Seated(u) = Seated(s) /\ u.pendingBluff = None
  BY <1>1, <1>2, ColorInPlay
<1> HIDE DEF u
<1> QED
  BY <1>1, <1>3, <1>4, ColoredEffectsSound

-----------------------------------------------------------------------------
(* Choices *)

LEMMA SwapChoiceSound ==
  ASSUME NEW p \in Players, Sound(state), OnTurn(p, "ChoosingPlayer"),
         NEW target \in Players \cup {None},
         state' = [state EXCEPT !.phase = "ChoosingColor", !.pending = SwapChoice(p, target)]
  PROVE  Sound(state')
<1> DEFINE choice == SwapChoice(p, target)
           next == NextSeat(state, p, 1)
<1>1. /\ Held(state) /\ state.phase = "ChoosingPlayer" /\ Len(state.order) >= 2
      /\ state.pendingBluff = None /\ p \in Seated(state) /\ state.current = p
  BY OnTurnSeated DEF Sound, OnTurn, TurnSeated, ActivePhases, ChoiceSeated
<1>2. next \in Seated(state) /\ next \in Players
  BY <1>1, NextSeatSeated DEF Held, SeatOrder
<1>3. state.activeColor \in Colors \cup {None}
  BY <1>1 DEF Held, State
<1> HIDE DEF next
<1>4. choice = [ actor |-> p, target |-> next, previousColor |-> state.activeColor,
                 drawCount |-> 0, initial |-> FALSE, bluffing |-> FALSE,
                 challengeable |-> FALSE, swapHands |-> TRUE, swapTarget |-> target ]
  BY DEF SwapChoice, next
<1> HIDE DEF choice
<1>5. /\ choice \in ColorChoice /\ choice.actor = p /\ choice.target = next
      /\ choice.bluffing = FALSE
  BY <1>2, <1>3, <1>4 DEF ColorChoice
<1>6. state' = [state EXCEPT !.phase = "ChoosingColor", !.pending = choice]
  BY DEF choice
<1>7. /\ choice.target \in Seated(state) /\ state.phase \in {"TakingTurn", "ChoosingPlayer"}
      /\ choice.bluffing => state.hands[p] # {} /\ choice.swapTarget = None
  BY <1>1, <1>2, <1>5
<1>8. Sound([state EXCEPT !.phase = "ChoosingColor", !.pending = choice])
  BY <1>1, <1>5, <1>7, ChoiceOpened
<1> QED
  BY <1>6, <1>8

LEMMA ChoosePlayerSound ==
  ASSUME NEW p \in Players, Sound(state),
         KeepHand(p) \/ \E q \in Players : ChoosePlayer(p, q)
  PROVE  Sound(state')
<1>1. PICK target \in Players \cup {None} :
        /\ OnTurn(p, "ChoosingPlayer")
        /\ state' = [state EXCEPT !.phase = "ChoosingColor", !.pending = SwapChoice(p, target)]
  BY DEF KeepHand, ChoosePlayer
<1> QED
  BY <1>1, SwapChoiceSound

\* Two players who are both seated may change hands.
LEMMA SwapHandsHeld ==
  ASSUME NEW s, Held(s), NEW p \in Seated(s), NEW q \in Seated(s)
  PROVE  Held(SwapHandsOf(s, p, q)) /\ SamePlay(s, SwapHandsOf(s, p, q))
<1> DEFINE t == SwapHandsOf(s, p, q)
           hands == [s.hands EXCEPT ![p] = s.hands[q], ![q] = s.hands[p]]
<1>1. /\ s \in State /\ {p, q} \subseteq Players
      /\ s.status[p] = "Playing" /\ s.status[q] = "Playing"
  BY DEF Held, SeatOrder
<1>2. t = [s EXCEPT !.hands = hands]
  BY <1>1 DEF SwapHandsOf, State
<1>3. hands \in [Players -> SUBSET Cards]
  BY <1>1 DEF State
<1>4. \A r \in Players : hands[r] = IF r = q THEN s.hands[p]
                                    ELSE IF r = p THEN s.hands[q] ELSE s.hands[r]
  BY <1>1 DEF State
<1> HIDE DEF t, hands
<1>5. t \in State
  BY <1>1, <1>2, <1>3 DEF State
<1>6. SamePlay(s, t) /\ t.drawPile = s.drawPile /\ t.discards = s.discards /\ t.hands = hands
  BY <1>1, <1>2 DEF State, SamePlay
<1>7. PileOwnership(t)
  <2>1. ASSUME NEW x
        PROVE  x \in t.inventory <=> \/ x \in t.drawPile \cup t.discards
                                     \/ x = t.top /\ x # None
                                     \/ \E r \in Players : x \in t.hands[r]
    <3>1. x \in s.inventory <=> \/ x \in s.drawPile \cup s.discards
                                \/ x = s.top /\ x # None
                                \/ \E r \in Players : x \in s.hands[r]
      BY <1>1, InventorySplit DEF Held, PileOwnership
    <3>2. (\E r \in Players : x \in s.hands[r]) <=> \E r \in Players : x \in t.hands[r]
      BY <1>1, <1>4, <1>6
    <3> QED
      BY <1>6, <3>1, <3>2 DEF SamePlay
  <2>2. /\ \A r \in Players :
             s.hands[r] \cap (s.drawPile \cup s.discards \cup {s.top}) = {}
        /\ \A r, u \in Players : r # u => s.hands[r] \cap s.hands[u] = {}
        /\ \A r \in Players : s.status[r] # "Playing" => s.hands[r] = {}
        /\ s.drawPile \cap s.discards = {} /\ s.top \notin s.drawPile \cup s.discards
    BY DEF Held, PileOwnership
  <2>3. \A r \in Players : t.hands[r] \cap (t.drawPile \cup t.discards \cup {t.top}) = {}
    BY <1>1, <1>4, <1>6, <2>2 DEF SamePlay
  <2>4. \A r, u \in Players : r # u => t.hands[r] \cap t.hands[u] = {}
    BY <1>1, <1>4, <1>6, <2>2
  <2>5. \A r \in Players : t.status[r] # "Playing" => t.hands[r] = {}
    BY <1>1, <1>4, <1>6, <2>2 DEF SamePlay
  <2> QED
    BY <1>5, <1>6, <2>1, <2>2, <2>3, <2>4, <2>5, InventorySplit DEF PileOwnership, SamePlay
<1>8. SeatOrder(t)
  BY <1>6 DEF Held, SeatOrder, SamePlay, Seated
<1> QED
  BY <1>5, <1>6, <1>7, <1>8 DEF Held, t

\* Choosing closes the choice and gives the table back to the game.
Closed(s, color) ==
  [s EXCEPT !.activeColor = color, !.pending = None, !.phase = "TakingTurn"]

LEMMA ClosedType ==
  ASSUME NEW s \in State, NEW color \in Colors
  PROVE  Closed(s, color) \in State
<1>1. /\ "TakingTurn" \in Phases /\ color \in Colors \cup {None}
      /\ None \in ColorChoice \cup {None}
  BY DEF Phases
<1> QED
  BY <1>1 DEF State, Closed

LEMMA ClosedInPlay ==
  ASSUME NEW s, Held(s), s.pendingBluff = None, Len(s.order) >= 2, NEW color \in Colors
  PROVE  /\ InPlay(Closed(s, color)) /\ Seated(Closed(s, color)) = Seated(s)
         /\ Closed(s, color).pendingBluff = None /\ Closed(s, color).hands = s.hands
         /\ Closed(s, color).drawCounter = s.drawCounter
         /\ Closed(s, color).current = s.current
<1> DEFINE t == Closed(s, color)
<1>1. s \in State
  BY DEF Held
<1>2. t \in State
  BY <1>1, ClosedType
<1>3. /\ t.phase = "TakingTurn" /\ t.pending = None /\ t.pendingBluff = s.pendingBluff
      /\ t.order = s.order /\ t.status = s.status /\ t.current = s.current
      /\ t.inventory = s.inventory /\ t.drawPile = s.drawPile /\ t.discards = s.discards
      /\ t.top = s.top /\ t.hands = s.hands /\ t.drawCounter = s.drawCounter
  BY <1>1 DEF State, Closed
<1> HIDE DEF t
<1>4. PileOwnership(t) /\ SeatOrder(t) /\ Seated(t) = Seated(s)
  BY <1>3 DEF Held, PileOwnership, SeatOrder, Seated
<1> QED
  BY <1>2, <1>3, <1>4 DEF t, InPlay, Held, BlufferSeated

\* A penalty left standing with its evidence: the bluffer is seated.
Raised(s, n, open, bluff) ==
  [s EXCEPT !.drawCounter = n, !.challengeable = open, !.pendingBluff = bluff]

LEMMA RaisedInPlay ==
  ASSUME NEW s, InPlay(s), NEW n \in Nat, NEW open \in BOOLEAN,
         NEW bluff \in BluffInfo \cup {None},
         bluff # None /\ bluff.bluffing => bluff.actor \in Seated(s)
  PROVE  /\ InPlay(Raised(s, n, open, bluff)) /\ Seated(Raised(s, n, open, bluff)) = Seated(s)
         /\ Raised(s, n, open, bluff).pendingBluff = bluff
         /\ Raised(s, n, open, bluff).hands = s.hands
<1> DEFINE t == Raised(s, n, open, bluff)
<1>1. s \in State
  BY DEF InPlay, Held
<1>2. t \in State
  BY ZenonT(30), <1>1 DEF State, Raised
<1>3. /\ t.phase = s.phase /\ t.pending = s.pending /\ t.pendingBluff = bluff
      /\ t.order = s.order /\ t.status = s.status
      /\ t.inventory = s.inventory /\ t.drawPile = s.drawPile /\ t.discards = s.discards
      /\ t.top = s.top /\ t.hands = s.hands
  BY <1>1 DEF State, Raised
<1> HIDE DEF t
<1>4. PileOwnership(t) /\ SeatOrder(t) /\ Seated(t) = Seated(s)
  BY <1>3 DEF InPlay, Held, PileOwnership, SeatOrder, Seated
<1> QED
  BY <1>2, <1>3, <1>4 DEF t, InPlay, Held, BlufferSeated

LEMMA ChooseColorSound ==
  ASSUME NEW p \in Players, NEW color \in Colors, Sound(state), ChooseColor(p, color)
  PROVE  Sound(state')
<1> DEFINE choice == state.pending
           actor == choice.actor
           target == choice.target
           swapped == IF choice.swapTarget # None
                      THEN SwapHandsOf(state, actor, choice.swapTarget) ELSE state
           chosen == Closed(swapped, color)
           bluff == IF choice.challengeable
                    THEN [actor |-> actor, target |-> target, bluffing |-> choice.bluffing]
                    ELSE None
           count == state.drawCounter + choice.drawCount
<1>1. /\ Held(state) /\ choice # None /\ choice \in ColorChoice
      /\ state.pendingBluff = None /\ state.phase = "ChoosingColor"
      /\ actor \in Seated(state) /\ target \in Seated(state)
      /\ Len(state.order) >= 2 /\ state.current \in Seated(state)
      /\ choice.bluffing => state.hands[actor] # {} /\ choice.swapTarget = None
      /\ Seated(state) \subseteq Players /\ state \in State
  BY DEF Sound, Held, State, ChooseColor, ChoiceSeated, TurnSeated, ActivePhases, SeatOrder
<1>2. choice.swapTarget # None => choice.swapTarget \in Seated(state)
  BY <1>1 DEF ChooseColor, ColorChoice, Held, SeatOrder
<1>3. /\ Held(swapped)
      /\ swapped.order = state.order /\ swapped.pendingBluff = None
      /\ swapped.current = state.current /\ swapped.drawCounter = state.drawCounter
      /\ choice.bluffing => swapped.hands[actor] # {}
  <2>1. CASE choice.swapTarget # None
    BY <1>1, <1>2, <2>1, SwapHandsHeld DEF SamePlay
  <2>2. CASE choice.swapTarget = None
    BY <1>1, <2>2
  <2> QED
    BY <2>1, <2>2
<1>4. /\ choice.drawCount \in Nat /\ choice.challengeable \in BOOLEAN
      /\ choice.bluffing \in BOOLEAN /\ state.drawCounter \in Nat
  BY <1>1, EngineOK DEF ColorChoice, EngineAssumption, State
<1>5. count \in Nat
  BY <1>4
<1>6. /\ bluff \in BluffInfo \cup {None}
      /\ bluff # None => bluff.actor = actor /\ bluff.bluffing = choice.bluffing
  BY <1>1, <1>4 DEF BluffInfo
<1>7. \/ state' = chosen
      \/ state' = CompletePlay(chosen, actor, target)
      \/ state' = CompletePlay([chosen EXCEPT !.drawCounter = @ + choice.drawCount,
                                              !.challengeable = choice.challengeable,
                                              !.pendingBluff = bluff], actor, target)
      \/ state' \in {CompletePlay(t, actor, NextSeat(t, target, 1)) :
                       t \in DrawTo(chosen, target, choice.drawCount)}
  BY DEF ChooseColor, ChosenColor, Closed
<1> HIDE DEF swapped, bluff
<1>8. /\ InPlay(chosen) /\ Seated(chosen) = Seated(state) /\ chosen.pendingBluff = None
      /\ chosen.hands = swapped.hands /\ chosen.drawCounter = state.drawCounter
      /\ chosen.current = state.current
  <2>1. Len(swapped.order) >= 2 /\ Seated(swapped) = Seated(state)
    BY <1>1, <1>3 DEF Seated
  <2> QED
    BY <1>3, <2>1, ClosedInPlay
<1> HIDE DEF chosen
<1>9. [chosen EXCEPT !.drawCounter = @ + choice.drawCount,
                     !.challengeable = choice.challengeable,
                     !.pendingBluff = bluff] = Raised(chosen, count, choice.challengeable, bluff)
  <2>1. chosen \in State
    BY <1>8 DEF InPlay, Held
  <2> QED
    BY <1>8, <2>1 DEF Raised, State
<1>10. bluff # None => bluff.actor = actor /\ (bluff.bluffing => chosen.hands[actor] # {})
  BY <1>3, <1>6, <1>8
<1>11. actor \in Seated(chosen) /\ target \in Seated(chosen) /\ chosen.current \in Seated(chosen)
  BY <1>1, <1>8
<1> DEFINE drawn == choice.drawCount
           open == choice.challengeable
<1>12. \/ state' = chosen
       \/ state' = CompletePlay(chosen, actor, target)
       \/ state' = CompletePlay(Raised(chosen, count, open, bluff), actor, target)
       \/ \E u \in DrawTo(chosen, target, drawn) :
            state' = CompletePlay(u, actor, NextSeat(u, target, 1))
  BY <1>7, <1>9
<1>13. drawn \in Nat /\ open \in BOOLEAN
  BY <1>4
<1> HIDE DEF choice, actor, target, count, drawn, open
<1>14. CASE state' = chosen
  BY <1>8, <1>14, InPlaySound, <1>11
<1>15. CASE state' = CompletePlay(chosen, actor, target)
  BY <1>8, <1>10, <1>11, <1>15, CompletePlaySound
<1>16. CASE state' = CompletePlay(Raised(chosen, count, open, bluff), actor, target)
  <2> DEFINE r == Raised(chosen, count, open, bluff)
  <2>1. bluff # None /\ bluff.bluffing => bluff.actor \in Seated(chosen)
    BY <1>10, <1>11
  <2>2. /\ InPlay(r) /\ Seated(r) = Seated(chosen)
        /\ r.pendingBluff = bluff /\ r.hands = chosen.hands
    BY <1>5, <1>6, <1>8, <1>13, <2>1, RaisedInPlay
  <2> HIDE DEF r
  <2>3. state' = CompletePlay(r, actor, target)
    BY <1>16 DEF r
  <2> QED
    BY <1>10, <1>11, <2>2, <2>3, CompletePlaySound
<1>17. CASE \E u \in DrawTo(chosen, target, drawn) :
              state' = CompletePlay(u, actor, NextSeat(u, target, 1))
  <2>1. PICK u \in DrawTo(chosen, target, drawn) :
          state' = CompletePlay(u, actor, NextSeat(u, target, 1))
    BY <1>17
  <2>2. InPlay(u) /\ Seated(u) = Seated(chosen) /\ u.pendingBluff = None
    BY <1>8, <1>11, <1>13, DrawToInPlay, DrawToHeld DEF InPlay, SamePlay
  <2>3. NextSeat(u, target, 1) \in Seated(u)
    BY <1>11, <2>2, NextSeatSeated DEF InPlay, Held
  <2> QED
    BY <1>11, <2>1, <2>2, <2>3, CompletePlaySound
<1> QED
  BY <1>12, <1>14, <1>15, <1>16, <1>17

-----------------------------------------------------------------------------
(* The deal *)

\* The fields Opened writes, with their new values named.
LaidOut(s, hands, pile, c, dealer, first) ==
  [s EXCEPT !.hands = hands, !.drawPile = pile, !.top = c, !.dealer = dealer,
            !.current = first, !.phase = "TakingTurn", !.activeColor = ColorOf[c]]

LEMMA LaidOutType ==
  ASSUME NEW s \in State, NEW hands \in [Players -> SUBSET Cards], NEW pile \in SUBSET Cards,
         NEW c \in Cards, NEW dealer \in Players, NEW first \in Players
  PROVE  LaidOut(s, hands, pile, c, dealer, first) \in State
<1>1. /\ "TakingTurn" \in Phases /\ c \in Cards \cup {None} /\ dealer \in Players \cup {None}
      /\ first \in Players \cup {None} /\ ColorOf[c] \in Colors \cup {None}
  BY CardsOK DEF Phases, CardsAssumption
<1> QED
  BY <1>1 DEF State, LaidOut

LEMMA OpenedInPlay ==
  ASSUME Sound(state), state.phase = "Lobby", Len(state.order) >= 2,
         NEW dealer \in Seated(state), NEW deal \in Deals(state),
         NEW c \in state.drawPile \ (UNION Range(deal))
  PROVE  /\ InPlay(Opened(state, deal, c, dealer))
         /\ Seated(Opened(state, deal, c, dealer)) = Seated(state)
         /\ Opened(state, deal, c, dealer).pendingBluff = None
         /\ Opened(state, deal, c, dealer).current \in Seated(state)
<1> DEFINE hands == [p \in Players |-> IF p \in Seated(state) THEN deal[p] ELSE state.hands[p]]
           pile == state.drawPile \ ((UNION Range(deal)) \cup {c})
           first == NextSeat(state, dealer, 1)
           t == LaidOut(state, hands, pile, c, dealer, first)
<1>1. /\ state \in State /\ state.top = None /\ state.discards = {}
      /\ \A p \in Players : state.hands[p] = {}
      /\ state.pending = None /\ state.pendingBluff = None
      /\ state.drawPile \subseteq Cards /\ Seated(state) \subseteq Players
      /\ None \notin Cards
  BY CardsOK DEF Sound, Held, BareTable, ChoiceSeated, SeatOrder, State, CardsAssumption
<1>2. first \in Seated(state)
  BY NextSeatSeated DEF Sound, Held
<1>3. /\ DOMAIN deal = Seated(state)
      /\ \A p \in Seated(state) : deal[p] \subseteq state.drawPile
      /\ \A p, q \in Seated(state) : p # q => deal[p] \cap deal[q] = {}
  <2>1. deal \in [Seated(state) -> kSubset(HandSize, state.drawPile)]
    BY DEF Deals
  <2>2. \A x \in kSubset(HandSize, state.drawPile) : x \subseteq state.drawPile
    BY DEF kSubset
  <2> QED
    BY <2>1, <2>2 DEF Deals
<1>4. \A x : x \in UNION Range(deal) <=> \E p \in Seated(state) : x \in deal[p]
  BY <1>3 DEF Range
<1>5. hands \in [Players -> SUBSET Cards] /\ pile \in SUBSET Cards
  BY <1>1, <1>3
<1>6. Opened(state, deal, c, dealer) = t
  BY <1>1 DEF Opened, LaidOut, State
<1>7. \A p \in Players : hands[p] = IF p \in Seated(state) THEN deal[p] ELSE {}
  BY <1>1
<1>8. /\ c \in state.drawPile /\ c \notin UNION Range(deal)
      /\ \A x : x \in pile <=> x \in state.drawPile /\ x \notin UNION Range(deal) /\ x # c
  OBVIOUS
<1> HIDE DEF hands, pile, first
<1>9. t \in State
  BY <1>1, <1>2, <1>5, <1>8, LaidOutType
<1>10. /\ t.phase = "TakingTurn" /\ t.inventory = state.inventory /\ t.drawPile = pile
       /\ t.discards = {} /\ t.top = c /\ t.hands = hands /\ t.status = state.status
       /\ t.order = state.order /\ t.current = first
       /\ t.pending = None /\ t.pendingBluff = None
  BY <1>1 DEF LaidOut, State
<1> HIDE DEF t
<1>11. PileOwnership(t)
  <2>1. ASSUME NEW x
        PROVE  x \in t.inventory <=> \/ x \in t.drawPile \cup t.discards
                                     \/ x = t.top /\ x # None
                                     \/ \E q \in Players : x \in t.hands[q]
    <3>1. x \in state.inventory <=> x \in state.drawPile
      BY <1>1, InventorySplit DEF Sound, Held, PileOwnership
    <3>2. (\E q \in Players : x \in hands[q]) <=> x \in UNION Range(deal)
      BY <1>1, <1>4, <1>7
    <3>3. x \in UNION Range(deal) => x \in state.drawPile
      BY <1>3, <1>4
    <3>4. x \in pile <=> x \in state.drawPile /\ x \notin UNION Range(deal) /\ x # c
      BY <1>8
    <3>5. x = c => x \in state.drawPile /\ x # None
      BY <1>1, <1>8
    <3> QED
      BY <1>10, <3>1, <3>2, <3>3, <3>4, <3>5
  <2>2. ASSUME NEW p \in Players
        PROVE  t.hands[p] \cap (t.drawPile \cup t.discards \cup {t.top}) = {}
    <3>1. hands[p] \subseteq UNION Range(deal)
      BY <1>4, <1>7
    <3>2. (UNION Range(deal)) \cap pile = {} /\ c \notin UNION Range(deal)
      BY <1>8
    <3> QED
      BY <1>10, <3>1, <3>2
  <2>3. \A p, q \in Players : p # q => t.hands[p] \cap t.hands[q] = {}
    BY <1>3, <1>7, <1>10
  <2>4. \A p \in Players : t.status[p] # "Playing" => t.hands[p] = {}
    BY <1>7, <1>10 DEF Sound, Held, SeatOrder
  <2>5. t.drawPile \cap t.discards = {} /\ t.top \notin t.drawPile \cup t.discards
    BY <1>8, <1>10
  <2>6. t.inventory = t.drawPile \cup t.discards \cup ({t.top} \ {None}) \cup (UNION Range(t.hands))
    BY <1>9, <2>1, InventorySplit
  <2> QED
    BY <2>2, <2>3, <2>4, <2>5, <2>6 DEF PileOwnership
<1>12. SeatOrder(t) /\ Seated(t) = Seated(state)
  BY <1>10 DEF Sound, Held, SeatOrder, Seated
<1>13. Len(t.order) >= 2
  BY <1>10
<1> QED
  BY <1>2, <1>6, <1>9, <1>10, <1>11, <1>12, <1>13 DEF InPlay, Held, BlufferSeated

\* Giving the turn to somebody else who is seated.
LEMMA TurnMoved ==
  ASSUME NEW s, InPlay(s), NEW p \in Seated(s)
  PROVE  Sound([s EXCEPT !.current = p])
<1> DEFINE t == [s EXCEPT !.current = p]
<1>1. s \in State /\ p \in Players \cup {None}
  BY DEF InPlay, Held, SeatOrder
<1>2. t \in State
  BY <1>1 DEF State
<1>3. SameTable(s, t) /\ t.current = p
  BY <1>1 DEF State, SameTable
<1> HIDE DEF t
<1>4. InPlay(t) /\ p \in Seated(t)
  BY <1>2, <1>3, SameTableInPlay
<1>5. Sound(t)
  BY <1>3, <1>4, InPlaySound
<1> QED
  BY <1>5 DEF t

LEMMA DirectionSetType ==
  ASSUME NEW s \in State
  PROVE  [s EXCEPT !.direction = -1] \in State /\ SameTable(s, [s EXCEPT !.direction = -1])
<1> DEFINE d == -1
<1>1. d \in {-1, 1}
  OBVIOUS
<1> HIDE DEF d
<1>2. [s EXCEPT !.direction = d] \in State
  BY ZenonT(30), <1>1 DEF State
<1>3. SameTable(s, [s EXCEPT !.direction = d])
  BY DEF State, SameTable
<1> QED
  BY <1>2, <1>3 DEF d

LEMMA OpeningSound ==
  ASSUME NEW s, InPlay(s), s.pendingBluff = None, s.current \in Seated(s),
         NEW dealer \in Seated(s), NEW t \in Opening(s, dealer)
  PROVE  Sound(t)
<1> DEFINE first == s.current
           next == NextSeat(s, first, 1)
           choice == [ actor |-> first,
                       target |-> next,
                       previousColor |-> None,
                       drawCount |-> 0,
                       initial |-> TRUE,
                       bluffing |-> FALSE,
                       challengeable |-> FALSE,
                       swapHands |-> FALSE,
                       swapTarget |-> None ]
<1>1. /\ s \in State /\ TwoPenalty \in Nat /\ first \in Players
      /\ Len(s.order) >= 2 /\ s.phase = "TakingTurn" /\ Held(s)
  BY EngineOK DEF InPlay, Held, SeatOrder, EngineAssumption
<1>2. next \in Seated(s) /\ next \in Players
  BY <1>1, NextSeatSeated DEF Held, SeatOrder
<1>3. CASE t = [s EXCEPT !.direction = -1, !.current = dealer]
  <2> DEFINE r == [s EXCEPT !.direction = -1]
  <2>1. r \in State /\ SameTable(s, r)
    BY <1>1, DirectionSetType
  <2>2. t = [r EXCEPT !.current = dealer]
    BY <1>1, <1>3 DEF State
  <2> HIDE DEF r
  <2>3. InPlay(r) /\ dealer \in Seated(r)
    BY <2>1, SameTableInPlay
  <2> QED
    BY <2>2, <2>3, TurnMoved
<1>4. CASE t = [s EXCEPT !.current = next]
  BY <1>2, <1>4, TurnMoved
<1>5. CASE t = [s EXCEPT !.drawCounter = TwoPenalty]
  <2>1. InPlay(t) /\ Seated(t) = Seated(s)
    BY <1>1, <1>5, CounterInPlay
  <2>2. t.current = s.current
    BY <1>1, <1>5 DEF State
  <2> QED
    BY <2>1, <2>2, InPlaySound
<1>6. CASE t \in {[u EXCEPT !.current = NextSeat(u, first, 1)] : u \in DrawTo(s, first, TwoPenalty)}
  <2>1. PICK u \in DrawTo(s, first, TwoPenalty) : t = [u EXCEPT !.current = NextSeat(u, first, 1)]
    BY <1>6
  <2>2. InPlay(u) /\ Seated(u) = Seated(s)
    BY <1>1, DrawToInPlay
  <2>3. NextSeat(u, first, 1) \in Seated(u)
    BY <2>2, NextSeatSeated DEF InPlay, Held
  <2> QED
    BY <2>1, <2>2, <2>3, TurnMoved
<1>7. CASE t = [s EXCEPT !.phase = "ChoosingColor", !.pending = choice]
  <2> HIDE DEF next, first
  <2>1. /\ choice \in ColorChoice /\ choice.actor = first /\ choice.target = next
        /\ choice.bluffing = FALSE /\ choice.swapTarget = None
    BY <1>1, <1>2 DEF ColorChoice
  <2> HIDE DEF choice
  <2>2. s.current = first /\ first \in Seated(s)
    BY DEF first
  <2> QED
    BY <1>1, <1>2, <1>7, <2>1, <2>2, ChoiceOpened
<1>8. CASE t = s
  BY <1>8, InPlaySound
<1> QED
  BY <1>3, <1>4, <1>5, <1>6, <1>7, <1>8 DEF Opening

LEMMA StartGameSound ==
  ASSUME NEW dealer \in Players, Sound(state), StartGame(dealer)
  PROVE  Sound(state')
<1>1. PICK deal \in Deals(state) :
        \E c \in {x \in state.drawPile \ (UNION Range(deal)) : CanOpen(state, x)} :
          state' \in Opening(Opened(state, deal, c, dealer), dealer)
  BY DEF StartGame
<1>2. PICK c \in state.drawPile \ (UNION Range(deal)) :
        state' \in Opening(Opened(state, deal, c, dealer), dealer)
  BY <1>1
<1> DEFINE s == Opened(state, deal, c, dealer)
<1>3. /\ InPlay(s) /\ Seated(s) = Seated(state) /\ s.pendingBluff = None
      /\ s.current \in Seated(state)
  BY OpenedInPlay DEF StartGame
<1>4. dealer \in Seated(s)
  BY <1>3 DEF StartGame
<1> HIDE DEF s
<1>5. state' \in Opening(s, dealer)
  BY <1>2 DEF s
<1> QED
  BY <1>3, <1>4, <1>5, OpeningSound

-----------------------------------------------------------------------------
(* Penalties, challenges and hands *)

\* What stands on the table, whatever the phase.
Owing(s) ==
  /\ s.drawCounter > 0 => RankOf[s.top] \in {DrawTwo, WildDrawFour}
  /\ s.pendingBluff # None <=> s.challengeable
  /\ s.pendingBluff # None =>
       /\ s.drawCounter >= FourPenalty
       /\ RankOf[s.top] = WildDrawFour
       /\ s.pendingBluff.target \in Seated(s)
       /\ s.pendingBluff.actor # s.pendingBluff.target

Debts(s) ==
  /\ Owing(s)
  /\ s.pendingBluff # None => s.phase = "TakingTurn"
  /\ s.drawnCard # None => s.phase = "TakingTurn" /\ s.drawCounter = 0
  /\ s.phase = "Lobby" => s.drawCounter = 0
  /\ ChoiceOwes(s)

LEMMA DebtInvIsDebts == DebtInv <=> Sound(state) /\ Debts(state)
<1>1. Sound(state) => state.drawCounter \in Nat /\ BlufferSeated(state)
  BY DEF Sound, Held, State
<1> QED
  BY <1>1, EngineInvIsSound
     DEF DebtInv, PenaltyStands, ChallengeSound, DrawnOnTurn, Debts, Owing, BlufferSeated

\* A step in which hands only grow and no penalty shrinks breaks neither rule.
Grows(s, t) ==
  /\ \A q \in Players : s.hands[q] \subseteq t.hands[q]
  /\ t.drawCounter >= s.drawCounter

LEMMA GrowsByRule ==
  ASSUME state.drawCounter \in Nat, state'.drawCounter \in Nat, Grows(state, state')
  PROVE  LosesByRule /\ PaidOnce
<1>1. ~(state'.drawCounter < state.drawCounter)
  BY DEF Grows
<1> QED
  BY <1>1 DEF Grows, LosesByRule, PaidOnce

\* What a penalty is judged by is the same on both tables.
SameStake(s, t) ==
  /\ t.drawCounter = s.drawCounter /\ t.top = s.top
  /\ t.pendingBluff = s.pendingBluff /\ t.challengeable = s.challengeable

LEMMA SameStakeOwes ==
  ASSUME NEW s, Owing(s), NEW t, SameStake(s, t),
         s.pendingBluff # None => s.pendingBluff.target \in Seated(t)
  PROVE  Owing(t)
BY DEF Owing, SameStake

LEMMA ChangeTurnDebts ==
  ASSUME NEW s \in State, s.phase = "TakingTurn", s.pending = None, Owing(s), NEW p
  PROVE  LET t == ChangeTurn(s, p)
         IN  Debts(t) /\ t.hands = s.hands /\ t.top = s.top /\ t.drawCounter = s.drawCounter
<1> DEFINE t == ChangeTurn(s, p)
<1>1. /\ SameStake(s, t) /\ t.order = s.order /\ t.phase = s.phase /\ t.pending = s.pending
      /\ t.drawnCard = None /\ t.hands = s.hands
  BY DEF State, ChangeTurn, SameStake
<1> HIDE DEF t
<1>2. Owing(t)
  BY <1>1, SameStakeOwes DEF Seated, Owing
<1> QED
  BY <1>1, <1>2 DEF t, Debts, ChoiceOwes, SameStake

LEMMA UnchallengedOwes ==
  ASSUME NEW s \in State, s.drawCounter > 0 => RankOf[s.top] \in {DrawTwo, WildDrawFour}
  PROVE  LET t == Unchallenged(s)
         IN  /\ Owing(t) /\ t.pendingBluff = None /\ ~t.challengeable
             /\ t.drawCounter = s.drawCounter /\ t.top = s.top /\ t.hands = s.hands
             /\ t.order = s.order /\ t.phase = s.phase /\ t.pending = s.pending
             /\ t.drawnCard = s.drawnCard /\ t.drawPile = s.drawPile /\ t.discards = s.discards
             /\ t.current = s.current /\ t.status = s.status /\ t.rules = s.rules
<1> DEFINE t == Unchallenged(s)
<1>1. /\ t.pendingBluff = None /\ t.challengeable = FALSE
      /\ t.drawCounter = s.drawCounter /\ t.top = s.top /\ t.hands = s.hands
      /\ t.order = s.order /\ t.phase = s.phase /\ t.pending = s.pending
      /\ t.drawnCard = s.drawnCard /\ t.drawPile = s.drawPile /\ t.discards = s.discards
      /\ t.current = s.current /\ t.status = s.status /\ t.rules = s.rules
  BY DEF State, Unchallenged
<1> HIDE DEF t
<1> QED
  BY <1>1 DEF t, Owing

LEMMA FinishDebts ==
  ASSUME NEW s \in State, s.drawCounter > 0 => RankOf[s.top] \in {DrawTwo, WildDrawFour}, NEW reason
  PROVE  LET t == Finish(s, reason)
         IN  Debts(t) /\ t.hands = s.hands /\ t.top = s.top /\ t.drawCounter = s.drawCounter
<1> DEFINE t == Finish(s, reason)
<1>1. /\ t.pendingBluff = None /\ t.challengeable = FALSE /\ t.pending = None /\ t.drawnCard = None
      /\ t.drawCounter = s.drawCounter /\ t.top = s.top /\ t.hands = s.hands /\ t.phase = "Finished"
  BY DEF State, Finish, Unchallenged
<1> HIDE DEF t
<1> QED
  BY <1>1 DEF t, Debts, Owing, ChoiceOwes

\* Going out changes no penalty, and no challenge but one against the player.
LEMMA CompletePlayDebts ==
  ASSUME NEW s, InPlay(s), Owing(s), NEW p \in Seated(s), NEW next \in Players,
         s.pendingBluff # None => s.pendingBluff.target # p
  PROVE  LET t == CompletePlay(s, p, next)
         IN  Debts(t) /\ t.hands = s.hands /\ t.top = s.top /\ t.drawCounter = s.drawCounter
<1> DEFINE t == CompletePlay(s, p, next)
<1>1. Held(s) /\ s \in State /\ s.phase = "TakingTurn" /\ s.pending = None
  BY DEF InPlay, Held
<1>2. CASE s.hands[p] # {}
  BY <1>1, <1>2, ChangeTurnDebts DEF CompletePlay
<1>3. CASE s.hands[p] = {}
  <2> DEFINE out == GoOut(s, p)
             last == RecordLast(out)
             after == IF next = p THEN NextSeat(s, p, 1) ELSE next
             over == s.rules.EndPolicy = "FirstWinner" \/ Len(out.order) = 1
  <2>1. Held(out) /\ Seated(out) = Seated(s) \ {p}
    BY <1>1, <1>3, GoOutHeld
  <2>2. /\ SameStake(s, out) /\ out.phase = s.phase /\ out.pending = s.pending /\ out.hands = s.hands
    BY <1>1 DEF State, GoOut, SameStake
  <2> HIDE DEF out
  <2>3. Owing(out) /\ out \in State
    BY <2>1, <2>2, SameStakeOwes DEF Owing, Held
  <2>4. last.drawCounter = out.drawCounter /\ last.top = out.top /\ last.hands = out.hands
    BY <2>3 DEF RecordLast, State
  <2>5. CASE over /\ s.rules.EndPolicy = "Placements"
    <3>1. t = Finish(last, "Completed")
      BY <1>3, <2>5 DEF CompletePlay, out
    <3>2. last \in State
      <4> DEFINE m == Len(out.order)
      <4>2. m = 1
        BY <2>5
      <4> HIDE DEF m
      <4>3. m >= 1
        BY <4>2
      <4>1. Len(out.order) >= 1
        BY <4>3 DEF m
      <4> QED
        BY <2>1, <4>1, RecordLastHeld DEF Held
    <3> HIDE DEF last, t
    <3> QED
      BY <2>2, <2>3, <2>4, <3>1, <3>2, FinishDebts DEF t, SameStake, Owing
  <2>6. CASE over /\ s.rules.EndPolicy # "Placements"
    <3>1. t = Finish(out, "Completed")
      BY <1>3, <2>6 DEF CompletePlay, out
    <3> HIDE DEF t
    <3> QED
      BY <2>2, <2>3, <3>1, FinishDebts DEF t, SameStake, Owing
  <2>7. CASE ~over
    <3>1. t = ChangeTurn(out, after)
      BY <1>3, <2>7 DEF CompletePlay, out
    <3> HIDE DEF t, after
    <3> QED
      BY <1>1, <2>2, <2>3, <3>1, ChangeTurnDebts DEF t, SameStake
  <2> QED
    BY <2>5, <2>6, <2>7
<1> QED
  BY <1>2, <1>3

-----------------------------------------------------------------------------
(* What is owed: drawing, how many cards and whose *)

\* Drawing n cards brings n new ones to one hand and touches nothing else.
LEMMA DrawToCounts ==
  ASSUME NEW s, Held(s), NEW p \in Seated(s), NEW n \in Nat, NEW t \in DrawTo(s, p, n)
  PROVE  /\ Cardinality(t.hands[p] \ s.hands[p]) = n
         /\ s.hands[p] \subseteq t.hands[p]
         /\ \A q \in Players \ {p} : t.hands[q] = s.hands[q]
<1>1. PICK r \in Draws(s, n) : t = [s EXCEPT !.hands[p] = @ \cup r.cards,
                                             !.drawPile = r.drawPile,
                                             !.discards = r.discards]
  BY DEF DrawTo
<1>2. p \in Players /\ s \in State
  BY DEF Held, SeatOrder
<1>3. \A q \in Players : t.hands[q] = IF q = p THEN s.hands[p] \cup r.cards ELSE s.hands[q]
  BY <1>1, <1>2 DEF State
<1>4. s.hands[p] \cap (s.drawPile \cup s.discards) = {} /\ s.drawPile \cap s.discards = {}
  BY <1>2 DEF Held, PileOwnership
<1>5. IsFiniteSet(s.drawPile) /\ IsFiniteSet(s.discards)
  BY <1>2, CardsOK, FS_Subset DEF CardsAssumption, State
<1>6. r.cards \subseteq s.drawPile \cup s.discards /\ Cardinality(r.cards) = n
  <2>1. CASE n <= Cardinality(s.drawPile)
    BY <2>1 DEF Draws, kSubset
  <2>2. CASE ~(n <= Cardinality(s.drawPile))
    <3> DEFINE m == Cardinality(s.drawPile)
    <3>1. PICK d \in SUBSET s.discards : Cardinality(d) = n - m /\ r.cards = s.drawPile \cup d
      BY <2>2 DEF Draws, kSubset
    <3>2. IsFiniteSet(d) /\ s.drawPile \cap d = {}
      BY <1>4, <1>5, <3>1, FS_Subset
    <3>3. Cardinality(s.drawPile \cup d) = m + Cardinality(d) - Cardinality(s.drawPile \cap d)
      BY <1>5, <3>2, FS_Union
    <3>4. Cardinality(s.drawPile \cap d) = 0 /\ m \in Nat
      BY <1>5, <3>2, FS_EmptySet, FS_CardinalityType
    <3>5. Cardinality(s.drawPile \cup d) = n
      BY <3>1, <3>3, <3>4
    <3> QED
      BY <3>1, <3>5
  <2> QED
    BY <2>1, <2>2
<1>7. t.hands[p] = s.hands[p] \cup r.cards
  BY <1>2, <1>3
<1>8. t.hands[p] \ s.hands[p] = r.cards
  BY <1>4, <1>6, <1>7
<1> QED
  BY <1>3, <1>6, <1>7, <1>8

\* What a player who has drawn leaves behind: nothing owed.
PaidTo(s, p) == ChangeTurn([s EXCEPT !.drawCounter = 0], p)

LEMMA PaidToDebts ==
  ASSUME NEW s, InPlay(s), s.pendingBluff = None, ~s.challengeable, NEW p
  PROVE  Debts(PaidTo(s, p)) /\ PaidTo(s, p).hands = s.hands /\ PaidTo(s, p).drawCounter = 0
<1> DEFINE u == [s EXCEPT !.drawCounter = 0]
<1>1. s \in State /\ s.phase = "TakingTurn" /\ s.pending = None
  BY DEF InPlay, Held
<1>5. u \in State
  BY CounterInPlay DEF InPlay, Held
<1>2. u.drawCounter = 0 /\ u.phase = s.phase /\ u.pending = s.pending
      /\ u.pendingBluff = s.pendingBluff /\ u.challengeable = s.challengeable /\ u.hands = s.hands
  BY <1>1 DEF State
<1> HIDE DEF u
<1>3. Owing(u)
  BY <1>2 DEF Owing
<1>4. PaidTo(s, p) = ChangeTurn(u, p)
  BY DEF PaidTo, u
<1> QED
  BY <1>1, <1>2, <1>3, <1>4, <1>5, ChangeTurnDebts

\* What every action keeps or does, apart from the invariant it started from.
Lawful == Debts(state') /\ LosesByRule /\ PaidOnce

LEMMA Counters ==
  ASSUME Sound(state), Sound(state')
  PROVE  state.drawCounter \in Nat /\ state'.drawCounter \in Nat
BY DEF Sound, Held, State

LEMMA PassTurnLawful ==
  ASSUME NEW p \in Players, Sound(state), Debts(state), PassTurn(p) \/ SkipTurn(p)
  PROVE  Lawful
<1>1. InPlay(state) /\ state.phase = "TakingTurn"
  BY TurnIsInPlay DEF PassTurn, SkipTurn, OnTurn
<1>2. Owing(state) /\ state \in State /\ state.pending = None /\ state.drawCounter \in Nat
  BY <1>1 DEF Debts, InPlay, Held, State
<1>3. PICK q : state' = ChangeTurn(state, q)
  BY DEF PassTurn, SkipTurn
<1>4. Debts(state') /\ state'.hands = state.hands /\ state'.drawCounter = state.drawCounter
  BY <1>1, <1>2, <1>3, ChangeTurnDebts
<1> QED
  BY <1>2, <1>4, GrowsByRule DEF Lawful, Grows

\* Somebody seated draws everything owed, or that and the cards a wrong challenge adds.
LEMMA PayingLawful ==
  ASSUME Sound(state), Debts(state), state.phase = "TakingTurn", NEW p \in Seated(state),
         NEW n \in Nat, n \in {state.drawCounter, state.drawCounter + WrongCallPenalty},
         NEW t \in DrawTo(Unchallenged(state), p, n), NEW q, state' = PaidTo(t, q)
  PROVE  Lawful
<1> DEFINE u == Unchallenged(state)
<1>1. InPlay(state) /\ state \in State /\ state.drawCounter \in Nat
  BY TurnIsInPlay DEF Sound, Held, State
<1>2. /\ Owing(u) /\ u.pendingBluff = None /\ ~u.challengeable /\ u.hands = state.hands
  BY <1>1, UnchallengedOwes DEF Debts, Owing
<1>3. InPlay(u) /\ Seated(u) = Seated(state)
  BY <1>1, UnchallengedInPlay
<1> HIDE DEF u
<1>4. t \in DrawTo(u, p, n) /\ p \in Seated(u) /\ Held(u)
  BY <1>3 DEF u, InPlay
<1>5. InPlay(t) /\ SamePlay(u, t)
  BY <1>3, <1>4, DrawToInPlay, DrawToHeld
<1>6. /\ Cardinality(t.hands[p] \ state.hands[p]) = n
      /\ state.hands[p] \subseteq t.hands[p]
      /\ \A r \in Players \ {p} : t.hands[r] = state.hands[r]
  BY <1>2, <1>4, DrawToCounts
<1>7. Debts(state') /\ state'.hands = t.hands /\ state'.drawCounter = 0
  BY <1>2, <1>5, PaidToDebts DEF SamePlay
<1>8. p \in Players
  BY DEF Sound, Held, SeatOrder
<1>9. \A r \in Players : state.hands[r] \subseteq state'.hands[r]
  BY <1>6, <1>7
<1>10. LosesByRule
  BY <1>9 DEF LosesByRule
<1>11. PaidOnce
  BY <1>6, <1>7 DEF PaidOnce
<1> QED
  BY <1>7, <1>10, <1>11 DEF Lawful

LEMMA DrawPenaltyLawful ==
  ASSUME NEW p \in Players, Sound(state), Debts(state), DrawPenalty(p)
  PROVE  Lawful
<1>1. p \in Seated(state) /\ state.phase = "TakingTurn" /\ state.drawCounter \in Nat
  BY OnTurnSeated DEF DrawPenalty, OnTurn, Sound, Held, State
<1>2. PICK t \in DrawTo(Unchallenged(state), p, state.drawCounter) :
        state' = PaidTo(t, NextSeat(t, p, 1))
  BY DEF DrawPenalty, PaidTo
<1> QED
  BY <1>1, <1>2, PayingLawful

LEMMA CallBluffLawful ==
  ASSUME NEW p \in Players, Sound(state), Debts(state), CallBluff(p)
  PROVE  Lawful
<1> DEFINE bluff == state.pendingBluff
           loser == IF bluff.bluffing THEN bluff.actor ELSE p
           count == state.drawCounter + (IF bluff.bluffing THEN 0 ELSE WrongCallPenalty)
<1>1. p \in Seated(state) /\ state.phase = "TakingTurn" /\ state.drawCounter \in Nat
      /\ WrongCallPenalty \in Nat
  BY OnTurnSeated, EngineOK DEF CallBluff, OnTurn, Sound, Held, State, EngineAssumption
<1>2. count \in Nat /\ count \in {state.drawCounter, state.drawCounter + WrongCallPenalty}
  BY <1>1
<1>3. loser \in Seated(state)
  BY <1>1 DEF CallBluff, Sound, BlufferSeated
<1>4. PICK t \in DrawTo(Unchallenged(state), loser, count) :
        state' = PaidTo(t, NextSeat(t, p, 1))
  BY DEF CallBluff, PaidTo
<1> HIDE DEF loser, count
<1> QED
  BY <1>1, <1>2, <1>3, <1>4, PayingLawful

LEMMA DrawOneLawful ==
  ASSUME NEW p \in Players, Sound(state), Debts(state), DrawOne(p) \/ DrawOneWeb(p)
  PROVE  Lawful
<1>1. InPlay(state) /\ p \in Seated(state) /\ state.phase = "TakingTurn" /\ state.drawCounter = 0
      /\ state \in State
  BY TurnIsInPlay, OnTurnSeated DEF DrawOne, DrawOneWeb, OnTurn, InPlay, Held
<1>2. PICK t \in OneDrawn(state, p) : (\E q : state' = ChangeTurn(t, q)) \/ state' = t
  BY DEF DrawOne, DrawOneWeb
<1> DEFINE u == Unchallenged(state)
<1>3. PICK d \in DrawTo(u, p, 1) :
        t = [d EXCEPT !.drawnCard = CHOOSE c \in d.hands[p] : c \notin state.hands[p]]
  BY <1>2 DEF OneDrawn
<1>4. /\ Owing(u) /\ u.pendingBluff = None /\ ~u.challengeable /\ u.hands = state.hands
      /\ u.drawCounter = 0
  BY <1>1, UnchallengedOwes DEF Debts, Owing
<1>5. InPlay(u) /\ Seated(u) = Seated(state)
  BY <1>1, UnchallengedInPlay
<1> HIDE DEF u
<1>6. /\ Held(d) /\ SamePlay(u, d) /\ InPlay(d)
      /\ \A q \in Players : u.hands[q] \subseteq d.hands[q]
  BY <1>1, <1>3, <1>5, DrawToHeld, DrawToInPlay DEF InPlay
<1>7. /\ t.drawCounter = d.drawCounter /\ t.pendingBluff = d.pendingBluff
      /\ t.challengeable = d.challengeable /\ t.hands = d.hands
      /\ t.phase = d.phase /\ t.pending = d.pending
  BY <1>3, <1>6 DEF Held, State
<1>8. t.drawCounter = 0 /\ t.pendingBluff = None /\ ~t.challengeable /\ t.phase = "TakingTurn"
      /\ t.pending = None
  BY <1>4, <1>6, <1>7 DEF SamePlay, InPlay
<1>9. Owing(t) /\ Debts(t) /\ t \in State
  BY <1>1, <1>2, <1>8, OneDrawnInPlay DEF Owing, Debts, ChoiceOwes, InPlay, Held
<1>10. Debts(state') /\ state'.hands = t.hands /\ state'.drawCounter = 0
  <2>1. CASE state' = t
    BY <1>8, <1>9, <2>1
  <2>2. CASE \E q : state' = ChangeTurn(t, q)
    BY <1>8, <1>9, <2>2, ChangeTurnDebts
  <2> QED
    BY <1>2, <2>1, <2>2
<1> QED
  BY <1>1, <1>4, <1>6, <1>7, <1>10, GrowsByRule DEF Lawful, Grows

-----------------------------------------------------------------------------
(* What is owed: the lobby and the seats *)

LEMMA NewGameDebts ==
  ASSUME NEW rules \in RuleSets
  PROVE  Debts(NewGame(rules))
BY DEF NewGame, Debts, Owing, ChoiceOwes

\* In the lobby nothing is owed, so what stays empty there is lawful.
LEMMA LobbyLawful ==
  ASSUME Sound(state), Debts(state), Sound(state'), state.phase = "Lobby", state'.phase = "Lobby",
         state'.drawCounter = state.drawCounter, state'.challengeable = state.challengeable,
         state'.drawnCard = state.drawnCard,
         state'.pending = state.pending, state'.pendingBluff = state.pendingBluff
  PROVE  Lawful
<1>1. /\ state.pending = None /\ state.pendingBluff = None /\ ~state.challengeable
      /\ state.drawCounter = 0 /\ state.drawnCard = None
  BY DEF Sound, ChoiceSeated, Debts, Owing
<1>2. Debts(state')
  BY <1>1 DEF Debts, Owing, ChoiceOwes
<1>3. \A q \in Players : state.hands[q] = {}
  BY DEF Sound, BareTable
<1> QED
  BY <1>1, <1>2, <1>3, GrowsByRule DEF Lawful, Grows

LEMMA SetRulesLawful ==
  ASSUME NEW rules \in RuleSets, Sound(state), Debts(state), SetRules(rules)
  PROVE  Lawful
<1>1. state \in State /\ state.phase = "Lobby"
  BY DEF Sound, Held, SetRules
<1>2. /\ state'.phase = "Lobby"
      /\ state'.drawCounter = state.drawCounter /\ state'.challengeable = state.challengeable
      /\ state'.drawnCard = state.drawnCard
      /\ state'.pending = state.pending /\ state'.pendingBluff = state.pendingBluff
  BY <1>1 DEF SetRules, State
<1> QED
  BY <1>1, <1>2, SetRulesSound, LobbyLawful

LEMMA JoinLobbyLawful ==
  ASSUME NEW p \in Players, Sound(state), Debts(state), JoinLobby(p)
  PROVE  Lawful
<1>1. state \in State /\ state.phase = "Lobby"
  BY DEF Sound, Held, JoinLobby
<1>2. /\ state'.phase = "Lobby"
      /\ state'.drawCounter = state.drawCounter /\ state'.challengeable = state.challengeable
      /\ state'.drawnCard = state.drawnCard
      /\ state'.pending = state.pending /\ state'.pendingBluff = state.pendingBluff
  BY <1>1 DEF JoinLobby, State
<1> QED
  BY <1>1, <1>2, JoinLobbySound, LobbyLawful

LEMMA CancelGameLawful ==
  ASSUME Sound(state), Debts(state), CancelGame
  PROVE  Lawful
<1>1. state \in State /\ state.drawCounter \in Nat
  BY DEF Sound, Held, State
<1>2. Debts(state') /\ state'.hands = state.hands /\ state'.drawCounter = state.drawCounter
  BY <1>1, FinishDebts DEF CancelGame, Debts, Owing
<1> QED
  BY <1>1, <1>2, GrowsByRule DEF Lawful, Grows

\* The same debts on a table with other seats: nobody who owes or is owed has gone.
LEMMA SameDebts ==
  ASSUME NEW s, Debts(s), NEW t, SameStake(s, t), t.phase = s.phase, t.pending = s.pending,
         t.drawnCard = s.drawnCard, Seated(s) \subseteq Seated(t)
  PROVE  Debts(t)
<1>1. Owing(t)
  BY SameStakeOwes DEF Debts, Owing
<1> QED
  BY <1>1 DEF Debts, ChoiceOwes, SameStake

LEMMA JoinLateLawful ==
  ASSUME NEW p \in Players, Sound(state), Debts(state), JoinLate(p)
  PROVE  Lawful
<1> DEFINE seat == SeatOf(state.order, state.current) + (IF state.direction = -1 THEN 1 ELSE 0)
           order == SX!InsertAt(state.order, seat, p)
           s == SeatTaken(state, p, order)
<1>1. /\ Held(state) /\ state \in State
      /\ state.status[p] # "Playing" /\ p \notin Range(state.order)
      /\ state.order \in Seq(Players) /\ IsInjective(state.order)
      /\ state.current \in Range(state.order) /\ state.drawCounter \in Nat
  BY DEF JoinLate, CanJoin, Sound, Held, SeatOrder, Seated, State, TurnSeated
<1>2. seat \in 1 .. Len(state.order) + 1
  BY <1>1, SeatOfSeated, LenProperties
<1> HIDE DEF seat
<1>3. /\ order \in Seq(Players) /\ IsInjective(order)
      /\ Range(order) = Range(state.order) \cup {p}
  BY <1>1, <1>2, InsertedSeat
<1>4. state' \in DrawTo(s, p, HandSize)
  BY <1>1 DEF JoinLate, State, seat, SeatTaken
<1> HIDE DEF order
<1>5. Held(s) /\ Seated(s) = Seated(state) \cup {p} /\ s.hands = state.hands
  BY <1>1, <1>3, SeatTakenHeld
<1>6. /\ SameStake(state, s) /\ s.phase = state.phase /\ s.pending = state.pending
      /\ s.drawnCard = state.drawnCard
  BY <1>1 DEF SeatTaken, State, SameStake
<1> HIDE DEF s
<1>7. /\ SamePlay(s, state')
      /\ \A q \in Players : s.hands[q] \subseteq state'.hands[q]
  BY <1>4, <1>5, EngineOK, DrawToHeld DEF EngineAssumption
<1>8. Debts(state')
  BY <1>5, <1>6, <1>7, SameDebts DEF SamePlay, SameStake, Seated
<1>9. state'.drawCounter = state.drawCounter /\ \A q \in Players : state.hands[q] \subseteq state'.hands[q]
  BY <1>5, <1>6, <1>7 DEF SamePlay, SameStake
<1> QED
  BY <1>1, <1>8, <1>9, GrowsByRule DEF Lawful, Grows

\* The steps of a departure, field by field.
LEMMA VacatedFields ==
  ASSUME NEW s \in State, NEW p \in Players
  PROVE  LET t == Vacated(s, p)
         IN  /\ SameStake(s, t) /\ t.phase = s.phase /\ t.pending = s.pending
             /\ t.drawnCard = s.drawnCard /\ t.current = s.current
             /\ \A q \in Players \ {p} : t.hands[q] = s.hands[q]
             /\ t.status[p] = "Left"
BY DEF Vacated, State, SameStake

LEMMA ReopenSwapFields ==
  ASSUME NEW s \in State, NEW p
  PROVE  LET t == ReopenSwap(s, p)
         IN  /\ SameStake(s, t) /\ t.drawnCard = s.drawnCard /\ t.current = s.current
             /\ t.hands = s.hands /\ t.status = s.status
             /\ \/ t.pending = s.pending /\ t.phase = s.phase
                \/ t.pending = None /\ s.pending # None /\ t.phase = "ChoosingPlayer"
BY DEF ReopenSwap, State, SameStake

LEMMA RetargetFields ==
  ASSUME NEW s \in State, NEW p
  PROVE  LET t == Retarget(s, p)
         IN  /\ SameStake(s, t) /\ t.drawnCard = s.drawnCard /\ t.current = s.current
             /\ t.hands = s.hands /\ t.status = s.status /\ t.phase = s.phase
             /\ s.pending = None => t.pending = None
             /\ s.pending # None =>
                  /\ t.pending.actor = s.pending.actor
                  /\ t.pending.drawCount = s.pending.drawCount
                  /\ t.pending.swapTarget = s.pending.swapTarget
                  /\ t.pending.challengeable = s.pending.challengeable
                  /\ t.pending.target \in {s.pending.target, NextSeat(s, s.pending.actor, 1)}
<1> DEFINE t == Retarget(s, p)
<1>1. CASE s.pending # None /\ s.pending.target = p
  <2> DEFINE q == NextSeat(s, s.pending.actor, 1)
             choice == [s.pending EXCEPT !.target = q]
  <2>1. s.pending \in ColorChoice
    BY <1>1 DEF State
  <2> HIDE DEF q
  <2>2. /\ choice.actor = s.pending.actor /\ choice.target = q
        /\ choice.drawCount = s.pending.drawCount /\ choice.swapTarget = s.pending.swapTarget
        /\ choice.challengeable = s.pending.challengeable
    BY <2>1 DEF ColorChoice
  <2>4. t = [s EXCEPT !.pending = choice]
    BY <1>1, <2>1 DEF Retarget, q, State
  <2> HIDE DEF t, choice
  <2>5. /\ SameStake(s, t) /\ t.drawnCard = s.drawnCard /\ t.current = s.current
        /\ t.hands = s.hands /\ t.status = s.status /\ t.phase = s.phase /\ t.pending = choice
    BY <2>4 DEF State, SameStake
  <2> QED
    BY <1>1, <2>2, <2>5 DEF t, q
<1>2. CASE ~(s.pending # None /\ s.pending.target = p)
  BY <1>2 DEF Retarget, SameStake
<1> QED
  BY <1>1, <1>2

LEMMA DropBluffFields ==
  ASSUME NEW s \in State, NEW p
  PROVE  LET t == DropBluff(s, p)
         IN  /\ t.drawCounter = s.drawCounter /\ t.top = s.top
             /\ t.drawnCard = s.drawnCard /\ t.current = s.current
             /\ t.hands = s.hands /\ t.status = s.status /\ t.phase = s.phase /\ t.pending = s.pending
             /\ \/ t.pendingBluff = None /\ ~t.challengeable
                \/ /\ t.pendingBluff = s.pendingBluff /\ t.challengeable = s.challengeable
                   /\ s.pendingBluff # None => s.pendingBluff.target # p
BY DEF DropBluff, Unchallenged, State

LEMMA PassSeatFields ==
  ASSUME NEW s \in State, NEW p, NEW next
  PROVE  LET t == PassSeat(s, p, next)
         IN  /\ SameStake(s, t) /\ t.drawnCard \in {None, s.drawnCard}
             /\ t.hands = s.hands /\ t.status = s.status /\ t.phase = s.phase /\ t.pending = s.pending
             /\ t.order = s.order
BY DEF PassSeat, ChangeTurn, State, SameStake

LEMMA LeaveGameLawful ==
  ASSUME NEW p \in Players, Sound(state), Debts(state), LeaveGame(p)
  PROVE  Lawful
<1> DEFINE s == Vacated(state, p)
           next == NextSeat(state, p, 1)
<1>1. /\ p \in Seated(state) /\ Held(state) /\ state \in State /\ state.drawCounter \in Nat
      /\ state.pending # None => state.pending.actor # p
  BY OnTurnSeated DEF LeaveGame, Sound, Held, State
<1>2. /\ Held(s) /\ Seated(s) = Seated(state) \ {p}
      /\ Len(s.order) = Len(state.order) - 1
  BY <1>1, VacatedHeld
<1>3. /\ SameStake(state, s) /\ s.phase = state.phase /\ s.pending = state.pending
      /\ s.drawnCard = state.drawnCard
      /\ \A q \in Players \ {p} : s.hands[q] = state.hands[q]
      /\ s.status[p] = "Left"
  BY <1>1, VacatedFields
<1>4. s \in State /\ (s.drawCounter > 0 => RankOf[s.top] \in {DrawTwo, WildDrawFour})
  BY <1>2, <1>3 DEF Held, SameStake, Debts, Owing
<1>5. ASSUME state'.hands = s.hands, state'.status = s.status, state'.drawCounter = s.drawCounter
      PROVE  LosesByRule /\ PaidOnce
  <2>1. state'.drawCounter = state.drawCounter
    BY <1>3, <1>5 DEF SameStake
  <2>2. PaidOnce
    BY <1>1, <2>1 DEF PaidOnce
  <2>3. LosesByRule
    BY <1>3, <1>5 DEF LosesByRule
  <2> QED
    BY <2>2, <2>3
<1>6. CASE state.phase = "Lobby" /\ state' = s
  <2> HIDE DEF s
  <2> QED
    BY <1>3, <1>6, LeaveGameSound, LobbyLawful DEF SameStake
<1>7. CASE Len(s.order) <= 1
           /\ state' = Finish(IF Len(s.order) = 1 THEN RecordLast(s) ELSE s, "Departure")
  <2> HIDE DEF s
  <2> DEFINE last == RecordLast(s)
  <2>1. CASE Len(s.order) = 1
    <3>1. last \in State
      <4>1. Len(s.order) >= 1
        BY <2>1
      <4> QED
        BY <1>2, <4>1, RecordLastHeld DEF Held
    <3>2. last.drawCounter = s.drawCounter /\ last.top = s.top /\ last.hands = s.hands
          /\ last.status = s.status
      BY <1>4 DEF RecordLast, State
    <3>3. state' = Finish(last, "Departure")
      BY <1>7, <2>1
    <3> HIDE DEF last
    <3>4. state'.status = last.status
      BY <3>1, <3>3 DEF Finish, Unchallenged, State
    <3>5. Debts(state') /\ state'.hands = last.hands /\ state'.drawCounter = last.drawCounter
      BY <1>4, <3>1, <3>2, <3>3, FinishDebts
    <3> QED
      BY <1>5, <3>2, <3>4, <3>5 DEF Lawful
  <2>2. CASE Len(s.order) # 1
    <3>1. state' = Finish(s, "Departure")
      BY <1>7, <2>2
    <3>2. state'.status = s.status
      BY <1>4, <3>1 DEF Finish, Unchallenged, State
    <3>3. Debts(state') /\ state'.hands = s.hands /\ state'.drawCounter = s.drawCounter
      BY <1>4, <3>1, FinishDebts
    <3> QED
      BY <1>5, <3>2, <3>3 DEF Lawful
  <2> QED
    BY <2>1, <2>2
<1>8. CASE /\ state.phase # "Lobby" /\ Len(s.order) > 1
           /\ state' = PassSeat(DropBluff(Retarget(ReopenSwap(s, p), p), p), p, next)
  <2>1. state.phase \in ActivePhases
    BY <1>1, <1>8 DEF LeaveGame, State, Phases, ActivePhases
  <2>2. Len(state.order) > 2
    <3>1. Len(state.order) \in Nat
      BY <1>1, LenProperties DEF State
    <3> QED
      BY <1>2, <1>8, <3>1
  <2>3. Gap(s, p)
    BY <1>1, <2>1, <2>2, VacatedGap
  <2> HIDE DEF s, next
  <2> DEFINE s1 == ReopenSwap(s, p)
             s2 == Retarget(s1, p)
             s3 == DropBluff(s2, p)
  <2>4. Gap(s1, p) /\ Seated(s1) = Seated(s)
    BY <2>3, ReopenSwapGap
  <2>5. s1 \in State
    BY <2>4 DEF Gap, Held
  <2>6. /\ SameStake(s, s1) /\ s1.drawnCard = s.drawnCard
        /\ s1.hands = s.hands /\ s1.status = s.status
        /\ \/ s1.pending = s.pending /\ s1.phase = s.phase
           \/ s1.pending = None /\ s.pending # None /\ s1.phase = "ChoosingPlayer"
    BY <1>4, ReopenSwapFields
  <2>7. s1.pending # None => NextSeat(s1, s1.pending.actor, 1) # s1.pending.actor
    BY <2>4, <2>5, NextSeatIsOther DEF Gap, Held
  <2> HIDE DEF s1
  <2>8. /\ Gap(s2, p) /\ Seated(s2) = Seated(s)
        /\ s2.pending # None => s2.pending.target \in Seated(s2)
    BY <2>4, RetargetGap
  <2>9. /\ SameStake(s1, s2) /\ s2.drawnCard = s1.drawnCard
        /\ s2.hands = s1.hands /\ s2.status = s1.status /\ s2.phase = s1.phase
        /\ s1.pending = None => s2.pending = None
        /\ s1.pending # None =>
             /\ s2.pending.actor = s1.pending.actor
             /\ s2.pending.drawCount = s1.pending.drawCount
             /\ s2.pending.swapTarget = s1.pending.swapTarget
             /\ s2.pending.challengeable = s1.pending.challengeable
             /\ s2.pending.target \in {s1.pending.target, NextSeat(s1, s1.pending.actor, 1)}
    BY <2>5, RetargetFields
  <2>10. s2 \in State
    BY <2>8 DEF Gap, Held
  <2> HIDE DEF s2
  <2>11. Gap(s3, p) /\ Seated(s3) = Seated(s)
    BY <2>8, DropBluffGap
  <2>12. /\ s3.drawCounter = s2.drawCounter /\ s3.top = s2.top /\ s3.drawnCard = s2.drawnCard
         /\ s3.hands = s2.hands /\ s3.status = s2.status /\ s3.phase = s2.phase
         /\ s3.pending = s2.pending
         /\ \/ s3.pendingBluff = None /\ ~s3.challengeable
            \/ /\ s3.pendingBluff = s2.pendingBluff /\ s3.challengeable = s2.challengeable
               /\ s2.pendingBluff # None => s2.pendingBluff.target # p
    BY <2>10, DropBluffFields
  <2>13. s3 \in State
    BY <2>11 DEF Gap, Held
  <2>14. state' = PassSeat(s3, p, next)
    BY <1>8 DEF s1, s2
  <2> HIDE DEF s3
  <2>15. /\ SameStake(s3, state') /\ state'.drawnCard \in {None, s3.drawnCard}
         /\ state'.hands = s3.hands /\ state'.status = s3.status /\ state'.phase = s3.phase
         /\ state'.pending = s3.pending /\ Seated(state') = Seated(s)
    BY <2>11, <2>13, <2>14, PassSeatFields DEF Seated
  <2>16. LosesByRule /\ PaidOnce
    BY <1>5, <2>6, <2>9, <2>12, <2>15 DEF SameStake
  <2>17. /\ state'.drawCounter = state.drawCounter /\ state'.top = state.top
         /\ \/ state'.pendingBluff = None /\ ~state'.challengeable
            \/ /\ state'.pendingBluff = state.pendingBluff
               /\ state'.challengeable = state.challengeable
               /\ state.pendingBluff # None => state.pendingBluff.target # p
    BY <1>3, <2>6, <2>9, <2>12, <2>15 DEF SameStake
  <2>18. Owing(state')
    BY <1>2, <2>15, <2>17 DEF Debts, Owing
  <2>19. state.pending # None => state.phase = "ChoosingColor" /\ state.pendingBluff = None
    BY DEF Sound, ChoiceSeated
  <2>20. /\ state'.phase # state.phase => state.pending # None
         /\ state'.phase # "Lobby"
         /\ state'.drawnCard # None => state.drawnCard # None
    BY <1>3, <1>8, <2>6, <2>9, <2>12, <2>15
  <2>21. state'.pending # None =>
           /\ state.pending # None
           /\ state'.pending.actor = state.pending.actor
           /\ state'.pending.drawCount = state.pending.drawCount
           /\ state'.pending.swapTarget = state.pending.swapTarget
           /\ state'.pending.challengeable = state.pending.challengeable
           /\ state'.pending.target # state'.pending.actor
    <3>1. state'.pending = s2.pending /\ (s1.pending # None => s1.pending = state.pending)
      BY <1>3, <2>6, <2>12, <2>15
    <3>2. state.pending # None => state.pending.actor # state.pending.target
      BY DEF Debts, ChoiceOwes
    <3> QED
      BY <2>7, <2>9, <3>1, <3>2
  <2>22. ChoiceOwes(state')
    BY <2>17, <2>21 DEF Debts, ChoiceOwes
  <2>23. Debts(state')
    BY <2>17, <2>18, <2>19, <2>20, <2>22 DEF Debts
  <2> QED
    BY <2>16, <2>23 DEF Lawful
<1> QED
  BY <1>6, <1>7, <1>8 DEF LeaveGame

-----------------------------------------------------------------------------
(* What is owed: playing a card *)

\* A table without a challenge or a card just drawn owes what its top says.
LEMMA CalmDebts ==
  ASSUME NEW t, t.pendingBluff = None, ~t.challengeable, t.drawnCard = None, t.phase # "Lobby",
         t.drawCounter > 0 => RankOf[t.top] \in {DrawTwo, WildDrawFour}, ChoiceOwes(t)
  PROVE  Debts(t)
BY DEF Debts, Owing

\* The card that answers a penalty is one of the kinds that make them.
LEMMA PlayableOwes ==
  ASSUME NEW p \in Players, NEW c, Playable(state, p, c), state.drawCounter > 0
  PROVE  RankOf[c] \in {DrawTwo, WildDrawFour}
BY DEF Playable, AnswersPenalty

\* Who plays loses that card; nobody else loses one, and nothing is forgiven.
LEMMA PlayedByRule ==
  ASSUME Sound(state), Sound(state'), NEW p \in Players, p = state.current, NEW c \in state.hands[p],
         state'.top = c, state.hands[p] \ {c} \subseteq state'.hands[p],
         \A q \in Players \ {p} : state.hands[q] \subseteq state'.hands[q],
         state'.drawCounter >= state.drawCounter
  PROVE  LosesByRule /\ PaidOnce
<1>1. c \notin state'.hands[p]
  BY DEF Sound, Held, PileOwnership
<1>2. LosesByRule
  BY <1>1 DEF LosesByRule
<1>3. PaidOnce
  <2>1. ~(state'.drawCounter < state.drawCounter)
    BY Counters
  <2> QED
    BY <2>1 DEF PaidOnce
<1> QED
  BY <1>2, <1>3

\* The table t right after the current player p put card c down.
PutDown(p, c, t) ==
  /\ InPlay(t) /\ p \in Seated(t) /\ p = state.current /\ c \in state.hands[p]
  /\ t.drawCounter = state.drawCounter /\ t.top = c /\ t.pendingBluff = None
  /\ ~t.challengeable /\ t.drawnCard = None /\ t.phase = "TakingTurn" /\ t.pending = None
  /\ t.drawCounter \in Nat
  /\ t.drawCounter > 0 => RankOf[c] \in {DrawTwo, WildDrawFour}
  /\ \A q \in Players : t.hands[q] = IF q = p THEN state.hands[p] \ {c} ELSE state.hands[q]

LEMMA DiscardedDebts ==
  ASSUME NEW p \in Players, NEW c, Sound(state), OnTurn(p, "TakingTurn"), Playable(state, p, c)
  PROVE  PutDown(p, c, Discarded(state, p, c))
<1> DEFINE t == Discarded(state, p, c)
<1>1. state \in State /\ state.drawCounter \in Nat
  BY DEF Sound, Held, State
<1>2. InPlay(t) /\ p \in Seated(t) /\ p = state.current /\ c \in state.hands[p]
  BY DiscardedInPlay DEF OnTurn, Playable
<1>3. state.drawCounter > 0 => RankOf[c] \in {DrawTwo, WildDrawFour}
  BY PlayableOwes
<1>4. /\ t.drawCounter = state.drawCounter /\ t.top = c /\ t.pendingBluff = None
      /\ ~t.challengeable /\ t.drawnCard = None
      /\ \A q \in Players : t.hands[q] = IF q = p THEN state.hands[p] \ {c} ELSE state.hands[q]
  BY <1>1 DEF Discarded, Unchallenged, State
<1>5. t.phase = "TakingTurn" /\ t.pending = None
  BY <1>2 DEF InPlay
<1> HIDE DEF t
<1>6. /\ t.drawCounter \in Nat
      /\ t.drawCounter > 0 => RankOf[c] \in {DrawTwo, WildDrawFour}
  BY <1>1, <1>3, <1>4
<1> QED
  BY <1>2, <1>4, <1>5, <1>6 DEF t, PutDown

LEMMA PlaySwapHandsLawful ==
  ASSUME NEW p \in Players, NEW c, Sound(state), Debts(state), PlaySwapHands(p, c)
  PROVE  Lawful
<1> DEFINE s == Discarded(state, p, c)
<1>1. PutDown(p, c, s)
  BY DiscardedDebts DEF PlaySwapHands
<1>2. /\ RankOf[c] = SwapHands
      /\ \/ state' = CompletePlay(s, p, NextSeat(s, p, 1))
         \/ state' = [s EXCEPT !.phase = "ChoosingPlayer"]
  BY DEF PlaySwapHands
<1> HIDE DEF s
<1>3. s \in State /\ NextSeat(s, p, 1) \in Players /\ Owing(s)
  <2>1. Held(s) /\ NextSeat(s, p, 1) \in Seated(s)
    BY <1>1, NextSeatSeated DEF InPlay, Held, PutDown
  <2> QED
    BY <1>1, <2>1 DEF Held, SeatOrder, Owing, PutDown
<1>4. Debts(state') /\ state'.hands = s.hands /\ state'.top = c /\ state'.drawCounter = s.drawCounter
  <2>1. CASE state' = CompletePlay(s, p, NextSeat(s, p, 1))
    BY <1>1, <1>3, <2>1, CompletePlayDebts DEF PutDown
  <2>2. CASE state' = [s EXCEPT !.phase = "ChoosingPlayer"]
    <3>1. /\ state'.phase = "ChoosingPlayer" /\ state'.pending = s.pending
          /\ state'.drawCounter = s.drawCounter /\ state'.top = s.top /\ state'.hands = s.hands
          /\ state'.pendingBluff = s.pendingBluff /\ state'.challengeable = s.challengeable
          /\ state'.drawnCard = s.drawnCard
      BY <1>3, <2>2 DEF State
    <3> QED
      BY <1>1, <3>1, CalmDebts DEF ChoiceOwes, PutDown
  <2> QED
    BY <1>2, <2>1, <2>2
<1>5. Sound(state')
  BY PlaySwapHandsSound
<1>6. LosesByRule /\ PaidOnce
  BY <1>1, <1>4, <1>5, PlayedByRule DEF PutDown
<1> QED
  BY <1>4, <1>6 DEF Lawful

LEMMA PlayWildLawful ==
  ASSUME NEW p \in Players, NEW c, Sound(state), Debts(state), PlayWild(p, c)
  PROVE  Lawful
<1> DEFINE s == Discarded(state, p, c)
           open == /\ RankOf[c] = WildDrawFour
                   /\ ~(/\ state.drawCounter > 0
                        /\ RankOf[state.top] = DrawTwo
                        /\ state.rules.StackWildDrawFourOnTwo)
           cost == IF RankOf[c] = WildDrawFour THEN FourPenalty ELSE 0
           target == NextSeat(s, p, 1)
           choice == [ actor |-> p,
                       target |-> target,
                       previousColor |-> s.activeColor,
                       drawCount |-> cost,
                       initial |-> FALSE,
                       bluffing |-> open /\ \E d \in s.hands[p] : ColorOf[d] = s.activeColor,
                       challengeable |-> open,
                       swapHands |-> FALSE,
                       swapTarget |-> None ]
<1>1. PutDown(p, c, s)
  BY DiscardedDebts DEF PlayWild
<1>2. state' = [s EXCEPT !.phase = "ChoosingColor", !.pending = choice]
  BY DEF PlayWild
<1>3. /\ choice.actor = p /\ choice.target = target /\ choice.swapTarget = None
      /\ choice.drawCount = cost /\ choice.challengeable = open
  OBVIOUS
<1> HIDE DEF choice, s
<1>4. s \in State /\ target # p
  BY <1>1, NextSeatIsOther DEF InPlay, Held, PutDown
<1>5. (cost # 0 => RankOf[c] = WildDrawFour) /\ (open => cost # 0)
  BY EngineOK DEF EngineAssumption
<1> HIDE DEF open, cost, target
<1>6. /\ state'.phase = "ChoosingColor" /\ state'.pending = choice
      /\ state'.drawCounter = s.drawCounter /\ state'.top = s.top /\ state'.hands = s.hands
      /\ state'.pendingBluff = s.pendingBluff /\ state'.challengeable = s.challengeable
      /\ state'.drawnCard = s.drawnCard
  BY <1>2, <1>4 DEF State
<1>7. ChoiceOwes(state')
  BY <1>1, <1>3, <1>4, <1>5, <1>6 DEF ChoiceOwes, PutDown
<1>8. Debts(state')
  BY <1>1, <1>6, <1>7, CalmDebts DEF PutDown
<1>9. Sound(state')
  BY PlayWildSound
<1>10. LosesByRule /\ PaidOnce
  BY <1>1, <1>6, <1>9, PlayedByRule DEF PutDown
<1> QED
  BY <1>8, <1>10 DEF Lawful

\* Whatever a coloured card brings about, only its author lost a card.
LEMMA ColoredEffectsDebts ==
  ASSUME NEW s, InPlay(s), Owing(s), s.pendingBluff = None, NEW p \in Seated(s),
         NEW t \in ColoredEffects(s, p)
  PROVE  /\ Debts(t) /\ t.top = s.top /\ t.drawCounter >= s.drawCounter
         /\ t.hands[p] = s.hands[p]
         /\ \A q \in Players : s.hands[q] \subseteq t.hands[q]
<1> DEFINE next == NextSeat(s, p, 1)
           reversed == [s EXCEPT !.direction = -@]
           raised == [s EXCEPT !.drawCounter = @ + TwoPenalty]
<1>1. /\ s \in State /\ s.drawCounter \in Nat /\ TwoPenalty \in Nat /\ Held(s) /\ p \in Players
      /\ Seated(s) \subseteq Players
  BY EngineOK DEF InPlay, Held, State, EngineAssumption, SeatOrder
<1>2. (\A k \in {1, 2} : NextSeat(s, p, k) \in Players) /\ next \in Seated(s) /\ next # p
  BY <1>1, NextSeatSeated, NextSeatIsOther DEF InPlay, Held
<1>3. CASE \E k \in Players : t = CompletePlay(s, p, k)
  BY <1>1, <1>3, CompletePlayDebts
<1>4. CASE t = CompletePlay(reversed, p, NextSeat(reversed, p, 1))
  <2>1. InPlay(reversed) /\ Seated(reversed) = Seated(s)
    BY DirectionInPlay
  <2>2. SameStake(s, reversed) /\ reversed.hands = s.hands
    BY <1>1 DEF State, SameStake
  <2> HIDE DEF reversed
  <2>3. NextSeat(reversed, p, 1) \in Players
    BY <1>1, <2>1, NextSeatSeated DEF InPlay, Held
  <2>4. Owing(reversed) /\ reversed.pendingBluff = None
    BY <2>2, SameStakeOwes DEF SameStake
  <2> QED
    BY <1>1, <1>4, <2>1, <2>2, <2>3, <2>4, CompletePlayDebts DEF SameStake
<1>5. CASE t = CompletePlay(raised, p, next) /\ RankOf[s.top] = DrawTwo
  <2> DEFINE n == s.drawCounter + TwoPenalty
  <2>1. n \in Nat /\ n >= s.drawCounter
    BY <1>1
  <2>2. raised = [s EXCEPT !.drawCounter = n]
    BY <1>1 DEF State
  <2> HIDE DEF raised, n
  <2>3. InPlay(raised) /\ Seated(raised) = Seated(s)
    BY <2>1, <2>2, CounterInPlay
  <2>4. /\ raised.drawCounter = n /\ raised.top = s.top /\ raised.hands = s.hands
        /\ raised.pendingBluff = s.pendingBluff /\ raised.challengeable = s.challengeable
    BY <1>1, <2>2 DEF State
  <2>5. Owing(raised)
    BY <1>5, <2>4 DEF Owing
  <2> HIDE DEF next
  <2> QED
    BY <1>1, <1>2, <1>5, <2>1, <2>3, <2>4, <2>5, CompletePlayDebts
<1>6. CASE t \in {CompletePlay(u, p, NextSeat(u, p, 2)) : u \in DrawTo(s, next, TwoPenalty)}
  <2>1. PICK u \in DrawTo(s, next, TwoPenalty) : t = CompletePlay(u, p, NextSeat(u, p, 2))
    BY <1>6
  <2> HIDE DEF next
  <2>2. InPlay(u) /\ Seated(u) = Seated(s) /\ SamePlay(s, u)
    BY <1>1, <1>2, <2>1, DrawToInPlay, DrawToHeld
  <2>3. /\ s.hands[next] \subseteq u.hands[next]
        /\ \A q \in Players \ {next} : u.hands[q] = s.hands[q]
    BY <1>1, <1>2, <2>1, DrawToCounts
  <2>4. NextSeat(u, p, 2) \in Players
    BY <1>1, <2>2, NextSeatSeated DEF InPlay, Held
  <2>5. Owing(u) /\ u.pendingBluff = None
    BY <2>2, SameStakeOwes DEF SamePlay, SameStake
  <2>6. Debts(t) /\ t.hands = u.hands /\ t.top = u.top /\ t.drawCounter = u.drawCounter
    BY <2>1, <2>2, <2>4, <2>5, CompletePlayDebts
  <2> QED
    BY <1>1, <1>2, <2>2, <2>3, <2>6 DEF SamePlay
<1> QED
  BY <1>1, <1>2, <1>3, <1>4, <1>5, <1>6 DEF ColoredEffects

LEMMA PlayColoredLawful ==
  ASSUME NEW p \in Players, NEW c, Sound(state), Debts(state), PlayColored(p, c)
  PROVE  Lawful
<1> DEFINE s == Discarded(state, p, c)
           u == [s EXCEPT !.activeColor = ColorOf[c]]
<1>1. PutDown(p, c, s)
  BY DiscardedDebts DEF PlayColored
<1>2. state' \in ColoredEffects(u, p)
  BY DEF PlayColored
<1>3. c \in Cards
  BY DiscardedInPlay DEF PlayColored
<1>4. ColorOf[c] \in Colors \cup {None}
  BY <1>3, CardsOK DEF CardsAssumption
<1> HIDE DEF s
<1>5. InPlay(u) /\ Seated(u) = Seated(s) /\ u.pendingBluff = None
  BY <1>1, <1>4, ColorInPlay DEF PutDown
<1>6. SameStake(s, u) /\ u.hands = s.hands
  BY <1>1 DEF InPlay, Held, State, SameStake, PutDown
<1> HIDE DEF u
<1>7. Owing(u)
  BY <1>1, <1>6 DEF Owing, SameStake, PutDown
<1>8. /\ Debts(state') /\ state'.top = c /\ state'.drawCounter >= state.drawCounter
      /\ state'.hands[p] = s.hands[p]
      /\ \A q \in Players : s.hands[q] \subseteq state'.hands[q]
  BY <1>1, <1>2, <1>5, <1>6, <1>7, ColoredEffectsDebts DEF SameStake, PutDown
<1>9. Sound(state')
  BY PlayColoredSound
<1>10. LosesByRule /\ PaidOnce
  BY <1>1, <1>8, <1>9, PlayedByRule DEF PutDown
<1> QED
  BY <1>8, <1>10 DEF Lawful

-----------------------------------------------------------------------------
(* What is owed: choices *)

LEMMA SwapChoiceLawful ==
  ASSUME NEW p \in Players, Sound(state), Debts(state), OnTurn(p, "ChoosingPlayer"),
         NEW target \in Players \cup {None},
         state' = [state EXCEPT !.phase = "ChoosingColor", !.pending = SwapChoice(p, target)]
  PROVE  Lawful
<1> DEFINE choice == SwapChoice(p, target)
           next == NextSeat(state, p, 1)
<1>1. /\ Held(state) /\ state \in State /\ state.phase = "ChoosingPlayer"
      /\ Len(state.order) >= 2 /\ p \in Seated(state)
  BY OnTurnSeated DEF Sound, Held, OnTurn, TurnSeated, ActivePhases
<1>2. next # p
  BY <1>1, NextSeatIsOther DEF Held
<1> HIDE DEF next
<1>3. choice.actor = p /\ choice.target = next /\ choice.drawCount = 0 /\ choice.challengeable = FALSE
  BY DEF SwapChoice, next
<1> HIDE DEF choice
<1>4. /\ state'.phase = "ChoosingColor" /\ state'.pending = choice
      /\ state'.drawCounter = state.drawCounter /\ state'.top = state.top
      /\ state'.hands = state.hands /\ state'.pendingBluff = state.pendingBluff
      /\ state'.challengeable = state.challengeable /\ state'.drawnCard = state.drawnCard
  BY <1>1 DEF State, choice
<1>5. state.pendingBluff = None /\ ~state.challengeable /\ state.drawnCard = None
  BY <1>1 DEF Debts, Owing
<1>6. ChoiceOwes(state')
  BY <1>2, <1>3, <1>4 DEF ChoiceOwes
<1>7. state'.drawCounter > 0 => RankOf[state'.top] \in {DrawTwo, WildDrawFour}
  BY <1>4 DEF Debts, Owing
<1>8. Debts(state')
  BY <1>4, <1>5, <1>6, <1>7, CalmDebts
<1>9. LosesByRule /\ PaidOnce
  BY <1>1, <1>4 DEF LosesByRule, PaidOnce, State
<1> QED
  BY <1>8, <1>9 DEF Lawful

LEMMA ChoosePlayerLawful ==
  ASSUME NEW p \in Players, Sound(state), Debts(state),
         KeepHand(p) \/ \E q \in Players : ChoosePlayer(p, q)
  PROVE  Lawful
<1>1. PICK target \in Players \cup {None} :
        /\ OnTurn(p, "ChoosingPlayer")
        /\ state' = [state EXCEPT !.phase = "ChoosingColor", !.pending = SwapChoice(p, target)]
  BY DEF KeepHand, ChoosePlayer
<1> QED
  BY <1>1, SwapChoiceLawful

\* The hands after a swap.
LEMMA SwappedHands ==
  ASSUME NEW s \in State, NEW p \in Players, NEW q \in Players
  PROVE  LET t == SwapHandsOf(s, p, q)
         IN  /\ t.hands[p] = s.hands[q] /\ t.hands[q] = s.hands[p]
             /\ \A r \in Players \ {p, q} : t.hands[r] = s.hands[r]
             /\ t.drawnCard = s.drawnCard
<1> DEFINE t == SwapHandsOf(s, p, q)
           hands == [s.hands EXCEPT ![p] = s.hands[q], ![q] = s.hands[p]]
<1>1. t = [s EXCEPT !.hands = hands]
  BY DEF SwapHandsOf, State
<1>2. /\ hands[p] = s.hands[q] /\ hands[q] = s.hands[p]
      /\ \A r \in Players \ {p, q} : hands[r] = s.hands[r]
  BY DEF State
<1> HIDE DEF t, hands
<1>3. t.hands = hands /\ t.drawnCard = s.drawnCard
  BY <1>1 DEF State
<1> QED
  BY <1>2, <1>3 DEF t

\* Closing a choice touches neither penalty nor challenge.
LEMMA ClosedStake ==
  ASSUME NEW s \in State, NEW color
  PROVE  SameStake(s, Closed(s, color)) /\ Closed(s, color).drawnCard = s.drawnCard
BY DEF State, Closed, SameStake

\* Raising a penalty over a Wild Draw Four, with or without a challenge.
LEMMA RaisedOwes ==
  ASSUME NEW s \in State, NEW n \in Nat, n >= FourPenalty, RankOf[s.top] = WildDrawFour,
         NEW open \in BOOLEAN, NEW bluff, bluff # None <=> open,
         bluff # None => bluff.target \in Seated(s) /\ bluff.actor # bluff.target
  PROVE  /\ Owing(Raised(s, n, open, bluff)) /\ Raised(s, n, open, bluff).top = s.top
         /\ Raised(s, n, open, bluff).drawCounter = n
<1> DEFINE t == Raised(s, n, open, bluff)
<1>1. /\ t.drawCounter = n /\ t.challengeable = open /\ t.pendingBluff = bluff
      /\ t.top = s.top /\ t.order = s.order
  BY DEF State, Raised
<1> HIDE DEF t
<1>2. Owing(t)
  BY <1>1 DEF Owing, Seated
<1> QED
  BY <1>1, <1>2 DEF t

LEMMA ChooseColorLawful ==
  ASSUME NEW p \in Players, NEW color \in Colors, Sound(state), Debts(state), ChooseColor(p, color)
  PROVE  Lawful
<1> DEFINE choice == state.pending
           actor == choice.actor
           target == choice.target
           partner == choice.swapTarget
           drawn == choice.drawCount
           open == choice.challengeable
           swapped == IF partner # None THEN SwapHandsOf(state, actor, partner) ELSE state
           chosen == Closed(swapped, color)
           bluff == IF open THEN [actor |-> actor, target |-> target, bluffing |-> choice.bluffing]
                    ELSE None
           count == state.drawCounter + drawn
<1>1. /\ Held(state) /\ choice # None /\ choice \in ColorChoice
      /\ state.pendingBluff = None /\ state.phase = "ChoosingColor"
      /\ actor \in Seated(state) /\ target \in Seated(state)
      /\ Len(state.order) >= 2
      /\ Seated(state) \subseteq Players /\ state \in State
      /\ drawn \in Nat /\ open \in BOOLEAN /\ choice.bluffing \in BOOLEAN
      /\ state.drawCounter \in Nat /\ (drawn # 0 => drawn = FourPenalty) /\ FourPenalty \in Nat
  BY EngineOK DEF Sound, Held, State, ChooseColor, ChoiceSeated, TurnSeated, ActivePhases,
                  SeatOrder, ColorChoice, EngineAssumption
<1>2. /\ actor # target
      /\ drawn # 0 => RankOf[state.top] = WildDrawFour /\ partner = None
      /\ open => drawn # 0
      /\ state.drawnCard = None /\ ~state.challengeable /\ Owing(state)
  BY <1>1 DEF Debts, ChoiceOwes, Owing
<1>3. partner # None => partner \in Seated(state)
  BY <1>1 DEF ChooseColor, ColorChoice, Held, SeatOrder
<1>4. \/ state' = chosen
      \/ drawn = 0 /\ state' = CompletePlay(chosen, actor, target)
      \/ drawn # 0 /\ state' = CompletePlay([chosen EXCEPT !.drawCounter = @ + drawn,
                                                           !.challengeable = open,
                                                           !.pendingBluff = bluff], actor, target)
      \/ \E u \in DrawTo(chosen, target, drawn) :
           drawn # 0 /\ state' = CompletePlay(u, actor, NextSeat(u, target, 1))
  BY DEF ChooseColor, ChosenColor, Closed
<1>5. /\ bluff # None <=> open
      /\ bluff \in BluffInfo \cup {None}
      /\ bluff # None => bluff.actor = actor /\ bluff.target = target
  <2>1. CASE open
    <3> DEFINE b == [actor |-> actor, target |-> target, bluffing |-> choice.bluffing]
    <3>1. b \in BluffInfo
      BY <1>1 DEF BluffInfo
    <3>2. b # None
      BY <3>1, NothingOK DEF NothingAssumption
    <3> QED
      BY <2>1, <3>1, <3>2
  <2>2. CASE ~open
    BY <2>2
  <2> QED
    BY <2>1, <2>2
<1> HIDE DEF choice, actor, target, partner, drawn, open, bluff, swapped
<1>6. /\ Held(swapped) /\ swapped.order = state.order /\ SameStake(state, swapped)
      /\ swapped.drawnCard = None
      /\ IF partner = None THEN swapped.hands = state.hands
         ELSE /\ swapped.hands[actor] = state.hands[partner]
              /\ swapped.hands[partner] = state.hands[actor]
              /\ \A r \in Players \ {actor, partner} : swapped.hands[r] = state.hands[r]
  <2>1. CASE partner # None
    <3>1. swapped = SwapHandsOf(state, actor, partner)
      BY <2>1 DEF swapped
    <3>2. Held(swapped) /\ SamePlay(state, swapped)
      BY <1>1, <1>3, <2>1, <3>1, SwapHandsHeld
    <3>3. /\ swapped.hands[actor] = state.hands[partner]
          /\ swapped.hands[partner] = state.hands[actor]
          /\ \A r \in Players \ {actor, partner} : swapped.hands[r] = state.hands[r]
      BY <1>1, <1>3, <2>1, <3>1, SwappedHands
    <3> QED
      BY <1>2, <2>1, <3>2, <3>3 DEF SamePlay, SameStake
  <2>2. CASE partner = None
    BY <1>1, <1>2, <2>2 DEF swapped, SameStake
  <2> QED
    BY <2>1, <2>2
<1>7. /\ InPlay(chosen) /\ Seated(chosen) = Seated(state) /\ chosen.pendingBluff = None
      /\ chosen.hands = swapped.hands /\ chosen.drawCounter = state.drawCounter
  <2>1. Len(swapped.order) >= 2 /\ Seated(swapped) = Seated(state) /\ swapped.pendingBluff = None
        /\ swapped.drawCounter = state.drawCounter
    BY <1>1, <1>6 DEF Seated, SameStake
  <2> QED
    BY <1>6, <2>1, ClosedInPlay
<1>8. SameStake(state, chosen) /\ chosen.drawnCard = None
  <2>1. SameStake(swapped, chosen) /\ chosen.drawnCard = swapped.drawnCard
    BY <1>6, ClosedStake DEF Held
  <2> QED
    BY <1>6, <2>1 DEF SameStake
<1>9. Owing(chosen)
  BY <1>1, <1>2, <1>8, SameStakeOwes
<1>10. chosen \in State /\ actor \in Seated(chosen) /\ target \in Seated(chosen) /\ target \in Players
  BY <1>1, <1>7 DEF InPlay, Held
<1>11. [chosen EXCEPT !.drawCounter = @ + drawn, !.challengeable = open, !.pendingBluff = bluff]
         = Raised(chosen, count, open, bluff)
  BY <1>7, <1>10 DEF Raised, State
<1> DEFINE raised == Raised(chosen, count, open, bluff)
<1>12. \/ state' = chosen
       \/ state' = CompletePlay(chosen, actor, target)
       \/ drawn # 0 /\ state' = CompletePlay(raised, actor, target)
       \/ \E u \in DrawTo(chosen, target, drawn) :
            drawn # 0 /\ state' = CompletePlay(u, actor, NextSeat(u, target, 1))
  BY <1>4, <1>11
<1>13. Sound(state')
  BY ChooseColorSound
<1> HIDE DEF chosen, raised
<1>14. ASSUME state'.hands = chosen.hands, state'.drawCounter >= state.drawCounter
       PROVE  LosesByRule /\ PaidOnce
  <2>1. CASE partner = None
    BY <1>1, <1>6, <1>7, <1>13, <1>14, <2>1, Counters, GrowsByRule DEF Grows
  <2>2. CASE partner # None
    <3>1. \A r \in Players : ~(state.hands[r] \subseteq state'.hands[r]) =>
            /\ r \in {actor, partner}
            /\ state'.hands[actor] = state.hands[partner]
            /\ state'.hands[partner] = state.hands[actor]
      BY <1>6, <1>7, <1>14, <2>2
    <3>2. LosesByRule
      BY <1>1, <3>1 DEF LosesByRule, choice, actor, partner
    <3>3. ~(state'.drawCounter < state.drawCounter)
      BY <1>1, <1>13, <1>14, Counters
    <3> QED
      BY <3>2, <3>3 DEF PaidOnce
  <2> QED
    BY <2>1, <2>2
<1>15. CASE state' = chosen
  <2>1. Debts(state')
    BY <1>7, <1>8, <1>9, <1>15 DEF Debts, ChoiceOwes, InPlay
  <2>2. state'.hands = chosen.hands /\ state'.drawCounter >= state.drawCounter
    BY <1>1, <1>7, <1>15
  <2> QED
    BY <1>14, <2>1, <2>2 DEF Lawful
<1>16. CASE state' = CompletePlay(chosen, actor, target)
  <2>1. Debts(state') /\ state'.hands = chosen.hands /\ state'.drawCounter = chosen.drawCounter
    BY <1>7, <1>9, <1>10, <1>16, CompletePlayDebts
  <2>2. state'.drawCounter >= state.drawCounter
    BY <1>1, <1>7, <2>1
  <2> QED
    BY <1>14, <2>1, <2>2 DEF Lawful
<1>17. CASE drawn # 0 /\ state' = CompletePlay(raised, actor, target)
  <2>1. count \in Nat /\ count >= FourPenalty /\ count >= state.drawCounter
    BY <1>1, <1>17
  <2> HIDE DEF count
  <2>2. RankOf[chosen.top] = WildDrawFour
    BY <1>2, <1>8, <1>17 DEF SameStake
  <2>3. bluff # None /\ bluff.bluffing => bluff.actor \in Seated(chosen)
    BY <1>5, <1>10
  <2>4. InPlay(raised) /\ Seated(raised) = Seated(chosen)
        /\ raised.pendingBluff = bluff /\ raised.hands = chosen.hands
    BY <1>1, <1>5, <1>7, <2>1, <2>3, RaisedInPlay DEF raised
  <2>5. Owing(raised) /\ raised.drawCounter = count
    BY <1>1, <1>2, <1>5, <1>10, <2>1, <2>2, RaisedOwes DEF raised
  <2>6. raised.pendingBluff # None => raised.pendingBluff.target # actor
    BY <1>2, <1>5, <2>4
  <2>7. Debts(state') /\ state'.hands = raised.hands /\ state'.drawCounter = raised.drawCounter
    BY <1>10, <1>17, <2>4, <2>5, <2>6, CompletePlayDebts
  <2> QED
    BY <1>14, <2>1, <2>4, <2>5, <2>7 DEF Lawful
<1>18. CASE \E u \in DrawTo(chosen, target, drawn) :
              drawn # 0 /\ state' = CompletePlay(u, actor, NextSeat(u, target, 1))
  <2>1. PICK u \in DrawTo(chosen, target, drawn) :
          drawn # 0 /\ state' = CompletePlay(u, actor, NextSeat(u, target, 1))
    BY <1>18
  <2>2. InPlay(u) /\ Seated(u) = Seated(chosen) /\ SamePlay(chosen, u)
    BY <1>1, <1>7, <1>10, <2>1, DrawToInPlay, DrawToHeld DEF InPlay
  <2>3. /\ chosen.hands[target] \subseteq u.hands[target]
        /\ \A q \in Players \ {target} : u.hands[q] = chosen.hands[q]
    BY <1>1, <1>7, <1>10, <2>1, DrawToCounts DEF InPlay
  <2>4. NextSeat(u, target, 1) \in Players
    BY <1>1, <1>7, <1>10, <2>2, NextSeatSeated DEF InPlay, Held
  <2>5. Owing(u) /\ u.pendingBluff = None
    BY <1>7, <1>9, <2>2, SameStakeOwes DEF SamePlay, SameStake
  <2>6. Debts(state') /\ state'.hands = u.hands /\ state'.drawCounter = u.drawCounter
    BY <1>10, <2>1, <2>2, <2>4, <2>5, CompletePlayDebts
  <2>7. swapped.hands = state.hands
    BY <1>2, <1>6, <2>1
  <2>8. Grows(state, state')
    BY <1>1, <1>7, <1>10, <2>2, <2>3, <2>6, <2>7 DEF Grows, SamePlay
  <2> QED
    BY <1>13, <2>6, <2>8, <1>1, Counters, GrowsByRule DEF Lawful
<1> QED
  BY <1>12, <1>15, <1>16, <1>17, <1>18

-----------------------------------------------------------------------------
(* What is owed: the deal *)

LEMMA OpeningDebts ==
  ASSUME NEW s, InPlay(s), s.pendingBluff = None, ~s.challengeable, s.drawnCard = None,
         s.drawCounter = 0, s.current \in Seated(s), NEW dealer \in Seated(s),
         NEW t \in Opening(s, dealer)
  PROVE  Debts(t) /\ \A q \in Players : s.hands[q] \subseteq t.hands[q]
<1> DEFINE first == s.current
           next == NextSeat(s, first, 1)
           choice == [ actor |-> first,
                       target |-> next,
                       previousColor |-> None,
                       drawCount |-> 0,
                       initial |-> TRUE,
                       bluffing |-> FALSE,
                       challengeable |-> FALSE,
                       swapHands |-> FALSE,
                       swapTarget |-> None ]
<1>1. /\ s \in State /\ TwoPenalty \in Nat /\ first \in Players /\ s.pending = None
      /\ s.phase = "TakingTurn" /\ Held(s) /\ Len(s.order) >= 2
  BY EngineOK DEF InPlay, Held, SeatOrder, EngineAssumption
<1>2. next # first
  BY <1>1, NextSeatIsOther DEF Held
<1>3. ASSUME NEW u, SamePlay(s, u), \A q \in Players : s.hands[q] \subseteq u.hands[q],
             NEW v, v.drawCounter = u.drawCounter, v.top = u.top, v.pending = u.pending,
             v.pendingBluff = u.pendingBluff, v.challengeable = u.challengeable,
             v.drawnCard = u.drawnCard, v.phase = u.phase, v.hands = u.hands
      PROVE  Debts(v) /\ \A q \in Players : s.hands[q] \subseteq v.hands[q]
  <2>1. /\ v.drawCounter = 0 /\ v.pending = None /\ v.pendingBluff = None
        /\ ~v.challengeable /\ v.drawnCard = None /\ v.phase = "TakingTurn"
    BY <1>1, <1>3 DEF SamePlay
  <2> QED
    BY <1>3, <2>1, CalmDebts DEF ChoiceOwes
<1>4. SamePlay(s, s)
  BY DEF SamePlay
<1>5. CASE t = [s EXCEPT !.direction = -1, !.current = dealer]
  <2>1. /\ t.drawCounter = s.drawCounter /\ t.top = s.top /\ t.pending = s.pending
        /\ t.pendingBluff = s.pendingBluff /\ t.challengeable = s.challengeable
        /\ t.drawnCard = s.drawnCard /\ t.phase = s.phase /\ t.hands = s.hands
    BY <1>1, <1>5 DEF State
  <2> QED
    BY <1>3, <1>4, <2>1
<1>6. CASE t = [s EXCEPT !.current = next]
  <2>1. /\ t.drawCounter = s.drawCounter /\ t.top = s.top /\ t.pending = s.pending
        /\ t.pendingBluff = s.pendingBluff /\ t.challengeable = s.challengeable
        /\ t.drawnCard = s.drawnCard /\ t.phase = s.phase /\ t.hands = s.hands
    BY <1>1, <1>6 DEF State
  <2> QED
    BY <1>3, <1>4, <2>1
<1>7. CASE RankOf[s.top] = DrawTwo /\ t = [s EXCEPT !.drawCounter = TwoPenalty]
  <2>1. /\ t.drawCounter = TwoPenalty /\ t.top = s.top /\ t.pending = s.pending
        /\ t.pendingBluff = s.pendingBluff /\ t.challengeable = s.challengeable
        /\ t.drawnCard = s.drawnCard /\ t.phase = s.phase /\ t.hands = s.hands
    BY <1>1, <1>7 DEF State
  <2>2. /\ t.pendingBluff = None /\ ~t.challengeable /\ t.drawnCard = None /\ t.phase # "Lobby"
        /\ RankOf[t.top] \in {DrawTwo, WildDrawFour} /\ ChoiceOwes(t)
    BY <1>1, <1>7, <2>1 DEF ChoiceOwes
  <2> QED
    BY <2>1, <2>2, CalmDebts
<1>8. CASE t \in {[u EXCEPT !.current = NextSeat(u, first, 1)] : u \in DrawTo(s, first, TwoPenalty)}
  <2>1. PICK u \in DrawTo(s, first, TwoPenalty) : t = [u EXCEPT !.current = NextSeat(u, first, 1)]
    BY <1>8
  <2>2. u \in State /\ SamePlay(s, u)
    BY <1>1, <2>1, DrawToHeld DEF Held
  <2>3. \A q \in Players : s.hands[q] \subseteq u.hands[q]
    <3>1. /\ s.hands[first] \subseteq u.hands[first]
          /\ \A q \in Players \ {first} : u.hands[q] = s.hands[q]
      BY <1>1, <2>1, DrawToCounts
    <3> QED
      BY <3>1
  <2>4. /\ t.drawCounter = u.drawCounter /\ t.top = u.top /\ t.pending = u.pending
        /\ t.pendingBluff = u.pendingBluff /\ t.challengeable = u.challengeable
        /\ t.drawnCard = u.drawnCard /\ t.phase = u.phase /\ t.hands = u.hands
    BY <2>1, <2>2 DEF State
  <2> HIDE DEF first, next, choice
  <2> QED
    BY <1>3, <2>2, <2>3, <2>4
<1>9. CASE t = [s EXCEPT !.phase = "ChoosingColor", !.pending = choice]
  <2>1. /\ choice.actor = first /\ choice.target = next /\ choice.drawCount = 0
        /\ choice.challengeable = FALSE
    OBVIOUS
  <2> HIDE DEF first, next, choice
  <2>2. /\ t.phase = "ChoosingColor" /\ t.pending = choice /\ t.drawCounter = s.drawCounter
        /\ t.pendingBluff = s.pendingBluff /\ t.challengeable = s.challengeable
        /\ t.drawnCard = s.drawnCard /\ t.hands = s.hands
    BY <1>1, <1>9 DEF State
  <2>3. ChoiceOwes(t)
    BY <1>2, <2>1, <2>2 DEF ChoiceOwes
  <2> QED
    BY <2>2, <2>3, CalmDebts
<1>10. CASE t = s
  BY <1>3, <1>4, <1>10
<1> QED
  BY <1>5, <1>6, <1>7, <1>8, <1>9, <1>10 DEF Opening

LEMMA StartGameLawful ==
  ASSUME NEW dealer \in Players, Sound(state), Debts(state), StartGame(dealer)
  PROVE  Lawful
<1>1. PICK deal \in Deals(state) :
        \E c \in {x \in state.drawPile \ (UNION Range(deal)) : CanOpen(state, x)} :
          state' \in Opening(Opened(state, deal, c, dealer), dealer)
  BY DEF StartGame
<1>2. PICK c \in state.drawPile \ (UNION Range(deal)) :
        state' \in Opening(Opened(state, deal, c, dealer), dealer)
  BY <1>1
<1> DEFINE s == Opened(state, deal, c, dealer)
<1>3. /\ InPlay(s) /\ Seated(s) = Seated(state) /\ s.pendingBluff = None
      /\ s.current \in Seated(state)
  BY OpenedInPlay DEF StartGame
<1>4. /\ state \in State /\ state.phase = "Lobby" /\ state.pendingBluff = None
      /\ state.drawCounter = 0 /\ state.drawnCard = None /\ ~state.challengeable
      /\ \A q \in Players : state.hands[q] = {}
  BY DEF StartGame, Sound, Held, BareTable, Debts, Owing
<1>5. /\ s.challengeable = state.challengeable /\ s.drawnCard = state.drawnCard
      /\ s.drawCounter = state.drawCounter
  BY <1>4 DEF Opened, State
<1> HIDE DEF s
<1>6. dealer \in Seated(s)
  BY <1>3 DEF StartGame
<1>7. state' \in Opening(s, dealer)
  BY <1>2 DEF s
<1>8. Debts(state')
  BY <1>3, <1>4, <1>5, <1>6, <1>7, OpeningDebts
<1>9. Sound(state')
  BY StartGameSound
<1>10. Grows(state, state')
  BY <1>4, <1>9, Counters DEF Grows
<1>11. LosesByRule /\ PaidOnce
  BY <1>4, <1>9, <1>10, Counters, GrowsByRule
<1> QED
  BY <1>8, <1>11 DEF Lawful

-----------------------------------------------------------------------------
(* The theorems *)

LEMMA InitSound == Init => EngineInv
BY NewGameSound, EngineInvIsSound DEF Init

LEMMA NextSound == EngineInv /\ [Next]_vars => EngineInv'
<1> SUFFICES ASSUME Sound(state), [Next]_vars
             PROVE  Sound(state')
  BY EngineInvIsSound DEF EngineInv, Sound, Held, TypeOK
<1>1. CASE UNCHANGED vars
  BY <1>1 DEF vars
<1>2. ASSUME NEW rules \in RuleSets, SetRules(rules) PROVE Sound(state')
  BY <1>2, SetRulesSound
<1>3. CASE CancelGame
  BY <1>3, CancelGameSound
<1>4. ASSUME NEW p \in Players, JoinLobby(p) \/ JoinLate(p) PROVE Sound(state')
  BY <1>4, JoinLobbySound, JoinLateSound
<1>5. ASSUME NEW p \in Players, LeaveGame(p) PROVE Sound(state')
  BY <1>5, LeaveGameSound
<1>6. ASSUME NEW p \in Players, StartGame(p) PROVE Sound(state')
  BY <1>6, StartGameSound
<1>7. ASSUME NEW p \in Players, KeepHand(p) PROVE Sound(state')
  BY <1>7, ChoosePlayerSound
<1>8. ASSUME NEW p \in Players, DrawPenalty(p) PROVE Sound(state')
  BY <1>8, DrawPenaltySound
<1>9. ASSUME NEW p \in Players, DrawOne(p) \/ DrawOneWeb(p) PROVE Sound(state')
  BY <1>9, DrawOneSound
<1>10. ASSUME NEW p \in Players, PassTurn(p) \/ SkipTurn(p) PROVE Sound(state')
  BY <1>10, PassTurnSound
<1>11. ASSUME NEW p \in Players, CallBluff(p) PROVE Sound(state')
  BY <1>11, CallBluffSound
<1>12. ASSUME NEW p \in Players, NEW c \in Cards, PlaySwapHands(p, c) PROVE Sound(state')
  BY <1>12, PlaySwapHandsSound
<1>13. ASSUME NEW p \in Players, NEW c \in Cards, PlayWild(p, c) PROVE Sound(state')
  BY <1>13, PlayWildSound
<1>14. ASSUME NEW p \in Players, NEW c \in Cards, PlayColored(p, c) PROVE Sound(state')
  BY <1>14, PlayColoredSound
<1>15. ASSUME NEW p \in Players, NEW q \in Players, ChoosePlayer(p, q) PROVE Sound(state')
  BY <1>15, ChoosePlayerSound
<1>16. ASSUME NEW p \in Players, NEW color \in Colors, ChooseColor(p, color) PROVE Sound(state')
  BY <1>16, ChooseColorSound
<1> QED
  BY <1>1, <1>2, <1>3, <1>4, <1>5, <1>6, <1>7, <1>8, <1>9, <1>10, <1>11, <1>12, <1>13,
     <1>14, <1>15, <1>16 DEF Next

\* Whatever is dealt, played, chosen, challenged, passed or abandoned, in any
\* order and at any table size, EngineInv holds: the turn, an open choice and a
\* caught bluffer are always tied to somebody who is seated (takeAction, play,
\* choose, join and leave of game.go).
THEOREM EngineInvariant == Spec => []EngineInv
<1>1. Init => EngineInv
  BY InitSound
<1>2. EngineInv /\ [Next]_vars => EngineInv'
  BY NextSound
<1> QED
  BY <1>1, <1>2, PTL DEF Spec

\* Every reachable state of a game has the shape State declares (state.go:50-72).
THEOREM TypeCorrect == Spec => []TypeOK
<1>1. EngineInv => TypeOK
  BY DEF EngineInv
<1> QED
  BY <1>1, EngineInvariant, PTL

\* No card is ever lost, duplicated or held by somebody who is not playing,
\* whatever the deck, the number of players and the rules (the inventory check
\* of Validate, state.go:155-190).
THEOREM CardsAreConserved == Spec => []CardsConserved
<1>1. EngineInv => CardsConserved
  BY DEF EngineInv, CardsConserved
<1> QED
  BY <1>1, EngineInvariant, PTL

LEMMA NextLawful ==
  ASSUME Sound(state), Debts(state), Next
  PROVE  Lawful
<1>1. ASSUME NEW rules \in RuleSets, SetRules(rules) PROVE Lawful
  BY <1>1, SetRulesLawful
<1>2. CASE CancelGame
  BY <1>2, CancelGameLawful
<1>3. ASSUME NEW p \in Players, JoinLobby(p) PROVE Lawful
  BY <1>3, JoinLobbyLawful
<1>4. ASSUME NEW p \in Players, JoinLate(p) PROVE Lawful
  BY <1>4, JoinLateLawful
<1>5. ASSUME NEW p \in Players, LeaveGame(p) PROVE Lawful
  BY <1>5, LeaveGameLawful
<1>6. ASSUME NEW p \in Players, StartGame(p) PROVE Lawful
  BY <1>6, StartGameLawful
<1>7. ASSUME NEW p \in Players, KeepHand(p) PROVE Lawful
  BY <1>7, ChoosePlayerLawful
<1>8. ASSUME NEW p \in Players, DrawPenalty(p) PROVE Lawful
  BY <1>8, DrawPenaltyLawful
<1>9. ASSUME NEW p \in Players, DrawOne(p) \/ DrawOneWeb(p) PROVE Lawful
  BY <1>9, DrawOneLawful
<1>10. ASSUME NEW p \in Players, PassTurn(p) \/ SkipTurn(p) PROVE Lawful
  BY <1>10, PassTurnLawful
<1>11. ASSUME NEW p \in Players, CallBluff(p) PROVE Lawful
  BY <1>11, CallBluffLawful
<1>12. ASSUME NEW p \in Players, NEW c \in Cards, PlaySwapHands(p, c) PROVE Lawful
  BY <1>12, PlaySwapHandsLawful
<1>13. ASSUME NEW p \in Players, NEW c \in Cards, PlayWild(p, c) PROVE Lawful
  BY <1>13, PlayWildLawful
<1>14. ASSUME NEW p \in Players, NEW c \in Cards, PlayColored(p, c) PROVE Lawful
  BY <1>14, PlayColoredLawful
<1>15. ASSUME NEW p \in Players, NEW q \in Players, ChoosePlayer(p, q) PROVE Lawful
  BY <1>15, ChoosePlayerLawful
<1>16. ASSUME NEW p \in Players, NEW color \in Colors, ChooseColor(p, color) PROVE Lawful
  BY <1>16, ChooseColorLawful
<1> QED
  BY <1>1, <1>2, <1>3, <1>4, <1>5, <1>6, <1>7, <1>8, <1>9, <1>10, <1>11, <1>12, <1>13,
     <1>14, <1>15, <1>16 DEF Next

LEMMA InitDebts == Init => DebtInv
<1> SUFFICES ASSUME Init PROVE DebtInv
  OBVIOUS
<1>1. Sound(state)
  BY InitSound, EngineInvIsSound
<1>2. Debts(state)
  BY NewGameDebts DEF Init
<1> QED
  BY <1>1, <1>2, DebtInvIsDebts

LEMMA NextDebts == DebtInv /\ [Next]_vars => DebtInv'
<1> SUFFICES ASSUME DebtInv, [Next]_vars PROVE DebtInv'
  OBVIOUS
<1>1. CASE UNCHANGED vars
  BY <1>1 DEF vars, DebtInv, EngineInv, TypeOK, PenaltyStands, ChallengeSound
<1>2. CASE Next
  <2>1. Sound(state) /\ Debts(state)
    BY DebtInvIsDebts
  <2>2. Debts(state')
    BY <1>2, <2>1, NextLawful DEF Lawful
  <2>3. EngineInv'
    BY NextSound DEF DebtInv
  <2>4. state'.drawCounter \in Nat /\ BlufferSeated(state)'
    BY <2>3 DEF EngineInv, TypeOK, State
  <2> QED
    BY <2>2, <2>3, <2>4
       DEF DebtInv, PenaltyStands, ChallengeSound, ChoiceOwes, DrawnOnTurn, Debts, Owing,
           BlufferSeated, Seated
<1> QED
  BY <1>1, <1>2

LEMMA StepsAreLawful == DebtInv /\ [Next]_vars => LosesByRule /\ PaidOnce
<1> SUFFICES ASSUME DebtInv, [Next]_vars PROVE LosesByRule /\ PaidOnce
  OBVIOUS
<1>1. Sound(state) /\ Debts(state)
  BY DebtInvIsDebts
<1>2. CASE Next
  BY <1>1, <1>2, NextLawful DEF Lawful
<1>3. CASE UNCHANGED vars
  BY <1>1, <1>3 DEF vars, LosesByRule, PaidOnce, Sound, Held, State
<1> QED
  BY <1>2, <1>3

\* DebtInv holds, at any table size and under any rules: what stands and what
\* an open choice will add always fit together (playWild, chooseColor,
\* completePlay and leave of game.go).
THEOREM DebtInvariant == Spec => []DebtInv
<1> QED
  BY InitDebts, NextDebts, PTL DEF Spec

\* A penalty stands only under a card that made it, and nobody facing one has
\* already drawn (playable and draw of game.go).
THEOREM PenaltiesStand == Spec => []PenaltyStands
<1>1. DebtInv => PenaltyStands
  BY DEF DebtInv
<1> QED
  BY <1>1, DebtInvariant, PTL

\* A challenge is open only over a Wild Draw Four still to be paid, between
\* two players, and a caught bluffer is there to pay (callBluff of game.go).
THEOREM ChallengesAreSound == Spec => []ChallengeSound
<1>1. DebtInv => ChallengeSound
  BY DEF DebtInv
<1> QED
  BY <1>1, DebtInvariant, PTL

\* A penalty that disappears was drawn whole, by one player (draw and
\* callBluff of game.go).
THEOREM PenaltiesPaidOnce == Spec => PenaltyPaidOnce
<1>1. DebtInv /\ [Next]_vars => [PaidOnce]_vars
  BY StepsAreLawful
<1> QED
  BY <1>1, DebtInvariant, PTL DEF Spec, PenaltyPaidOnce

\* No card leaves a hand but by play, departure or a whole swap (play,
\* chooseColor and leave of game.go).
THEOREM HandsLoseByRule == Spec => HandsLoseCardsByRule
<1>1. DebtInv /\ [Next]_vars => [LosesByRule]_vars
  BY StepsAreLawful
<1> QED
  BY <1>1, DebtInvariant, PTL DEF Spec, HandsLoseCardsByRule
=============================================================================
