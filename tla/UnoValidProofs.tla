--------------------------- MODULE UnoValidProofs ---------------------------
(***************************************************************************)
(* What EngineInv and DebtInv make possible to prove about UnoEngine: the  *)
(* inductive invariant ValidInv, hence every reached state is one that     *)
(* State.Validate accepts; coming and going keeps the turn order of the    *)
(* others; places are final; and every handler is a move of UnoRound.      *)
(***************************************************************************)
EXTENDS UnoEngineProofs

-----------------------------------------------------------------------------
(* Counting seats around the table *)

\* Counting seats around the table from seat i, for less than a whole round.
LEMMA ModWraps ==
  ASSUME NEW n \in Nat \ {0}, NEW b \in 0 .. n - 1
  PROVE  b % n = b /\ (b + n) % n = b /\ (b - n) % n = b
<1>1. b % n = b
  OBVIOUS
<1>2. (b + n) % n = b
  OBVIOUS
<1>3. (b - n) % n = b
  OBVIOUS
<1> QED
  BY <1>1, <1>2, <1>3

\* The seat k steps from seat i.
Around(n, i, k, d) ==
  IF d = 1 THEN (IF i + k <= n THEN i + k ELSE i + k - n)
  ELSE (IF k < i THEN i - k ELSE i - k + n)

LEMMA SeatAhead ==
  ASSUME NEW n \in Nat \ {0}, NEW i \in 1 .. n, NEW k \in 0 .. n - 1, NEW d \in {-1, 1}
  PROVE  /\ ((i - 1 + k * d) % n) + 1 = Around(n, i, k, d)
         /\ Around(n, i, k, d) \in 1 .. n
<1> DEFINE seat == ((i - 1 + k * d) % n) + 1
<1> SUFFICES seat = Around(n, i, k, d) /\ Around(n, i, k, d) \in 1 .. n
  OBVIOUS
<1>1. CASE d = 1 /\ i + k <= n
  <2>1. i - 1 + k * d = i + k - 1 /\ i + k - 1 \in 0 .. n - 1
    BY <1>1
  <2>2. (i + k - 1) % n = i + k - 1
    BY <2>1, ModWraps
  <2>3. seat = i + k
    BY <1>1, <2>1, <2>2
  <2> HIDE DEF seat
  <2> QED
    BY <1>1, <2>3 DEF Around
<1>2. CASE d = 1 /\ i + k > n
  <2> DEFINE b == i + k - 1 - n
  <2>1. i - 1 + k * d = b + n /\ b \in 0 .. n - 1
    BY <1>2
  <2> HIDE DEF b
  <2>2. (b + n) % n = b
    BY <2>1, ModWraps
  <2>3. seat = b + 1
    BY <2>1, <2>2
  <2> HIDE DEF seat
  <2> QED
    BY <1>2, <2>3 DEF b, Around
<1>3. CASE d = -1 /\ k < i
  <2> DEFINE b == i - k - 1
  <2>1. i - 1 + k * d = b /\ b \in 0 .. n - 1
    BY <1>3
  <2> HIDE DEF b
  <2>2. b % n = b
    BY <2>1, ModWraps
  <2>3. seat = b + 1
    BY <2>1, <2>2
  <2> HIDE DEF seat
  <2> QED
    BY <1>3, <2>3 DEF b, Around
<1>4. CASE d = -1 /\ k >= i
  <2> DEFINE b == i - 1 - k + n
  <2>1. i - 1 + k * d = b - n /\ b \in 0 .. n - 1
    BY <1>4
  <2> HIDE DEF b
  <2>2. (b - n) % n = b
    BY <2>1, ModWraps
  <2>3. seat = b + 1
    BY <2>1, <2>2
  <2> HIDE DEF seat
  <2> QED
    BY <1>4, <2>3 DEF b, Around
<1> QED
  BY <1>1, <1>2, <1>3, <1>4

\* Nobody has a second seat.
LEMMA SeatIs ==
  ASSUME NEW S, NEW order \in Seq(S), IsInjective(order), NEW i \in 1 .. Len(order)
  PROVE  SeatOf(order, order[i]) = i /\ order[i] \in Range(order)
<1>1. DOMAIN order = 1 .. Len(order)
  BY LenProperties
<1>2. order[i] \in Range(order)
  BY <1>1 DEF Range
<1>3. SeatOf(order, order[i]) \in 1 .. Len(order) /\ order[SeatOf(order, order[i])] = order[i]
  BY <1>2, SeatOfSeated
<1> QED
  BY <1>1, <1>2, <1>3 DEF IsInjective

LEMMA NextSeatAround ==
  ASSUME NEW s \in State, NEW p \in Seated(s), NEW n \in Nat, n = Len(s.order), NEW k \in 0 .. n - 1
  PROVE  /\ SeatOf(s.order, p) \in 1 .. n
         /\ Around(n, SeatOf(s.order, p), k, s.direction) \in 1 .. n
         /\ NextSeat(s, p, k) = s.order[Around(n, SeatOf(s.order, p), k, s.direction)]
<1> DEFINE i == SeatOf(s.order, p)
           d == s.direction
<1>1. i \in 1 .. n /\ d \in {-1, 1}
  BY SeatOfSeated DEF Seated, State
<1>2. NextSeat(s, p, k) = s.order[((i - 1 + k * d) % n) + 1]
  BY DEF NextSeat
<1> HIDE DEF i, d
<1>3. ((i - 1 + k * d) % n) + 1 = Around(n, i, k, d) /\ Around(n, i, k, d) \in 1 .. n
  <2>1. n \in Nat \ {0}
    BY <1>1
  <2> QED
    BY <1>1, <2>1, SeatAhead
<1> QED
  BY <1>1, <1>2, <1>3 DEF i, d

\* A newcomer seated behind the one whose turn it is plays last of all.
LEMMA LateSeat ==
  ASSUME NEW s \in State, NEW t \in State, IsInjective(s.order), IsInjective(t.order),
         NEW cur \in Seated(s), NEW p \in Players, p \notin Seated(s),
         t.direction = s.direction,
         t.order = SX!InsertAt(s.order, SeatOf(s.order, cur)
                                          + (IF s.direction = -1 THEN 1 ELSE 0), p)
  PROVE  /\ \A k \in 0 .. Len(s.order) - 1 : NextSeat(t, cur, k) = NextSeat(s, cur, k)
         /\ NextSeat(t, cur, Len(s.order)) = p
         /\ Len(t.order) = Len(s.order) + 1 /\ cur \in Seated(t)
<1>1. s.order \in Seq(Players) /\ t.order \in Seq(Players) /\ s.direction \in {-1, 1}
  BY DEF State
<1> DEFINE i == SeatOf(s.order, cur)
           d == s.direction
           seat == i + (IF d = -1 THEN 1 ELSE 0)
           j == SeatOf(t.order, cur)
<1>2. PICK n \in Nat : n = Len(s.order)
  BY <1>1, LenProperties
<1>3. i \in 1 .. n /\ s.order[i] = cur
  BY <1>1, <1>2, SeatOfSeated DEF Seated
<1>4. seat \in 1 .. n + 1
  BY <1>1, <1>3
<1>5. t.order = SX!InsertAt(s.order, seat, p)
  OBVIOUS
<1> HIDE DEF i, seat
<1>6. /\ Len(t.order) = n + 1
      /\ \A k \in 1 .. n + 1 :
           t.order[k] = IF k < seat THEN s.order[k] ELSE IF k = seat THEN p ELSE s.order[k - 1]
  <2>1. seat \in 1 .. Len(s.order) + 1
    BY <1>2, <1>4
  <2>2. Inserted(t.order, s.order, seat, p)
    BY <1>1, <1>5, <2>1, InsertedAt
  <2> QED
    BY <1>2, <2>2 DEF Inserted
<1>60. \A k \in 1 .. n + 1 : k > seat => t.order[k] = s.order[k - 1]
  BY <1>4, <1>6
<1> DEFINE at == IF d = 1 THEN i + 1 ELSE i
<1>7. at \in 1 .. n + 1 /\ t.order[at] = cur
  <2>1. CASE d = 1
    <3>1. seat = i /\ at = i + 1 /\ i + 1 \in 1 .. n + 1
      BY <1>3, <2>1 DEF seat
    <3> QED
      BY <1>3, <1>6, <3>1
  <2>2. CASE d = -1
    <3>1. seat = i + 1 /\ at = i /\ i \in 1 .. n + 1
      BY <1>3, <2>2 DEF seat
    <3> QED
      BY <1>3, <1>6, <3>1
  <2> QED
    BY <1>1, <2>1, <2>2
<1>8. j = at /\ cur \in Seated(t)
  <2>1. at \in 1 .. Len(t.order)
    BY <1>6, <1>7
  <2> HIDE DEF at
  <2>2. SeatOf(t.order, t.order[at]) = at /\ t.order[at] \in Range(t.order)
    BY <1>1, <2>1, SeatIs
  <2> QED
    BY <1>7, <2>2 DEF Seated
<1> HIDE DEF j
<1>9. ASSUME NEW k \in 0 .. n
      PROVE  /\ Around(n + 1, at, k, d) \in 1 .. n + 1
             /\ NextSeat(t, cur, k) = t.order[Around(n + 1, at, k, d)]
  <2>1. PICK m \in Nat : m = n + 1 /\ m = Len(t.order)
    BY <1>6
  <2>2. k \in 0 .. m - 1
    BY <2>1
  <2>3. /\ Around(m, j, k, d) \in 1 .. m
        /\ NextSeat(t, cur, k) = t.order[Around(m, j, k, d)]
    BY <1>8, <2>1, <2>2, NextSeatAround DEF j
  <2> QED
    BY <1>8, <2>1, <2>3
<1>10. ASSUME NEW k \in 0 .. n - 1
       PROVE  NextSeat(t, cur, k) = NextSeat(s, cur, k)
  <2>1. k \in 0 .. n
    BY <1>2
  <2>2. NextSeat(s, cur, k) = s.order[Around(n, i, k, d)] /\ Around(n, i, k, d) \in 1 .. n
    BY <1>2, NextSeatAround DEF i
  <2>3. t.order[Around(n + 1, at, k, d)] = s.order[Around(n, i, k, d)]
    <3>1. CASE d = 1
      <4>1. seat = i /\ at = i + 1
        BY <1>3, <3>1 DEF seat
      <4>2. CASE i + k <= n
        <5>1. Around(n + 1, at, k, d) = i + k + 1 /\ Around(n, i, k, d) = i + k
              /\ i + k + 1 \in 1 .. n + 1 /\ i + k + 1 > seat /\ i + k + 1 - 1 = i + k
          BY <1>3, <3>1, <4>1, <4>2 DEF Around
        <5>2. PICK m \in 1 .. n + 1 : m = i + k + 1 /\ m > seat /\ m - 1 = i + k
          BY <1>3, <5>1
        <5>3. t.order[m] = s.order[m - 1]
          BY <1>60, <5>2
        <5> QED
          BY <5>1, <5>2, <5>3
      <4>3. CASE i + k > n
        <5>1. Around(n + 1, at, k, d) = i + k - n /\ Around(n, i, k, d) = i + k - n
              /\ i + k - n \in 1 .. n + 1 /\ i + k - n < seat
          BY <1>3, <3>1, <4>1, <4>3 DEF Around
        <5> QED
          BY <1>6, <5>1
      <4> QED
        BY <1>3, <4>2, <4>3
    <3>2. CASE d = -1
      <4>1. seat = i + 1 /\ at = i
        BY <1>3, <3>2 DEF seat
      <4>2. CASE k < i
        <5>1. Around(n + 1, at, k, d) = i - k /\ Around(n, i, k, d) = i - k
              /\ i - k \in 1 .. n + 1 /\ i - k < seat
          BY <1>3, <3>2, <4>1, <4>2 DEF Around
        <5> QED
          BY <1>6, <5>1
      <4>3. CASE k >= i
        <5>1. Around(n + 1, at, k, d) = i - k + n + 1 /\ Around(n, i, k, d) = i - k + n
              /\ i - k + n + 1 \in 1 .. n + 1 /\ i - k + n + 1 > seat
              /\ i - k + n + 1 - 1 = i - k + n
          BY <1>3, <3>2, <4>1, <4>3 DEF Around
        <5>2. PICK m \in 1 .. n + 1 : m = i - k + n + 1 /\ m > seat /\ m - 1 = i - k + n
          BY <1>3, <5>1
        <5>3. t.order[m] = s.order[m - 1]
          BY <1>60, <5>2
        <5> QED
          BY <5>1, <5>2, <5>3
      <4> QED
        BY <1>3, <4>2, <4>3
    <3> QED
      BY <1>1, <3>1, <3>2
  <2>4. NextSeat(t, cur, k) = t.order[Around(n + 1, at, k, d)]
    BY <1>9, <2>1
  <2> QED
    BY <2>2, <2>3, <2>4
<1>11. NextSeat(t, cur, n) = p
  <2>1. n \in 0 .. n
    BY <1>2
  <2>2. NextSeat(t, cur, n) = t.order[Around(n + 1, at, n, d)]
    BY <1>9, <2>1
  <2>3. Around(n + 1, at, n, d) = seat
    BY <1>1, <1>3 DEF Around, seat
  <2>4. t.order[seat] = p
    BY <1>4, <1>6
  <2> QED
    BY <2>2, <2>3, <2>4
<1>12. \A k \in 0 .. Len(s.order) - 1 : NextSeat(t, cur, k) = NextSeat(s, cur, k)
  BY <1>2, <1>10
<1> QED
  BY <1>2, <1>6, <1>8, <1>11, <1>12

\* Counting seats once seat j is gone: the same as before, seat j left out.
\* `first` is the seat counting starts from, in the old numbers, m the steps
\* from there to seat j.
Behind(j, x) == IF x < j THEN x ELSE x + 1
Ahead(j, x) == IF x < j THEN x ELSE x - 1
StepsTo(n, i, j, d) ==
  IF d = 1 THEN (IF j >= i THEN j - i ELSE j - i + n)
  ELSE (IF i >= j THEN i - j ELSE i - j + n)

Reaches(n, i, j, d, m) == Around(n, i, m, d) = j

LEMMA StepsToSeat ==
  ASSUME NEW n \in Nat, NEW i \in 1 .. n, NEW j \in 1 .. n, NEW d \in {-1, 1},
         NEW m, m = StepsTo(n, i, j, d), i # j
  PROVE  m \in 1 .. n - 1 /\ Reaches(n, i, j, d, m)
<1>1. CASE d = 1
  BY <1>1 DEF StepsTo, Around, Reaches
<1>2. CASE d = -1
  BY <1>2 DEF StepsTo, Around, Reaches
<1> QED
  BY <1>1, <1>2

\* From seat i before and seat a after, k steps now are l steps then.
Matches(n, i, j, a, d, k, l) == Behind(j, Around(n - 1, a, k, d)) = Around(n, i, l, d)

LEMMA GapCounted ==
  ASSUME NEW n \in Nat, n >= 2, NEW i \in 1 .. n, NEW j \in 1 .. n, i # j,
         NEW d \in {-1, 1}, NEW k \in 0 .. n - 2, NEW a, a = Ahead(j, i),
         NEW m, m = StepsTo(n, i, j, d), NEW l, l = IF k < m THEN k ELSE k + 1
  PROVE  Matches(n, i, j, a, d, k, l)
<1>1. CASE d = 1 /\ i < j
  BY <1>1 DEF Matches, Ahead, Behind, Around, StepsTo
<1>2. CASE d = 1 /\ i > j
  BY <1>2 DEF Matches, Ahead, Behind, Around, StepsTo
<1>3. CASE d = -1 /\ i < j
  BY <1>3 DEF Matches, Ahead, Behind, Around, StepsTo
<1>4. CASE d = -1 /\ i > j
  BY <1>4 DEF Matches, Ahead, Behind, Around, StepsTo
<1> QED
  BY <1>1, <1>2, <1>3, <1>4

\* The same when it is seat j that was on turn and the next one takes over.
LEMMA GapPassed ==
  ASSUME NEW n \in Nat, n >= 2, NEW j \in 1 .. n, NEW d \in {-1, 1}, NEW k \in 0 .. n - 2,
         NEW i, i = Around(n, j, 1, d), NEW a, a = Ahead(j, i), NEW l, l = k + 1
  PROVE  /\ i \in 1 .. n /\ i # j /\ a \in 1 .. n - 1
         /\ Matches(n, j, j, a, d, k, l)
<1>1. CASE d = 1
  BY <1>1 DEF Matches, Ahead, Behind, Around
<1>2. CASE d = -1
  BY <1>2 DEF Matches, Ahead, Behind, Around
<1> QED
  BY <1>1, <1>2

\* p's seat is gone: from another seat the others come in the same order.
LEMMA GapClosed ==
  ASSUME NEW s \in State, NEW t \in State, IsInjective(s.order), IsInjective(t.order),
         NEW p \in Seated(s), NEW n \in Nat, n = Len(s.order), n >= 2,
         t.direction = s.direction, t.order = Without(s.order, p),
         NEW cur \in Seated(s), cur # p
  PROVE  /\ Len(t.order) = n - 1
         /\ \E m \in 1 .. n - 1 :
              /\ NextSeat(s, cur, m) = p
              /\ \A k \in 0 .. n - 2 :
                   NextSeat(t, cur, k) = NextSeat(s, cur, IF k < m THEN k ELSE k + 1)
<1> DEFINE i == SeatOf(s.order, cur)
           j == SeatOf(s.order, p)
           d == s.direction
           m == StepsTo(n, i, j, d)
           a == Ahead(j, i)
<1>1. s.order \in Seq(Players) /\ t.order \in Seq(Players) /\ d \in {-1, 1}
  BY DEF State
<1>2. /\ i \in 1 .. n /\ s.order[i] = cur /\ j \in 1 .. n /\ s.order[j] = p
  BY <1>1, SeatOfSeated DEF Seated
<1>3. i # j
  BY <1>2
<1>4. Len(t.order) = n - 1 /\ \A x \in 1 .. n - 1 : t.order[x] = s.order[Behind(j, x)]
  BY <1>1, RemovedAt DEF Behind, Seated
<1> HIDE DEF i, j, d
<1>5. m \in 1 .. n - 1 /\ Around(n, i, m, d) = j
  <2>1. m = StepsTo(n, i, j, d)
    OBVIOUS
  <2> HIDE DEF m
  <2>2. m \in 1 .. n - 1
    BY <1>1, <1>2, <1>3, <2>1, StepsToSeat
  <2>3. Reaches(n, i, j, d, m)
    BY <1>1, <1>2, <1>3, <2>1, StepsToSeat
  <2> QED
    BY <2>2, <2>3 DEF Reaches
<1>6. a \in 1 .. n - 1 /\ Behind(j, a) = i
  BY <1>2, <1>3 DEF Ahead, Behind
<1> HIDE DEF m, a
<1>7. SeatOf(t.order, cur) = a /\ cur \in Seated(t)
  <2>1. t.order[a] = cur
    BY <1>2, <1>4, <1>6
  <2>2. a \in 1 .. Len(t.order)
    BY <1>4, <1>6
  <2> QED
    BY <1>1, <2>1, <2>2, SeatIs DEF Seated
<1>8. NextSeat(s, cur, m) = p
  <2>1. m \in 0 .. n - 1
    BY <1>5
  <2> QED
    BY <1>2, <1>5, <2>1, NextSeatAround DEF i, d
<1>9. ASSUME NEW k \in 0 .. n - 2
      PROVE  NextSeat(t, cur, k) = NextSeat(s, cur, IF k < m THEN k ELSE k + 1)
  <2> DEFINE l == IF k < m THEN k ELSE k + 1
             x == Around(n - 1, a, k, d)
  <2>1. l \in 0 .. n - 1
    BY <1>5
  <2>2. Behind(j, x) = Around(n, i, l, d)
    <3>1. a = Ahead(j, i) /\ m = StepsTo(n, i, j, d)
      BY DEF a, m
    <3>2. Matches(n, i, j, a, d, k, l)
      BY <1>1, <1>2, <1>3, <3>1, GapCounted
    <3> QED
      BY <3>2 DEF Matches
  <2> HIDE DEF l, x
  <2>3. NextSeat(s, cur, l) = s.order[Around(n, i, l, d)]
    BY <2>1, NextSeatAround DEF i, d
  <2>4. x \in 1 .. n - 1 /\ NextSeat(t, cur, k) = t.order[x]
    <3>1. PICK q \in Nat : q = n - 1 /\ q = Len(t.order)
      BY <1>4
    <3>2. k \in 0 .. q - 1
      BY <3>1
    <3>3. Around(q, a, k, d) \in 1 .. q /\ NextSeat(t, cur, k) = t.order[Around(q, a, k, d)]
      BY <1>7, <3>1, <3>2, NextSeatAround DEF d
    <3> QED
      BY <3>1, <3>3 DEF x
  <2>5. NextSeat(t, cur, k) = NextSeat(s, cur, l)
    BY <1>4, <2>2, <2>3, <2>4
  <2> QED
    BY <2>5 DEF l
<1>10. m \in 1 .. n - 1
  BY <1>5
<1> QED
  BY <1>4, <1>8, <1>9, <1>10

\* p's seat is gone and it was p's turn: the next one plays, the others follow.
LEMMA GapHanded ==
  ASSUME NEW s \in State, NEW t \in State, IsInjective(s.order), IsInjective(t.order),
         NEW p \in Seated(s), NEW n \in Nat, n = Len(s.order), n >= 2,
         t.direction = s.direction, t.order = Without(s.order, p)
  PROVE  /\ Len(t.order) = n - 1
         /\ \A k \in 0 .. n - 2 : NextSeat(t, NextSeat(s, p, 1), k) = NextSeat(s, p, k + 1)
<1> DEFINE j == SeatOf(s.order, p)
           d == s.direction
           i == Around(n, j, 1, d)
           a == Ahead(j, i)
           cur == NextSeat(s, p, 1)
<1>1. s.order \in Seq(Players) /\ t.order \in Seq(Players) /\ d \in {-1, 1}
  BY DEF State
<1>2. /\ j \in 1 .. n /\ s.order[j] = p
  BY <1>1, SeatOfSeated DEF Seated
<1>3. cur = s.order[i]
  <2>1. PICK one \in 0 .. n - 1 : one = 1
    OBVIOUS
  <2>2. NextSeat(s, p, one) = s.order[Around(n, j, one, d)]
    BY <2>1, NextSeatAround
  <2> QED
    BY <2>1, <2>2
<1>4. Len(t.order) = n - 1 /\ \A x \in 1 .. n - 1 : t.order[x] = s.order[Behind(j, x)]
  BY <1>1, RemovedAt DEF Behind, Seated
<1> HIDE DEF j, d, cur
<1>5. i \in 1 .. n /\ i # j /\ a \in 1 .. n - 1
  <2>1. 0 \in 0 .. n - 2
    OBVIOUS
  <2> QED
    BY <1>1, <1>2, <2>1, GapPassed
<1>6. Behind(j, a) = i
  BY <1>2, <1>5 DEF Ahead, Behind
<1>7. ASSUME NEW k \in 0 .. n - 2
      PROVE  Behind(j, Around(n - 1, a, k, d)) = Around(n, j, k + 1, d)
  <2> DEFINE l == k + 1
  <2>1. Matches(n, j, j, a, d, k, l)
    BY <1>1, <1>2, GapPassed
  <2> QED
    BY <2>1 DEF Matches
<1> HIDE DEF i, a
<1>8. SeatOf(t.order, cur) = a /\ cur \in Seated(t)
  <2>1. t.order[a] = cur
    BY <1>3, <1>4, <1>5, <1>6
  <2>2. a \in 1 .. Len(t.order)
    BY <1>4, <1>5
  <2> QED
    BY <1>1, <2>1, <2>2, SeatIs DEF Seated
<1>9. ASSUME NEW k \in 0 .. n - 2
      PROVE  NextSeat(t, cur, k) = NextSeat(s, p, k + 1)
  <2> DEFINE x == Around(n - 1, a, k, d)
             l == k + 1
  <2>1. l \in 0 .. n - 1
    OBVIOUS
  <2>2. Behind(j, x) = Around(n, j, l, d)
    BY <1>7
  <2> HIDE DEF x, l
  <2>3. NextSeat(s, p, l) = s.order[Around(n, j, l, d)]
    BY <2>1, NextSeatAround DEF j, d
  <2>4. x \in 1 .. n - 1 /\ NextSeat(t, cur, k) = t.order[x]
    <3>1. PICK q \in Nat : q = n - 1 /\ q = Len(t.order)
      BY <1>4
    <3>2. k \in 0 .. q - 1
      BY <3>1
    <3>3. Around(q, a, k, d) \in 1 .. q /\ NextSeat(t, cur, k) = t.order[Around(q, a, k, d)]
      BY <1>8, <3>1, <3>2, NextSeatAround DEF d
    <3> QED
      BY <3>1, <3>3 DEF x
  <2>5. NextSeat(t, cur, k) = NextSeat(s, p, l)
    BY <1>4, <2>2, <2>3, <2>4
  <2> QED
    BY <2>5 DEF l
<1> QED
  BY <1>4, <1>9 DEF cur

-----------------------------------------------------------------------------
(* Validate: what a game that is not over has in order *)

\* Only who went out has a place, and one place each.
Placed(s) ==
  /\ \A i, j \in DOMAIN s.placements :
       s.placements[i].player = s.placements[j].player => i = j
  /\ \A i \in DOMAIN s.placements :
       s.placements[i].wentOut /\ s.status[s.placements[i].player] = "WentOut"
  /\ \A p \in Players : s.status[p] = "WentOut" => HasPlacement(s, p)

Ongoing(s) ==
  /\ Cardinality(Participants(s)) <= MaxPlayers
  /\ Stocked(s)
  /\ Placed(s)
  /\ s.finishReason = None

Going(s) == Ongoing(s) /\ s.top # None /\ s.dealer \in Participants(s)

\* The colour in force is that of the top card, or the one chosen for it.
Lit(s) ==
  /\ s.activeColor \in Colors
  /\ RankOf[s.top] < Wild => s.activeColor = ColorOf[s.top]

\* Everybody seated but a has cards.
Armed(s, a) == \A q \in Seated(s) \ {a} : s.hands[q] # {}

Valid(s) == Validate(s) /\ Stocked(s) /\ OpenerHolds(s)

LEMMA ValidInvIsValid == ValidInv <=> Sound(state) /\ Debts(state) /\ Valid(state)
BY DebtInvIsDebts DEF ValidInv, StateValid, Valid

\* A placement record that names nobody left over is that of a game under way.
LEMMA PlacedRecord ==
  ASSUME NEW s
  PROVE  /\ Placed(s) => PlacementRecord(s)
         /\ PlacementRecord(s) /\ s.phase # "Finished" => Placed(s)
BY DEF Placed, PlacementRecord

\* The deck in force has cards, and the swap card only when the rules use it.
LEMMA StockedDeck ==
  ASSUME NEW s \in State, Stocked(s)
  PROVE  /\ s.inventory # {}
         /\ \A c \in s.inventory : RankOf[c] = SwapHands => s.rules.AllowSwapHands
<1>1. s.rules \in RuleSets /\ DeckForRules(s.rules) # {} /\ DeckForRules(s.rules) \subseteq Cards
  BY DeckOK DEF DeckAssumption, State, DeckForRules
<1>2. s.inventory = DeckForRules(s.rules)
  BY <1>1 DEF Stocked, Buildable
<1> QED
  BY <1>1, <1>2 DEF DeckForRules

\* Fields equal, same order of things.
SameRecord(s, t) ==
  /\ t.rules = s.rules /\ t.inventory = s.inventory /\ t.status = s.status
  /\ t.placements = s.placements /\ t.finishReason = s.finishReason

LEMMA SameOngoing ==
  ASSUME NEW s, Ongoing(s), NEW t, SameRecord(s, t)
  PROVE  Ongoing(t) /\ Participants(t) = Participants(s)
<1>1. Participants(t) = Participants(s)
  BY DEF SameRecord, Participants
<1>2. Placed(t)
  BY DEF SameRecord, Ongoing, Placed, HasPlacement
<1>3. Stocked(t)
  BY DEF SameRecord, Ongoing, Stocked
<1> QED
  BY <1>1, <1>2, <1>3 DEF SameRecord, Ongoing

\* What Validate says of a game in which a turn is being taken.
LEMMA ValidTurn ==
  ASSUME NEW s \in State, Valid(s), s.phase = "TakingTurn"
  PROVE  /\ Going(s) /\ Lit(s) /\ Armed(s, None)
         /\ s.drawnCard # None => s.drawnCard \in s.hands[s.current]
<1>1. Placed(s)
  BY PlacedRecord DEF Valid, Validate
<1>2. s.phase \in ActivePhases
  BY DEF ActivePhases
<1>3. ActiveState(s) /\ s.finishReason = None
  BY <1>2 DEF Valid, Validate
<1>4. TopColor(s)
  BY <1>3 DEF Valid, Validate, ActiveState
<1>5. Going(s)
  BY <1>1, <1>3 DEF Valid, Validate, ActiveState, Going, Ongoing
<1>6. Lit(s)
  BY <1>3, <1>4 DEF ActiveState, TopColor, Lit
<1>7. Armed(s, None)
  BY <1>3 DEF ActiveState, Armed
<1> QED
  BY <1>5, <1>6, <1>7 DEF Valid, Validate

LEMMA TurnValid ==
  ASSUME NEW s, InPlay(s), Going(s), Lit(s), \A q \in Seated(s) : s.hands[q] # {},
         s.current \in Seated(s), s.drawnCard # None => s.drawnCard \in s.hands[s.current]
  PROVE  Valid(s)
<1>1. s \in State /\ PileOwnership(s) /\ SeatOrder(s)
  BY DEF InPlay, Held
<1>2. s.phase = "TakingTurn" /\ s.pending = None /\ Len(s.order) >= 2
  BY DEF InPlay
<1>3. Stocked(s) /\ PlacementRecord(s) /\ s.finishReason = None
      /\ Cardinality(Participants(s)) <= MaxPlayers
  BY PlacedRecord DEF Going, Ongoing
<1>4. /\ s.inventory # {}
      /\ \A c \in s.inventory : RankOf[c] = SwapHands => s.rules.AllowSwapHands
  BY <1>1, <1>3, StockedDeck
<1>5. ActiveState(s)
  BY <1>2 DEF ActiveState, Going, Lit
<1>6. TopColor(s)
  BY DEF TopColor, Lit
<1>7. OpenerHolds(s)
  BY <1>2 DEF OpenerHolds
<1>8. Validate(s)
  BY <1>1, <1>2, <1>3, <1>4, <1>5, <1>6 DEF Validate
<1> QED
  BY <1>3, <1>7, <1>8 DEF Valid

LEMMA ChangeTurnValid ==
  ASSUME NEW s, InPlay(s), Going(s), Lit(s), \A q \in Seated(s) : s.hands[q] # {},
         NEW p \in Seated(s)
  PROVE  Valid(ChangeTurn(s, p))
<1>1. s \in State /\ Held(s) /\ p \in Players
  BY DEF InPlay, Held, SeatOrder
<1> DEFINE t == ChangeTurn(s, p)
<1>2. Held(t)
  BY <1>1, ChangeTurnHeld
<1>3. /\ SameRecord(s, t) /\ t.top = s.top /\ t.dealer = s.dealer /\ t.hands = s.hands
      /\ t.activeColor = s.activeColor /\ t.order = s.order /\ t.current = p
      /\ t.drawnCard = None /\ t.phase = s.phase /\ t.pending = s.pending
      /\ t.pendingBluff = s.pendingBluff
  BY <1>1 DEF ChangeTurn, State, SameRecord
<1> HIDE DEF t
<1>4. InPlay(t) /\ Seated(t) = Seated(s)
  BY <1>2, <1>3 DEF InPlay, BlufferSeated, Seated
<1>5. Going(t)
  BY <1>3, SameOngoing DEF Going
<1>6. Lit(t)
  BY <1>3 DEF Lit
<1>7. Valid(t)
  BY <1>3, <1>4, <1>5, <1>6, TurnValid
<1> QED
  BY <1>7 DEF t

-----------------------------------------------------------------------------
(* Validate: the end of a turn and of a game *)

\* What a card on top says of the colour in force, at any time but while a
\* colour is chosen by somebody who played a wild card.
Tinted(s) ==
  s.top # None =>
    IF RankOf[s.top] < Wild THEN s.activeColor = ColorOf[s.top]
    ELSE s.activeColor \in Colors \/ (s.activeColor = None /\ RankOf[s.top] = Wild)

LEMMA LitIsTinted == ASSUME NEW s, Lit(s) PROVE Tinted(s)
BY DEF Lit, Tinted

LEMMA FinishFields ==
  ASSUME NEW s \in State, NEW reason
  PROVE  LET t == Finish(s, reason)
         IN  /\ t.phase = "Finished" /\ t.current = None /\ t.drawnCard = None
             /\ t.pending = None /\ t.finishReason = reason /\ t.rules = s.rules
             /\ t.inventory = s.inventory /\ t.status = s.status /\ t.order = s.order
             /\ t.placements = s.placements /\ t.top = s.top /\ t.activeColor = s.activeColor
             /\ Participants(t) = Participants(s)
BY DEF Finish, Unchallenged, State, Participants

\* The record a game may end with: the finishers, and perhaps who was left.
Ending(s, reason) ==
  /\ \A i, j \in DOMAIN s.placements :
       s.placements[i].player = s.placements[j].player => i = j
  /\ \A i \in DOMAIN s.placements :
       LET p == s.placements[i].player
       IN  IF s.placements[i].wentOut THEN s.status[p] = "WentOut"
           ELSE i = Len(s.placements) /\ s.order = <<p>> /\ reason # "Cancelled"
  /\ \A p \in Players : s.status[p] = "WentOut" => HasPlacement(s, p)
  /\ reason = "Completed" =>
       /\ s.placements # <<>> /\ s.placements[1].wentOut
       /\ s.activeColor \in Colors
       /\ s.rules.EndPolicy = "Placements" => Len(s.order) = 1
  /\ reason = "Departure" => Len(s.order) <= 1

LEMMA FinishValid ==
  ASSUME NEW s, Held(s), Stocked(s), Cardinality(Participants(s)) <= MaxPlayers, Tinted(s),
         NEW reason \in FinishReasons, Ending(s, reason)
  PROVE  Valid(Finish(s, reason))
<1> DEFINE t == Finish(s, reason)
<1>1. s \in State
  BY DEF Held
<1>2. Held(t)
  BY FinishHeld
<1>3. /\ t.phase = "Finished" /\ t.current = None /\ t.drawnCard = None
      /\ t.pending = None /\ t.finishReason = reason /\ t.rules = s.rules
      /\ t.inventory = s.inventory /\ t.status = s.status /\ t.order = s.order
      /\ t.placements = s.placements /\ t.top = s.top /\ t.activeColor = s.activeColor
      /\ Participants(t) = Participants(s)
  BY <1>1, FinishFields
<1> HIDE DEF t
<1>4. Stocked(t)
  BY <1>3 DEF Stocked
<1>5. /\ t.inventory # {}
      /\ \A c \in t.inventory : RankOf[c] = SwapHands => t.rules.AllowSwapHands
  BY <1>2, <1>4, StockedDeck DEF Held
<1>6. PlacementRecord(t)
  BY <1>3 DEF Ending, PlacementRecord, HasPlacement
<1>7. reason # None
  BY NothingOK DEF NothingAssumption
<1>8. FinishedState(t)
  BY <1>3, <1>7 DEF FinishedState, Ending
<1>9. t.top # None => TopColor(t)
  BY <1>3 DEF TopColor, Tinted, Ending
<1>10. Validate(t)
  BY <1>2, <1>3, <1>5, <1>6, <1>8, <1>9 DEF Validate, Held, ActivePhases
<1>11. OpenerHolds(t)
  BY <1>3 DEF OpenerHolds
<1> QED
  BY <1>4, <1>10, <1>11 DEF Valid, t

\* A game under way may end with what is already placed.
LEMMA OngoingEnds ==
  ASSUME NEW s, Ongoing(s), NEW reason,
         reason = "Completed" =>
           /\ s.placements # <<>> /\ s.placements[1].wentOut
           /\ s.activeColor \in Colors
           /\ s.rules.EndPolicy = "Placements" => Len(s.order) = 1,
         reason = "Departure" => Len(s.order) <= 1
  PROVE  Ending(s, reason)
BY DEF Ending, Ongoing, Placed

\* Or with the only one still seated placed last.
LEMMA RecordLastEnds ==
  ASSUME NEW s, Held(s), Ongoing(s), Len(s.order) = 1,
         NEW reason \in {"Completed", "Departure"},
         reason = "Completed" =>
           s.placements # <<>> /\ s.placements[1].wentOut /\ s.activeColor \in Colors
  PROVE  LET t == RecordLast(s)
         IN  /\ Ending(t, reason) /\ Stocked(t) /\ Participants(t) = Participants(s)
             /\ t.top = s.top /\ t.activeColor = s.activeColor
<1> DEFINE t == RecordLast(s)
           last == s.order[1]
<1>1. s \in State /\ s.placements \in Seq(Placement) /\ s.order \in Seq(Players)
  BY DEF Held, State
<1>2. last \in Seated(s) /\ s.order = <<last>>
  BY <1>1 DEF Seated, Range
<1>3. last \in Players /\ s.status[last] = "Playing"
  BY <1>2 DEF Held, SeatOrder
<1>4. /\ t.placements = Append(s.placements, [player |-> last, wentOut |-> FALSE])
      /\ t.rules = s.rules /\ t.inventory = s.inventory /\ t.status = s.status
      /\ t.order = s.order /\ t.top = s.top /\ t.activeColor = s.activeColor
  BY <1>1 DEF RecordLast, State
<1> HIDE DEF t, last
<1>5. PICK n \in Nat : n = Len(s.placements) /\ DOMAIN s.placements = 1 .. n
  BY <1>1
<1>6. /\ Len(t.placements) = n + 1 /\ DOMAIN t.placements = 1 .. n + 1
      /\ t.placements[n + 1] = [player |-> last, wentOut |-> FALSE]
      /\ \A i \in 1 .. n : t.placements[i] = s.placements[i]
  BY <1>1, <1>4, <1>5
<1>7. \A i \in 1 .. n : s.placements[i].wentOut /\ s.status[s.placements[i].player] = "WentOut"
  BY <1>5 DEF Ongoing, Placed
<1>8. \A i, j \in DOMAIN t.placements :
        t.placements[i].player = t.placements[j].player => i = j
  <2>1. \A i \in 1 .. n : s.placements[i].player # last
    BY <1>3, <1>7
  <2>2. \A i, j \in 1 .. n : s.placements[i].player = s.placements[j].player => i = j
    BY <1>5 DEF Ongoing, Placed
  <2>3. \A i \in 1 .. n + 1 : i \in 1 .. n \/ i = n + 1
    OBVIOUS
  <2> QED
    BY <1>6, <2>1, <2>2, <2>3
<1>9. ASSUME NEW i \in DOMAIN t.placements
      PROVE  LET p == t.placements[i].player
             IN  IF t.placements[i].wentOut THEN t.status[p] = "WentOut"
                 ELSE i = Len(t.placements) /\ t.order = <<p>> /\ reason # "Cancelled"
  <2>1. i \in 1 .. n \/ i = n + 1
    BY <1>6
  <2>2. CASE i \in 1 .. n
    BY <1>4, <1>6, <1>7, <2>2
  <2>3. CASE i = n + 1
    BY <1>2, <1>4, <1>6, <2>3
  <2> QED
    BY <2>1, <2>2, <2>3
<1>10. \A p \in Players : t.status[p] = "WentOut" => HasPlacement(t, p)
  <2>1. \A p \in Players : s.status[p] = "WentOut" => \E i \in 1 .. n : s.placements[i].player = p
    BY <1>5 DEF Ongoing, Placed, HasPlacement
  <2> QED
    BY <1>4, <1>6, <2>1 DEF HasPlacement
<1>11. reason = "Completed" => t.placements # <<>> /\ t.placements[1].wentOut
  <2>1. t.placements # <<>>
    BY <1>6
  <2>2. reason = "Completed" => n # 0
    BY <1>1, <1>5
  <2>3. reason = "Completed" => 1 \in 1 .. n
    BY <2>2
  <2> QED
    BY <1>6, <1>7, <2>1, <2>3
<1>12. Ending(t, reason)
  <2> DEFINE seats == Len(t.order)
  <2>0. seats = 1
    BY <1>4
  <2> HIDE DEF seats
  <2>00. seats <= 1
    BY <2>0
  <2>1. /\ t.rules.EndPolicy = "Placements" => Len(t.order) = 1
        /\ Len(t.order) <= 1
    BY <2>0, <2>00 DEF seats
  <2>2. reason = "Completed" => t.activeColor \in Colors
    BY <1>4
  <2> QED
    BY <1>8, <1>9, <1>10, <1>11, <2>1, <2>2 DEF Ending
<1>13. Stocked(t) /\ Participants(t) = Participants(s)
  BY <1>4 DEF Stocked, Ongoing, Participants
<1> QED
  BY <1>4, <1>12, <1>13 DEF t

\* The places after p went out.
LEMMA GoOutGoing ==
  ASSUME NEW s, Held(s), Going(s), NEW p \in Seated(s)
  PROVE  LET t == GoOut(s, p)
         IN  /\ Going(t) /\ t.placements # <<>> /\ t.placements[1].wentOut
             /\ t.top = s.top /\ t.activeColor = s.activeColor /\ t.hands = s.hands
             /\ t.rules = s.rules /\ t.phase = s.phase /\ t.pending = s.pending
             /\ t.pendingBluff = s.pendingBluff /\ t.current = s.current
             /\ t.direction = s.direction
<1> DEFINE t == GoOut(s, p)
           out == [player |-> p, wentOut |-> TRUE]
<1>1. s \in State /\ p \in Players /\ s.status[p] = "Playing" /\ s.placements \in Seq(Placement)
  BY DEF Held, State, SeatOrder
<1>2. /\ t.placements = Append(s.placements, out)
      /\ t.rules = s.rules /\ t.inventory = s.inventory /\ t.finishReason = s.finishReason
      /\ t.top = s.top /\ t.activeColor = s.activeColor /\ t.dealer = s.dealer
      /\ t.hands = s.hands /\ t.phase = s.phase /\ t.pending = s.pending
      /\ t.pendingBluff = s.pendingBluff /\ t.current = s.current /\ t.direction = s.direction
      /\ t.status = [s.status EXCEPT ![p] = "WentOut"]
  BY <1>1 DEF GoOut, State
<1> HIDE DEF t
<1>3. \A q \in Players : t.status[q] = IF q = p THEN "WentOut" ELSE s.status[q]
  BY <1>1, <1>2 DEF State
<1>4. PICK n \in Nat : n = Len(s.placements) /\ DOMAIN s.placements = 1 .. n
  BY <1>1
<1>5. /\ DOMAIN t.placements = 1 .. n + 1 /\ t.placements[n + 1] = out
      /\ \A i \in 1 .. n : t.placements[i] = s.placements[i]
  BY <1>1, <1>2, <1>4
<1>6. \A i \in 1 .. n : /\ s.placements[i].wentOut /\ s.placements[i].player \in Players
                        /\ s.status[s.placements[i].player] = "WentOut"
  <2>1. \A i \in 1 .. n : s.placements[i] \in Placement
    BY <1>1, <1>4
  <2> QED
    BY <1>4, <2>1 DEF Going, Ongoing, Placed, Placement
<1>7. \A i \in 1 .. n : s.placements[i].player # p
  BY <1>1, <1>6
<1>8. \A i \in 1 .. n + 1 : i \in 1 .. n \/ i = n + 1
  OBVIOUS
<1>9. Placed(t)
  <2>1. \A i, j \in 1 .. n : s.placements[i].player = s.placements[j].player => i = j
    BY <1>4 DEF Going, Ongoing, Placed
  <2>2. \A i, j \in DOMAIN t.placements : t.placements[i].player = t.placements[j].player => i = j
    BY <1>5, <1>7, <1>8, <2>1
  <2>3. \A i \in DOMAIN t.placements :
          t.placements[i].wentOut /\ t.status[t.placements[i].player] = "WentOut"
    BY <1>1, <1>3, <1>5, <1>6, <1>8
  <2>4. \A q \in Players : s.status[q] = "WentOut" => \E i \in 1 .. n : s.placements[i].player = q
    BY <1>4 DEF Going, Ongoing, Placed, HasPlacement
  <2>5. n + 1 \in DOMAIN t.placements /\ \A i \in 1 .. n : i \in DOMAIN t.placements
    BY <1>5
  <2>6. \A q \in Players : t.status[q] = "WentOut" => HasPlacement(t, q)
    BY <1>3, <1>5, <2>4, <2>5 DEF HasPlacement
  <2> QED
    BY <2>2, <2>3, <2>6 DEF Placed
<1>10. Participants(t) = Participants(s)
  BY <1>1, <1>3 DEF Participants
<1>11. Going(t)
  BY <1>2, <1>9, <1>10 DEF Going, Ongoing, Stocked
<1>12. t.placements # <<>> /\ t.placements[1].wentOut
  <2>1. 1 \in DOMAIN t.placements
    BY <1>5
  <2> QED
    BY <1>9, <2>1 DEF Placed
<1> QED
  BY <1>2, <1>11, <1>12 DEF t

LEMMA CompletePlayValid ==
  ASSUME NEW s, InPlay(s), Going(s), Lit(s), NEW p \in Seated(s), Armed(s, p),
         NEW next \in Seated(s),
         s.pendingBluff # None /\ s.pendingBluff.bluffing /\ s.pendingBluff.actor = p
           => s.hands[p] # {}
  PROVE  Valid(CompletePlay(s, p, next))
<1>1. Held(s) /\ s \in State /\ SeatOrder(s) /\ Len(s.order) >= 2 /\ s.order \in Seq(Players)
  BY DEF InPlay, Held, State
<1>2. CASE s.hands[p] # {}
  <2>1. \A q \in Seated(s) : s.hands[q] # {}
    BY <1>2 DEF Armed
  <2> QED
    BY <1>2, <2>1, ChangeTurnValid DEF CompletePlay
<1>3. CASE s.hands[p] = {}
  <2> DEFINE out == GoOut(s, p)
             fallback == NextSeat(s, p, 1)
             after == IF next = p THEN fallback ELSE next
  <2>1. /\ Held(out) /\ Seated(out) = Seated(s) \ {p}
        /\ Len(out.order) = Len(s.order) - 1
    BY <1>1, <1>3, GoOutHeld
  <2>2. /\ Going(out) /\ out.placements # <<>> /\ out.placements[1].wentOut
        /\ out.top = s.top /\ out.activeColor = s.activeColor /\ out.hands = s.hands
        /\ out.rules = s.rules /\ out.phase = s.phase /\ out.pending = s.pending
        /\ out.pendingBluff = s.pendingBluff
    BY <1>1, GoOutGoing
  <2>3. fallback \in Seated(s) /\ fallback # p
    BY <1>1, NextSeatSeated, NextSeatIsOther
  <2>4. after \in Seated(out)
    BY <2>1, <2>3
  <2>5. CompletePlay(s, p, next) =
          IF s.rules.EndPolicy = "FirstWinner" \/ Len(out.order) = 1
          THEN Finish(IF s.rules.EndPolicy = "Placements" THEN RecordLast(out) ELSE out, "Completed")
          ELSE ChangeTurn(out, after)
    BY <1>3 DEF CompletePlay
  <2> HIDE DEF out, fallback, after
  <2>6. "Completed" \in FinishReasons /\ Ongoing(out) /\ Lit(out)
    BY <2>2 DEF FinishReasons, Going, Lit
  <2>7. s.rules.EndPolicy \in EndPolicies
    BY <1>1, CardsOK DEF CardsAssumption, State, Rules
  <2>8. CASE s.rules.EndPolicy = "Placements" /\ Len(out.order) = 1
    <3>1. out.activeColor \in Colors
      BY <2>6 DEF Lit
    <3> DEFINE t == RecordLast(out)
    <3>2. /\ Ending(t, "Completed") /\ Stocked(t) /\ Participants(t) = Participants(out)
          /\ t.top = out.top /\ t.activeColor = out.activeColor
      BY <2>1, <2>2, <2>6, <2>8, <3>1, RecordLastEnds
    <3>3. Held(t)
      <4>1. Len(out.order) >= 1
        BY <2>8
      <4> QED
        BY <2>1, <4>1, RecordLastHeld
    <3>4. Tinted(t) /\ Cardinality(Participants(t)) <= MaxPlayers
      <4> HIDE DEF t
      <4> QED
        BY <2>6, <3>2 DEF Tinted, Lit, Ongoing
    <3> HIDE DEF t
    <3>5. Valid(Finish(t, "Completed"))
      BY <2>6, <3>2, <3>3, <3>4, FinishValid
    <3> QED
      BY <2>5, <2>8, <3>5 DEF t
  <2>9. CASE s.rules.EndPolicy = "FirstWinner"
    <3>1. Tinted(out) /\ Stocked(out) /\ Cardinality(Participants(out)) <= MaxPlayers
      BY <2>6, LitIsTinted DEF Ongoing
    <3>2. Ending(out, "Completed")
      BY <2>2, <2>6, <2>9, OngoingEnds DEF Lit
    <3>3. Valid(Finish(out, "Completed"))
      BY <2>1, <2>6, <3>1, <3>2, FinishValid
    <3> QED
      BY <2>5, <2>9, <3>3
  <2>10. CASE s.rules.EndPolicy # "FirstWinner" /\ Len(out.order) # 1
    <3>1. Len(out.order) >= 2
      <4>1. PICK n \in Nat : n = Len(s.order) /\ n >= 2
        BY <1>1
      <4> DEFINE seats == Len(out.order)
      <4>2. seats = n - 1 /\ seats # 1
        BY <2>1, <2>10, <4>1
      <4> HIDE DEF seats
      <4>3. n >= 2
        BY <4>1
      <4>4. seats >= 2
        BY <4>2, <4>3
      <4> QED
        BY <4>4 DEF seats
    <3>2. InPlay(out)
      BY <1>3, <2>1, <2>2, <3>1 DEF InPlay, BlufferSeated
    <3>3. \A q \in Seated(out) : out.hands[q] # {}
      BY <2>1, <2>2 DEF Armed
    <3>4. Valid(ChangeTurn(out, after))
      BY <2>2, <2>4, <2>6, <3>2, <3>3, ChangeTurnValid
    <3> QED
      BY <2>5, <2>10, <3>4
  <2> QED
    BY <2>7, <2>8, <2>9, <2>10 DEF EndPolicies
<1> QED
  BY <1>2, <1>3

-----------------------------------------------------------------------------
(* Validate: drawing, passing, challenging *)

\* Same record, same card on top, and nobody has fewer cards.
SameScene(s, t) ==
  /\ SameRecord(s, t)
  /\ t.top = s.top /\ t.dealer = s.dealer /\ t.activeColor = s.activeColor
  /\ t.order = s.order
  /\ \A q \in Players : s.hands[q] \subseteq t.hands[q]

LEMMA SameSceneKept ==
  ASSUME NEW s, NEW t, SameScene(s, t), Seated(s) \subseteq Players
  PROVE  /\ Seated(t) = Seated(s)
         /\ Ongoing(s) => Ongoing(t)
         /\ Going(s) => Going(t)
         /\ Lit(s) => Lit(t)
         /\ \A a : Armed(s, a) => Armed(t, a)
         /\ (\A q \in Seated(s) : s.hands[q] # {}) => \A q \in Seated(t) : t.hands[q] # {}
<1>1. Seated(t) = Seated(s)
  BY DEF SameScene, Seated
<1>2. Ongoing(s) => Ongoing(t) /\ Participants(t) = Participants(s)
  BY SameOngoing DEF SameScene
<1>3. Going(s) => Going(t)
  BY <1>2 DEF Going, SameScene
<1>4. Lit(s) => Lit(t)
  BY DEF Lit, SameScene
<1>5. \A q \in Seated(s) : s.hands[q] # {} => t.hands[q] # {}
  BY DEF SameScene
<1>6. \A a : Armed(s, a) => Armed(t, a)
  BY <1>1, <1>5 DEF Armed
<1> QED
  BY <1>1, <1>2, <1>3, <1>4, <1>5, <1>6

LEMMA DrawToScene ==
  ASSUME NEW s, InPlay(s), NEW p \in Seated(s), NEW n \in Nat, NEW t \in DrawTo(s, p, n)
  PROVE  SameScene(s, t) /\ InPlay(t)
<1>1. Held(s)
  BY DEF InPlay
<1>2. /\ SamePlay(s, t)
      /\ \A q \in Players : s.hands[q] \subseteq t.hands[q]
  BY <1>1, DrawToHeld
<1>3. InPlay(t)
  BY DrawToInPlay
<1> QED
  BY <1>2, <1>3 DEF SamePlay, SameScene, SameRecord

LEMMA UnchallengedScene ==
  ASSUME NEW s \in State
  PROVE  SameScene(s, Unchallenged(s))
BY DEF SameScene, SameRecord, Unchallenged, State

LEMMA CounterScene ==
  ASSUME NEW s \in State, NEW n
  PROVE  SameScene(s, [s EXCEPT !.drawCounter = n])
BY DEF SameScene, SameRecord, State

\* Who is on turn and whom everybody can see holding cards.
LEMMA OnTurnValid ==
  ASSUME NEW p \in Players, Sound(state), Valid(state), OnTurn(p, "TakingTurn")
  PROVE  /\ InPlay(state) /\ state \in State /\ Seated(state) \subseteq Players
         /\ p \in Seated(state) /\ p = state.current
         /\ Going(state) /\ Lit(state)
         /\ \A q \in Seated(state) : state.hands[q] # {}
<1>1. InPlay(state) /\ state \in State /\ Seated(state) \subseteq Players
  BY TurnIsInPlay DEF OnTurn, Sound, Held, SeatOrder
<1>2. p \in Seated(state) /\ p = state.current
  BY OnTurnSeated DEF OnTurn
<1>3. Going(state) /\ Lit(state) /\ Armed(state, None)
  BY <1>1, ValidTurn DEF OnTurn
<1>4. None \notin Players
  BY EngineOK DEF EngineAssumption
<1> QED
  BY <1>1, <1>2, <1>3, <1>4 DEF Armed

LEMMA PassTurnValid ==
  ASSUME NEW p \in Players, Sound(state), Valid(state), PassTurn(p) \/ SkipTurn(p)
  PROVE  Valid(state')
<1>1. OnTurn(p, "TakingTurn") /\ state' = ChangeTurn(state, NextSeat(state, p, 1))
  BY DEF PassTurn, SkipTurn
<1>2. /\ InPlay(state) /\ state \in State /\ p \in Seated(state)
      /\ Going(state) /\ Lit(state)
      /\ \A q \in Seated(state) : state.hands[q] # {}
  BY <1>1, OnTurnValid
<1>3. NextSeat(state, p, 1) \in Seated(state)
  BY <1>2, NextSeatSeated
<1> QED
  BY <1>1, <1>2, <1>3, ChangeTurnValid

\* A penalty paid, by whoever pays it.
LEMMA PayingValid ==
  ASSUME NEW p \in Players, Sound(state), Valid(state), OnTurn(p, "TakingTurn"),
         NEW payer \in Seated(state), NEW n \in Nat, NEW t \in DrawTo(Unchallenged(state), payer, n)
  PROVE  Valid(ChangeTurn([t EXCEPT !.drawCounter = 0], NextSeat(t, p, 1)))
<1> DEFINE u == Unchallenged(state)
           v == [t EXCEPT !.drawCounter = 0]
<1>1. /\ InPlay(state) /\ state \in State /\ p \in Seated(state)
      /\ Seated(state) \subseteq Players
      /\ Going(state) /\ Lit(state)
      /\ \A q \in Seated(state) : state.hands[q] # {}
  BY OnTurnValid
<1>2. InPlay(u) /\ Seated(u) = Seated(state) /\ SameScene(state, u)
  BY <1>1, UnchallengedInPlay, UnchallengedScene
<1> HIDE DEF u
<1>3. InPlay(t) /\ SameScene(u, t) /\ t \in State
  BY <1>2, DrawToScene DEF u, InPlay, Held
<1>4. InPlay(v) /\ SameScene(t, v)
  BY <1>3, CounterInPlay, CounterScene
<1> HIDE DEF v
<1>5. /\ Going(u) /\ Lit(u) /\ Seated(u) = Seated(state)
      /\ \A q \in Seated(u) : u.hands[q] # {}
  BY <1>1, <1>2, SameSceneKept
<1>6. /\ Going(t) /\ Lit(t) /\ Seated(t) = Seated(state)
      /\ \A q \in Seated(t) : t.hands[q] # {}
  BY <1>1, <1>3, <1>5, SameSceneKept
<1>7. /\ Going(v) /\ Lit(v) /\ Seated(v) = Seated(state)
      /\ \A q \in Seated(v) : v.hands[q] # {}
  BY <1>1, <1>4, <1>6, SameSceneKept
<1>8. NextSeat(t, p, 1) \in Seated(v)
  BY <1>1, <1>3, <1>6, <1>7, NextSeatSeated
<1>9. Valid(ChangeTurn(v, NextSeat(t, p, 1)))
  BY <1>4, <1>7, <1>8, ChangeTurnValid
<1> QED
  BY <1>9 DEF v

LEMMA DrawPenaltyValid ==
  ASSUME NEW p \in Players, Sound(state), Valid(state), DrawPenalty(p)
  PROVE  Valid(state')
<1>1. OnTurn(p, "TakingTurn")
  BY DEF DrawPenalty
<1>2. p \in Seated(state) /\ state.drawCounter \in Nat
  BY <1>1, OnTurnValid DEF State
<1>3. PICK t \in DrawTo(Unchallenged(state), p, state.drawCounter) :
        state' = ChangeTurn([t EXCEPT !.drawCounter = 0], NextSeat(t, p, 1))
  BY DEF DrawPenalty
<1> QED
  BY <1>1, <1>2, <1>3, PayingValid

LEMMA CallBluffValid ==
  ASSUME NEW p \in Players, Sound(state), Valid(state), CallBluff(p)
  PROVE  Valid(state')
<1> DEFINE bluff == state.pendingBluff
           loser == IF bluff.bluffing THEN bluff.actor ELSE p
           count == state.drawCounter + (IF bluff.bluffing THEN 0 ELSE WrongCallPenalty)
<1>1. OnTurn(p, "TakingTurn") /\ state.pendingBluff # None
  BY DEF CallBluff
<1>2. p \in Seated(state) /\ state.drawCounter \in Nat
  BY <1>1, OnTurnValid DEF State
<1>3. WrongCallPenalty \in Nat
  BY EngineOK DEF EngineAssumption
<1>4. count \in Nat
  BY <1>2, <1>3
<1>5. loser \in Seated(state)
  BY <1>1, <1>2 DEF Sound, BlufferSeated
<1>6. PICK t \in DrawTo(Unchallenged(state), loser, count) :
        state' = ChangeTurn([t EXCEPT !.drawCounter = 0], NextSeat(t, p, 1))
  BY DEF CallBluff
<1> HIDE DEF loser, count
<1> QED
  BY <1>1, <1>4, <1>5, <1>6, PayingValid

\* A card drawn is in the hand it was drawn to.
LEMMA OneDrawnScene ==
  ASSUME NEW s, InPlay(s), NEW p \in Seated(s), NEW t \in OneDrawn(s, p)
  PROVE  /\ SameScene(s, t)
         /\ t.drawnCard \in t.hands[p]
<1> DEFINE u == Unchallenged(s)
<1>0. s \in State
  BY DEF InPlay, Held
<1>1. InPlay(u) /\ Seated(u) = Seated(s) /\ SameScene(s, u) /\ u.hands = s.hands
  <2>1. u.hands = s.hands
    BY <1>0 DEF Unchallenged, State
  <2> QED
    BY <1>0, <2>1, UnchallengedInPlay, UnchallengedScene
<1> HIDE DEF u
<1>2. PICK w \in DrawTo(u, p, 1) :
        t = [w EXCEPT !.drawnCard = CHOOSE c \in w.hands[p] : c \notin s.hands[p]]
  BY DEF OneDrawn, u
<1>3. SameScene(u, w) /\ InPlay(w) /\ w \in State
  BY <1>1, <1>2, DrawToScene DEF InPlay, Held
<1>4. Cardinality(w.hands[p] \ u.hands[p]) = 1
  <2>1. Held(u) /\ p \in Seated(u)
    BY <1>1 DEF InPlay
  <2>2. PICK one \in Nat : one = 1
    OBVIOUS
  <2>3. w \in DrawTo(u, p, one)
    BY <1>2, <2>2
  <2>4. Cardinality(w.hands[p] \ u.hands[p]) = one
    BY <2>1, <2>3, DrawToCounts
  <2> QED
    BY <2>2, <2>4
<1>5. \E c \in w.hands[p] : c \notin s.hands[p]
  <2>1. w.hands[p] \ u.hands[p] # {}
    BY <1>4, FS_EmptySet
  <2> QED
    BY <1>1, <2>1
<1>6. t.drawnCard \in w.hands[p] /\ t.hands = w.hands
  <2> DEFINE card == CHOOSE c \in w.hands[p] : c \notin s.hands[p]
  <2>1. card \in w.hands[p]
    BY <1>5
  <2> HIDE DEF card
  <2>2. t = [w EXCEPT !.drawnCard = card]
    BY <1>2 DEF card
  <2> QED
    BY <1>3, <2>1, <2>2 DEF State
<1>7. SameScene(w, t)
  BY <1>2, <1>3 DEF SameScene, SameRecord, State
<1>8. SameScene(s, t)
  BY <1>1, <1>3, <1>7 DEF SameScene, SameRecord
<1> QED
  BY <1>6, <1>8

LEMMA DrawOneValid ==
  ASSUME NEW p \in Players, Sound(state), Valid(state), DrawOne(p) \/ DrawOneWeb(p)
  PROVE  Valid(state')
<1>1. OnTurn(p, "TakingTurn")
  BY DEF DrawOne, DrawOneWeb
<1>2. /\ InPlay(state) /\ state \in State /\ p \in Seated(state) /\ p = state.current
      /\ Seated(state) \subseteq Players
      /\ Going(state) /\ Lit(state)
      /\ \A q \in Seated(state) : state.hands[q] # {}
  BY <1>1, OnTurnValid
<1>3. PICK t \in OneDrawn(state, p) :
        state' = t \/ state' = ChangeTurn(t, NextSeat(t, p, 1))
  BY DEF DrawOne, DrawOneWeb
<1>4. InPlay(t) /\ Seated(t) = Seated(state) /\ t.current = p /\ t \in State
  BY <1>2, <1>3, OneDrawnInPlay DEF InPlay, Held
<1>5. SameScene(state, t) /\ t.drawnCard \in t.hands[p]
  BY <1>2, <1>3, OneDrawnScene
<1>6. /\ Going(t) /\ Lit(t)
      /\ \A q \in Seated(t) : t.hands[q] # {}
  BY <1>2, <1>5, SameSceneKept
<1>7. NextSeat(t, p, 1) \in Seated(t)
  BY <1>2, <1>4, NextSeatSeated
<1>8. Valid(t)
  BY <1>2, <1>4, <1>5, <1>6, TurnValid
<1>9. Valid(ChangeTurn(t, NextSeat(t, p, 1)))
  BY <1>4, <1>6, <1>7, ChangeTurnValid
<1> QED
  BY <1>3, <1>8, <1>9

-----------------------------------------------------------------------------
(* Validate: the lobby and the seats *)

LEMMA LobbyValid ==
  ASSUME NEW s, Held(s), Ongoing(s), LobbyState(s), s.phase = "Lobby", s.pending = None,
         s.drawnCard = None
  PROVE  Valid(s)
<1>1. s \in State /\ PileOwnership(s) /\ SeatOrder(s)
  BY DEF Held
<1>2. Stocked(s) /\ PlacementRecord(s) /\ s.finishReason = None
      /\ Cardinality(Participants(s)) <= MaxPlayers
  BY PlacedRecord DEF Ongoing
<1>3. /\ s.inventory # {}
      /\ \A c \in s.inventory : RankOf[c] = SwapHands => s.rules.AllowSwapHands
  BY <1>1, <1>2, StockedDeck
<1>4. Validate(s)
  BY <1>1, <1>2, <1>3 DEF Validate, ActivePhases, LobbyState
<1> QED
  BY <1>2, <1>4 DEF Valid, OpenerHolds

\* Any game that is not over is under way in good order.
LEMMA ValidOngoing ==
  ASSUME NEW s, Valid(s), s.phase # "Finished"
  PROVE  /\ Ongoing(s) /\ Tinted(s)
         /\ s.phase = "Lobby" => LobbyState(s)
         /\ s.phase \in ActivePhases => ActiveState(s) /\ Going(s)
         /\ s.pending # None => s.phase = "ChoosingColor" /\ PendingChoice(s)
<1>1. Ongoing(s)
  BY PlacedRecord DEF Valid, Validate, Ongoing
<1>2. Tinted(s)
  <2>1. CASE s.phase = "ChoosingColor"
    <3>1. PendingChoice(s)
      BY <2>1 DEF Valid, Validate
    <3>2. RankOf[s.top] \in {Wild, WildDrawFour, SwapHands} /\ s.activeColor = s.pending.previousColor
          /\ (~s.pending.initial => s.pending.previousColor \in Colors)
          /\ (s.pending.initial => RankOf[s.top] = Wild /\ s.pending.previousColor = None)
      BY <3>1 DEF PendingChoice
    <3>3. ~(RankOf[s.top] < Wild)
      BY <3>2 DEF Wild, WildDrawFour, SwapHands
    <3> QED
      BY <3>2, <3>3 DEF Tinted
  <2>2. CASE s.phase # "ChoosingColor"
    BY <2>2 DEF Valid, Validate, TopColor, Tinted
  <2> QED
    BY <2>1, <2>2
<1>3. s.phase \in ActivePhases => ActiveState(s) /\ Going(s)
  BY <1>1 DEF Valid, Validate, ActiveState, Going
<1> QED
  BY <1>1, <1>2, <1>3 DEF Valid, Validate

LEMMA NewGameValid ==
  ASSUME NEW rules \in RuleSets, Buildable(rules)
  PROVE  Valid(NewGame(rules))
<1> DEFINE s == NewGame(rules)
<1>1. Held(s)
  BY NewGameSound DEF Sound
<1>2. /\ s.phase = "Lobby" /\ s.current = None /\ s.dealer = None /\ s.activeColor = None
      /\ s.top = None /\ s.discards = {} /\ s.placements = <<>> /\ s.drawnCard = None
      /\ s.pending = None /\ s.finishReason = None /\ s.rules = rules
      /\ s.inventory = IF CustomDeck THEN Cards ELSE DeckForRules(rules)
      /\ \A p \in Players : s.hands[p] = {} /\ s.status[p] = "None"
  BY DEF NewGame
<1> HIDE DEF s
<1>3. Participants(s) = {}
  BY <1>2 DEF Participants
<1>4. Cardinality(Participants(s)) <= MaxPlayers
  BY <1>3, FS_EmptySet, EngineOK DEF EngineAssumption
<1>5. DOMAIN s.placements = {}
  BY <1>2
<1>6. Placed(s)
  BY <1>2, <1>5 DEF Placed
<1>7. Ongoing(s) /\ LobbyState(s)
  BY <1>2, <1>4, <1>6 DEF Ongoing, Stocked, LobbyState
<1>8. Valid(s)
  BY <1>1, <1>2, <1>7, LobbyValid
<1> QED
  BY <1>8 DEF s

LEMMA SetRulesValid ==
  ASSUME NEW rules \in RuleSets, Sound(state), Debts(state), Valid(state), SetRules(rules)
  PROVE  Valid(state')
<1>1. state.phase = "Lobby" /\ Buildable(rules) /\ state \in State
  BY DEF SetRules, Sound, Held
<1>2. Ongoing(state) /\ LobbyState(state)
  BY <1>1, ValidOngoing
<1>3. state.pending = None /\ state.drawnCard = None
  BY <1>1 DEF Debts, Valid, Validate
<1>4. Held(state')
  BY SetRulesSound DEF Sound
<1>5. /\ state'.rules = rules
      /\ state'.inventory = IF CustomDeck THEN state.inventory ELSE DeckForRules(rules)
      /\ state'.status = state.status /\ state'.placements = state.placements
      /\ state'.finishReason = state.finishReason /\ state'.phase = "Lobby"
      /\ state'.current = state.current /\ state'.dealer = state.dealer
      /\ state'.activeColor = state.activeColor /\ state'.top = state.top
      /\ state'.discards = state.discards /\ state'.hands = state.hands
      /\ state'.pending = state.pending /\ state'.drawnCard = state.drawnCard
  <2>1. CASE CustomDeck /\ state' = [state EXCEPT !.rules = rules]
    BY <1>1, <2>1 DEF State
  <2>2. CASE ~CustomDeck /\ state' = [state EXCEPT !.rules = rules,
                                 !.inventory = DeckForRules(rules),
                                 !.drawPile = DeckForRules(rules)]
    BY <1>1, <2>2 DEF State
  <2> QED
    BY <2>1, <2>2 DEF SetRules
<1> DEFINE t == state'
<1>6. Participants(t) = Participants(state)
  BY <1>5 DEF Participants
<1>7. Placed(t)
  BY <1>2, <1>5 DEF Ongoing, Placed, HasPlacement
<1>8. Stocked(t)
  BY <1>1, <1>2, <1>5 DEF Ongoing, Stocked
<1>9. Ongoing(t) /\ LobbyState(t)
  BY <1>2, <1>5, <1>6, <1>7, <1>8 DEF Ongoing, LobbyState
<1>10. Held(t) /\ t.phase = "Lobby" /\ t.pending = None /\ t.drawnCard = None
  BY <1>3, <1>4, <1>5
<1> HIDE DEF t
<1>11. Valid(t)
  BY <1>9, <1>10, LobbyValid
<1> QED
  BY <1>11 DEF t

LEMMA CancelGameValid ==
  ASSUME Sound(state), Valid(state), CancelGame
  PROVE  Valid(state')
<1>1. state.phase # "Finished" /\ state' = Finish(state, "Cancelled") /\ Held(state)
  BY DEF CancelGame, Sound
<1>2. Ongoing(state) /\ Tinted(state)
  BY <1>1, ValidOngoing
<1>3. "Cancelled" \in FinishReasons /\ "Cancelled" # "Completed" /\ "Cancelled" # "Departure"
  BY DEF FinishReasons
<1> DEFINE reason == "Cancelled"
<1>4. Ending(state, reason)
  BY <1>2, <1>3, OngoingEnds
<1>5. Valid(Finish(state, reason))
  BY <1>1, <1>2, <1>3, <1>4, FinishValid DEF Ongoing
<1> QED
  BY <1>1, <1>5

\* Who takes a seat is enrolled; nobody's place changes.
LEMMA SeatTakenOngoing ==
  ASSUME NEW s \in State, Ongoing(s), NEW p \in Players, CanJoin(s, p), NEW order
  PROVE  LET t == SeatTaken(s, p, order)
         IN  /\ Ongoing(t) /\ Participants(t) = Participants(s) \cup {p}
             /\ t.top = s.top /\ t.dealer = s.dealer /\ t.activeColor = s.activeColor
             /\ t.current = s.current /\ t.drawnCard = s.drawnCard /\ t.pending = s.pending
             /\ t.phase = s.phase /\ t.direction = s.direction /\ t.drawCounter = s.drawCounter
             /\ t.pendingBluff = s.pendingBluff /\ t.rules = s.rules
             /\ t.order = order /\ t.discards = s.discards /\ t.placements = s.placements
             /\ \A q \in Players : t.status[q] = IF q = p THEN "Playing" ELSE s.status[q]
             /\ \A q \in Players : t.hands[q] = IF q = p THEN {} ELSE s.hands[q]
<1> DEFINE t == SeatTaken(s, p, order)
<1>1. /\ t.rules = s.rules /\ t.inventory = s.inventory /\ t.placements = s.placements
      /\ t.finishReason = s.finishReason /\ t.top = s.top /\ t.dealer = s.dealer
      /\ t.activeColor = s.activeColor /\ t.current = s.current /\ t.drawnCard = s.drawnCard
      /\ t.pending = s.pending /\ t.phase = s.phase /\ t.direction = s.direction
      /\ t.drawCounter = s.drawCounter /\ t.pendingBluff = s.pendingBluff /\ t.order = order
      /\ t.discards = s.discards
  BY DEF SeatTaken, State
<1>2. /\ \A q \in Players : t.status[q] = IF q = p THEN "Playing" ELSE s.status[q]
      /\ \A q \in Players : t.hands[q] = IF q = p THEN {} ELSE s.hands[q]
  BY DEF SeatTaken, State
<1> HIDE DEF t
<1>3. Participants(t) = Participants(s) \cup {p}
  BY <1>2 DEF Participants
<1>4. Cardinality(Participants(t)) <= MaxPlayers
  <2>1. IsFiniteSet(Participants(s))
    <3>1. Participants(s) \subseteq Players /\ IsFiniteSet(Players)
      BY EngineOK DEF Participants, EngineAssumption
    <3> QED
      BY <3>1, FS_Subset
  <2>2. CASE s.status[p] = "None"
    <3>1. p \notin Participants(s) /\ Cardinality(Participants(s)) < MaxPlayers
      BY <2>2 DEF Participants, CanJoin
    <3>2. Cardinality(Participants(s) \cup {p}) = Cardinality(Participants(s)) + 1
          /\ Cardinality(Participants(s)) \in Nat
      BY <2>1, <3>1, FS_AddElement, FS_CardinalityType
    <3> QED
      BY <1>3, <3>1, <3>2, EngineOK DEF EngineAssumption
  <2>3. CASE s.status[p] # "None"
    <3>1. Participants(s) \cup {p} = Participants(s)
      BY <2>3 DEF Participants
    <3> QED
      BY <1>3, <3>1 DEF Ongoing
  <2> QED
    BY <2>2, <2>3
<1>5. Placed(t)
  <2>1. \A i \in DOMAIN s.placements : s.placements[i].player # p /\ s.placements[i].player \in Players
    <3>1. \A i \in DOMAIN s.placements : s.placements[i] \in Placement
      BY DEF State
    <3> QED
      BY <3>1 DEF CanJoin, HasPlacement, Placement
  <2> QED
    BY <1>1, <1>2, <2>1 DEF Ongoing, Placed, HasPlacement
<1>6. Ongoing(t)
  BY <1>1, <1>4, <1>5 DEF Ongoing, Stocked
<1> QED
  BY <1>1, <1>2, <1>3, <1>6 DEF t

LEMMA JoinLobbyValid ==
  ASSUME NEW p \in Players, Sound(state), Debts(state), Valid(state), JoinLobby(p)
  PROVE  Valid(state')
<1>1. state.phase = "Lobby" /\ CanJoin(state, p) /\ state \in State
  BY DEF JoinLobby, Sound, Held
<1>2. Ongoing(state) /\ LobbyState(state)
  BY <1>1, ValidOngoing
<1>3. state.pending = None /\ state.drawnCard = None
  BY <1>1 DEF Debts, Valid, Validate
<1> DEFINE order == Append(state.order, p)
           t == SeatTaken(state, p, order)
<1>4. state' = t
  BY <1>1 DEF JoinLobby, SeatTaken, State
<1>5. Held(t)
  BY <1>4, JoinLobbySound DEF Sound
<1> HIDE DEF order
<1>6. /\ Ongoing(t)
      /\ t.top = state.top /\ t.dealer = state.dealer /\ t.activeColor = state.activeColor
      /\ t.current = state.current /\ t.drawnCard = state.drawnCard /\ t.pending = state.pending
      /\ t.phase = state.phase /\ t.discards = state.discards /\ t.placements = state.placements
      /\ \A q \in Players : t.hands[q] = IF q = p THEN {} ELSE state.hands[q]
  BY <1>1, <1>2, SeatTakenOngoing
<1> HIDE DEF t
<1>7. LobbyState(t)
  BY <1>2, <1>6 DEF LobbyState
<1>8. Valid(t)
  BY <1>1, <1>3, <1>5, <1>6, <1>7, LobbyValid
<1> QED
  BY <1>4, <1>8

-----------------------------------------------------------------------------
(* Validate: the seats of a running game *)

LEMMA RunningValid ==
  ASSUME NEW s, Held(s), Ongoing(s), s.phase \in ActivePhases, ActiveState(s),
         s.phase = "ChoosingPlayer" => SwapPending(s),
         s.phase = "ChoosingColor" <=> s.pending # None,
         s.pending # None => PendingChoice(s),
         s.drawnCard # None => s.phase = "TakingTurn" /\ s.drawnCard \in s.hands[s.current],
         s.phase # "ChoosingColor" => TopColor(s),
         OpenerHolds(s)
  PROVE  Valid(s)
<1>1. s \in State /\ PileOwnership(s) /\ SeatOrder(s)
  BY DEF Held
<1>2. Stocked(s) /\ PlacementRecord(s) /\ s.finishReason = None
      /\ Cardinality(Participants(s)) <= MaxPlayers
  BY PlacedRecord DEF Ongoing
<1>3. /\ s.inventory # {}
      /\ \A c \in s.inventory : RankOf[c] = SwapHands => s.rules.AllowSwapHands
  BY <1>1, <1>2, StockedDeck
<1>4. s.phase # "Lobby" /\ s.phase # "Finished"
  BY DEF ActivePhases
<1>5. Validate(s)
  BY <1>1, <1>2, <1>3, <1>4 DEF Validate
<1> QED
  BY <1>2, <1>5 DEF Valid

\* And the other way round.
LEMMA ValidRunning ==
  ASSUME NEW s, Valid(s), s.phase \in ActivePhases
  PROVE  /\ Ongoing(s) /\ Going(s) /\ ActiveState(s) /\ OpenerHolds(s)
         /\ s.phase = "ChoosingPlayer" => SwapPending(s)
         /\ s.phase = "ChoosingColor" <=> s.pending # None
         /\ s.pending # None => PendingChoice(s)
         /\ s.drawnCard # None => s.phase = "TakingTurn" /\ s.drawnCard \in s.hands[s.current]
         /\ s.phase # "ChoosingColor" => TopColor(s)
<1>1. s.phase # "Finished"
  BY DEF ActivePhases
<1>2. Ongoing(s) /\ Going(s) /\ ActiveState(s)
  BY <1>1, ValidOngoing
<1> QED
  BY <1>2 DEF Valid, Validate, ActiveState

\* The hand of a late player is dealt before anything else happens.
LEMMA JoinLateValid ==
  ASSUME NEW p \in Players, Sound(state), Debts(state), Valid(state), JoinLate(p)
  PROVE  Valid(state')
<1> DEFINE seat == SeatOf(state.order, state.current) + (IF state.direction = -1 THEN 1 ELSE 0)
           order == SX!InsertAt(state.order, seat, p)
           s == SeatTaken(state, p, order)
           t == state'
<1>1. /\ Held(state) /\ state \in State /\ state.phase \in ActivePhases
      /\ state.status[p] # "Playing" /\ p \notin Range(state.order)
      /\ state.order \in Seq(Players) /\ IsInjective(state.order)
      /\ state.current \in Range(state.order) /\ CanJoin(state, p)
      /\ Len(state.order) >= 2
  BY DEF JoinLate, CanJoin, Sound, Held, SeatOrder, Seated, State, TurnSeated
<1>2. /\ Ongoing(state) /\ Going(state) /\ ActiveState(state) /\ OpenerHolds(state)
      /\ state.phase = "ChoosingPlayer" => SwapPending(state)
      /\ state.phase = "ChoosingColor" <=> state.pending # None
      /\ state.pending # None => PendingChoice(state)
      /\ state.drawnCard # None =>
           state.phase = "TakingTurn" /\ state.drawnCard \in state.hands[state.current]
      /\ state.phase # "ChoosingColor" => TopColor(state)
  BY <1>1, ValidRunning
<1>3. seat \in 1 .. Len(state.order) + 1
  BY <1>1, SeatOfSeated, LenProperties
<1>4. /\ order \in Seq(Players) /\ IsInjective(order)
      /\ Range(order) = Range(state.order) \cup {p}
  <2> HIDE DEF seat
  <2> QED
    BY <1>1, <1>3, InsertedSeat
<1>5. t \in DrawTo(s, p, HandSize)
  BY <1>1 DEF JoinLate, State, SeatTaken
<1>6. order = SX!InsertAt(state.order, SeatOf(state.order, state.current)
                                         + (IF state.direction = -1 THEN 1 ELSE 0), p)
  OBVIOUS
<1> HIDE DEF order, seat
<1>7. Held(s) /\ Seated(s) = Seated(state) \cup {p} /\ s.hands = state.hands
  BY <1>1, <1>4, SeatTakenHeld
<1>8. /\ Ongoing(s) /\ Participants(s) = Participants(state) \cup {p}
      /\ s.top = state.top /\ s.dealer = state.dealer /\ s.activeColor = state.activeColor
      /\ s.current = state.current /\ s.drawnCard = state.drawnCard /\ s.pending = state.pending
      /\ s.phase = state.phase /\ s.direction = state.direction
      /\ s.drawCounter = state.drawCounter
      /\ s.pendingBluff = state.pendingBluff /\ s.rules = state.rules /\ s.order = order
  BY <1>1, <1>2, SeatTakenOngoing
<1> HIDE DEF s
<1>9. /\ SamePlay(s, t) /\ Held(t)
      /\ \A q \in Players : s.hands[q] \subseteq t.hands[q]
  BY <1>5, <1>7, EngineOK, DrawToHeld DEF EngineAssumption
<1>10. t.hands[p] # {}
  <2> HIDE DEF t
  <2>0. HandSize \in Nat /\ HandSize # 0 /\ p \in Seated(s) /\ Held(s)
    BY <1>7, EngineOK DEF EngineAssumption
  <2>1. Cardinality(t.hands[p] \ s.hands[p]) = HandSize
    <3>1. PICK n \in Nat : n = HandSize
      BY <2>0
    <3>2. t \in DrawTo(s, p, n)
      BY <1>5, <3>1
    <3>3. Cardinality(t.hands[p] \ s.hands[p]) = n
      BY <2>0, <3>2, DrawToCounts
    <3> QED
      BY <3>1, <3>3
  <2>2. t.hands[p] \ s.hands[p] # {}
    BY <2>0, <2>1, FS_EmptySet
  <2> QED
    BY <2>2
<1>11. /\ t.top = state.top /\ t.dealer = state.dealer /\ t.activeColor = state.activeColor
       /\ t.current = state.current /\ t.drawnCard = state.drawnCard
       /\ t.pending = state.pending /\ t.phase = state.phase /\ t.direction = state.direction
       /\ t.drawCounter = state.drawCounter /\ t.pendingBluff = state.pendingBluff
       /\ t.rules = state.rules /\ t.order = order
       /\ Seated(t) = Seated(state) \cup {p}
       /\ \A q \in Players : state.hands[q] \subseteq t.hands[q]
  BY <1>7, <1>8, <1>9 DEF SamePlay, Seated
<1>12. Ongoing(t) /\ Participants(t) = Participants(state) \cup {p}
  <2>1. SameRecord(s, t)
    BY <1>9 DEF SamePlay, SameRecord
  <2> QED
    BY <1>8, <2>1, SameOngoing
<1> HIDE DEF t
<1>13. t \in State
  BY <1>9 DEF Held
<1>14. /\ Len(t.order) >= 2
       /\ NextSeat(t, state.current, 1) = NextSeat(state, state.current, 1)
  <2>1. PICK n \in Nat : n = Len(state.order) /\ n >= 2
    BY <1>1
  <2>2. PICK one \in 0 .. Len(state.order) - 1 : one = 1
    BY <2>1
  <2>3. /\ \A k \in 0 .. Len(state.order) - 1 :
            NextSeat(t, state.current, k) = NextSeat(state, state.current, k)
        /\ Len(t.order) = Len(state.order) + 1
    <3>1. /\ state \in State /\ t \in State /\ IsInjective(state.order) /\ IsInjective(t.order)
          /\ state.current \in Seated(state) /\ p \notin Seated(state)
          /\ t.direction = state.direction
      BY <1>1, <1>4, <1>11, <1>13 DEF Seated
    <3>2. t.order = SX!InsertAt(state.order, SeatOf(state.order, state.current)
                                              + (IF state.direction = -1 THEN 1 ELSE 0), p)
      BY <1>6, <1>11
    <3> QED
      BY <3>1, <3>2, LateSeat
  <2>4. NextSeat(t, state.current, one) = NextSeat(state, state.current, one)
    BY <2>3
  <2> DEFINE seats == Len(t.order)
  <2>5. seats = n + 1
    BY <2>1, <2>3
  <2> HIDE DEF seats
  <2>6. n >= 2
    BY <2>1
  <2>7. seats >= 2
    BY <2>5, <2>6
  <2> QED
    BY <2>2, <2>4, <2>7 DEF seats
<1>15. Seated(state) \subseteq Players
  BY <1>1 DEF Held, SeatOrder
<1>16. ActiveState(t)
  <2>1. \A q \in Seated(t) : t.hands[q] = {} => q \in Seated(state) /\ state.hands[q] = {}
    BY <1>10, <1>11, <1>15
  <2> QED
    BY <1>2, <1>11, <1>12, <1>14, <2>1 DEF ActiveState
<1>17. t.pending # None => PendingChoice(t)
  BY <1>2, <1>11, <1>14 DEF PendingChoice, SwapPending
<1>18. /\ t.phase = "ChoosingPlayer" => SwapPending(t)
       /\ t.phase # "ChoosingColor" => TopColor(t)
  <2>1. t.phase # "Finished" /\ state.phase # "Finished"
    BY <1>1, <1>11 DEF ActivePhases
  <2> QED
    BY <1>2, <1>11, <2>1 DEF SwapPending, TopColor
<1>19. t.drawnCard # None => t.phase = "TakingTurn" /\ t.drawnCard \in t.hands[t.current]
  BY <1>1, <1>2, <1>11, <1>15 DEF Seated
<1>20. OpenerHolds(t)
  <2>1. t.pending # None => t.pending.actor \in Players
    BY <1>1, <1>2, <1>11, <1>15 DEF PendingChoice
  <2> QED
    BY <1>2, <1>11, <2>1 DEF OpenerHolds
<1>21. Valid(t)
  BY <1>1, <1>2, <1>9, <1>11, <1>12, <1>16, <1>17, <1>18, <1>19, <1>20, RunningValid
<1> QED
  BY <1>21 DEF t

\* A departure leaves the record as it is: who leaves stays a participant.
LEMMA VacatedOngoing ==
  ASSUME NEW s \in State, Ongoing(s), NEW p \in Players, s.status[p] = "Playing"
  PROVE  LET t == Vacated(s, p)
         IN  /\ Ongoing(t) /\ Participants(t) = Participants(s)
             /\ t.top = s.top /\ t.dealer = s.dealer /\ t.activeColor = s.activeColor
             /\ t.rules = s.rules /\ t.order = Without(s.order, p)
             /\ t.direction = s.direction /\ t.drawCounter = s.drawCounter
             /\ t.placements = s.placements
             /\ t.current = s.current /\ t.drawnCard = s.drawnCard /\ t.phase = s.phase
             /\ t.pending = s.pending /\ t.pendingBluff = s.pendingBluff
             /\ \A q \in Players : q # p => t.hands[q] = s.hands[q]
<1> DEFINE t == Vacated(s, p)
<1>1. /\ t.top = s.top /\ t.dealer = s.dealer /\ t.activeColor = s.activeColor
      /\ t.rules = s.rules /\ t.order = Without(s.order, p)
      /\ t.direction = s.direction /\ t.drawCounter = s.drawCounter
      /\ t.placements = s.placements /\ t.inventory = s.inventory
      /\ t.finishReason = s.finishReason
      /\ t.current = s.current /\ t.drawnCard = s.drawnCard /\ t.phase = s.phase
      /\ t.pending = s.pending /\ t.pendingBluff = s.pendingBluff
  BY DEF Vacated, State
<1>2. /\ \A q \in Players : t.status[q] = IF q = p THEN "Left" ELSE s.status[q]
      /\ \A q \in Players : q # p => t.hands[q] = s.hands[q]
  BY DEF Vacated, State
<1> HIDE DEF t
<1>3. Participants(t) = Participants(s)
  BY <1>2 DEF Participants
<1>4. \A i \in DOMAIN s.placements :
        s.placements[i].player # p /\ s.placements[i].player \in Players
  <2>1. \A i \in DOMAIN s.placements : s.placements[i] \in Placement
    BY DEF State
  <2> QED
    BY <2>1 DEF Ongoing, Placed, Placement
<1>5. Placed(t)
  BY <1>1, <1>2, <1>4 DEF Ongoing, Placed, HasPlacement
<1>6. Ongoing(t)
  BY <1>1, <1>3, <1>5 DEF Ongoing, Stocked
<1> QED
  BY <1>1, <1>2, <1>3, <1>6 DEF t

\* What none of the later steps of a departure touches.
SameOuter(s, t) ==
  /\ SameRecord(s, t)
  /\ t.top = s.top /\ t.dealer = s.dealer /\ t.activeColor = s.activeColor
  /\ t.hands = s.hands /\ t.order = s.order /\ t.direction = s.direction
  /\ t.drawCounter = s.drawCounter

LEMMA ReopenSwapOuter ==
  ASSUME NEW s \in State, NEW p
  PROVE  LET t == ReopenSwap(s, p)
         IN  /\ SameOuter(s, t) /\ t.current = s.current /\ t.drawnCard = s.drawnCard
             /\ t.pendingBluff = s.pendingBluff
             /\ IF s.pending # None /\ s.pending.swapHands /\ s.pending.swapTarget = p
                THEN t.pending = None /\ t.phase = "ChoosingPlayer"
                ELSE t.pending = s.pending /\ t.phase = s.phase
BY DEF ReopenSwap, State, SameOuter, SameRecord

\* A colour choice whose target is now q.
Aimed(c, d, q) ==
  /\ d.actor = c.actor /\ d.previousColor = c.previousColor /\ d.drawCount = c.drawCount
  /\ d.initial = c.initial /\ d.bluffing = c.bluffing /\ d.challengeable = c.challengeable
  /\ d.swapHands = c.swapHands /\ d.swapTarget = c.swapTarget /\ d.target = q

LEMMA RetargetOuter ==
  ASSUME NEW s \in State, NEW p,
         s.pending # None => NextSeat(s, s.pending.actor, 1) \in Players
  PROVE  LET t == Retarget(s, p)
         IN  /\ SameOuter(s, t) /\ t.current = s.current /\ t.drawnCard = s.drawnCard
             /\ t.pendingBluff = s.pendingBluff /\ t.phase = s.phase
             /\ s.pending = None => t.pending = None
             /\ s.pending # None =>
                  /\ t.pending # None
                  /\ Aimed(s.pending, t.pending, IF s.pending.target = p
                                                 THEN NextSeat(s, s.pending.actor, 1)
                                                 ELSE s.pending.target)
<1> DEFINE t == Retarget(s, p)
<1>1. CASE s.pending # None /\ s.pending.target = p
  <2> DEFINE q == NextSeat(s, s.pending.actor, 1)
             choice == [s.pending EXCEPT !.target = q]
  <2>1. s.pending \in ColorChoice
    BY <1>1 DEF State
  <2> HIDE DEF q
  <2>2. Aimed(s.pending, choice, q)
    BY <2>1 DEF ColorChoice, Aimed
  <2>3. choice # None
    <3>1. choice \in ColorChoice
      BY <1>1, <2>1 DEF ColorChoice, q
    <3> QED
      BY <3>1, NothingOK DEF NothingAssumption
  <2>4. t = [s EXCEPT !.pending = choice]
    BY <1>1, <2>1 DEF Retarget, q, State
  <2> HIDE DEF t, choice
  <2>5. /\ SameOuter(s, t) /\ t.drawnCard = s.drawnCard /\ t.current = s.current
        /\ t.pendingBluff = s.pendingBluff /\ t.phase = s.phase /\ t.pending = choice
    BY <2>4 DEF State, SameOuter, SameRecord
  <2> QED
    BY <1>1, <2>2, <2>3, <2>5 DEF t, q
<1>2. CASE ~(s.pending # None /\ s.pending.target = p)
  BY <1>2 DEF Retarget, SameOuter, SameRecord, Aimed
<1> QED
  BY <1>1, <1>2

LEMMA DropBluffOuter ==
  ASSUME NEW s \in State, NEW p
  PROVE  LET t == DropBluff(s, p)
         IN  /\ SameOuter(s, t) /\ t.current = s.current /\ t.drawnCard = s.drawnCard
             /\ t.pendingBluff \in {None, s.pendingBluff}
             /\ t.phase = s.phase /\ t.pending = s.pending
BY DEF DropBluff, Unchallenged, State, SameOuter, SameRecord

LEMMA PassSeatOuter ==
  ASSUME NEW s \in State, NEW p, NEW next
  PROVE  LET t == PassSeat(s, p, next)
         IN  /\ SameOuter(s, t) /\ t.pendingBluff = s.pendingBluff
             /\ t.phase = s.phase /\ t.pending = s.pending
             /\ t.current = IF s.current = p THEN next ELSE s.current
             /\ t.drawnCard = IF s.current = p THEN None ELSE s.drawnCard
BY DEF PassSeat, ChangeTurn, State, SameOuter, SameRecord

\* What the whole departure of p, from a table s without its seat, comes to.
Departed(s, t, p, next) ==
  /\ SameOuter(s, t) /\ t.pendingBluff \in {None, s.pendingBluff}
  /\ t.current = IF s.current = p THEN next ELSE s.current
  /\ t.drawnCard = IF s.current = p THEN None ELSE s.drawnCard
  /\ s.pending = None => t.pending = None /\ t.phase = s.phase
  /\ s.pending # None =>
       IF s.pending.swapHands /\ s.pending.swapTarget = p
       THEN t.pending = None /\ t.phase = "ChoosingPlayer"
       ELSE /\ t.pending # None /\ t.phase = s.phase
            /\ Aimed(s.pending, t.pending, IF s.pending.target = p
                                           THEN NextSeat(s, s.pending.actor, 1)
                                           ELSE s.pending.target)

LEMMA DepartedSteps ==
  ASSUME NEW s, NEW p, Gap(s, p), NEW next
  PROVE  Departed(s, PassSeat(DropBluff(Retarget(ReopenSwap(s, p), p), p), p, next), p, next)
<1> DEFINE s1 == ReopenSwap(s, p)
           s2 == Retarget(s1, p)
           s3 == DropBluff(s2, p)
           t == PassSeat(s3, p, next)
<1>1. s \in State
  BY DEF Gap, Held
<1>2. Gap(s1, p) /\ s1 \in State
  BY ReopenSwapGap DEF Gap, Held
<1>3. /\ SameOuter(s, s1) /\ s1.current = s.current /\ s1.drawnCard = s.drawnCard
      /\ s1.pendingBluff = s.pendingBluff
      /\ IF s.pending # None /\ s.pending.swapHands /\ s.pending.swapTarget = p
         THEN s1.pending = None /\ s1.phase = "ChoosingPlayer"
         ELSE s1.pending = s.pending /\ s1.phase = s.phase
  BY <1>1, ReopenSwapOuter
<1> HIDE DEF s1
<1>4. s1.pending # None => NextSeat(s1, s1.pending.actor, 1) \in Players
  <2>1. Seated(s1) \subseteq Players
    BY <1>2 DEF Gap, Held, SeatOrder
  <2> QED
    BY <1>2, <2>1, NextSeatSeated DEF Gap
<1>5. \A q : NextSeat(s1, q, 1) = NextSeat(s, q, 1)
  BY <1>3 DEF SameOuter, NextSeat, Seated
<1>6. Gap(s2, p) /\ s2 \in State /\ (s2.pending # None => s2.pending.target \in Seated(s2))
  <2>1. Gap(s2, p) /\ Seated(s2) = Seated(s1) /\ (s2.pending # None => s2.pending.target \in Seated(s1))
    BY <1>2, RetargetGap
  <2>2. s2 \in State
    BY <2>1 DEF Gap, Held
  <2> QED
    BY <2>1, <2>2
<1>7. /\ SameOuter(s1, s2) /\ s2.current = s1.current /\ s2.drawnCard = s1.drawnCard
      /\ s2.pendingBluff = s1.pendingBluff /\ s2.phase = s1.phase
      /\ s1.pending = None => s2.pending = None
      /\ s1.pending # None =>
           /\ s2.pending # None
           /\ Aimed(s1.pending, s2.pending, IF s1.pending.target = p
                                            THEN NextSeat(s1, s1.pending.actor, 1)
                                            ELSE s1.pending.target)
  BY <1>2, <1>4, RetargetOuter
<1> HIDE DEF s2
<1>8. s3 \in State
  BY <1>6, DropBluffGap DEF Gap, Held
<1>9. /\ SameOuter(s2, s3) /\ s3.current = s2.current /\ s3.drawnCard = s2.drawnCard
      /\ s3.pendingBluff \in {None, s2.pendingBluff}
      /\ s3.phase = s2.phase /\ s3.pending = s2.pending
  BY <1>6, DropBluffOuter
<1> HIDE DEF s3
<1>10. /\ SameOuter(s3, t) /\ t.pendingBluff = s3.pendingBluff
       /\ t.phase = s3.phase /\ t.pending = s3.pending
       /\ t.current = IF s3.current = p THEN next ELSE s3.current
       /\ t.drawnCard = IF s3.current = p THEN None ELSE s3.drawnCard
  BY <1>8, PassSeatOuter
<1> HIDE DEF t
<1>11. SameOuter(s, t)
  BY <1>3, <1>7, <1>9, <1>10 DEF SameOuter, SameRecord
<1>12. t.pendingBluff \in {None, s.pendingBluff} /\ t.pending = s2.pending /\ t.phase = s1.phase
       /\ t.current = (IF s.current = p THEN next ELSE s.current)
       /\ t.drawnCard = (IF s.current = p THEN None ELSE s.drawnCard)
  BY <1>3, <1>7, <1>9, <1>10
<1>13. s.pending = None => t.pending = None /\ t.phase = s.phase
  BY <1>3, <1>7, <1>12
<1>14. ASSUME s.pending # None
       PROVE  IF s.pending.swapHands /\ s.pending.swapTarget = p
              THEN t.pending = None /\ t.phase = "ChoosingPlayer"
              ELSE /\ t.pending # None /\ t.phase = s.phase
                   /\ Aimed(s.pending, t.pending, IF s.pending.target = p
                                                  THEN NextSeat(s, s.pending.actor, 1)
                                                  ELSE s.pending.target)
  <2>1. CASE s.pending.swapHands /\ s.pending.swapTarget = p
    BY <1>3, <1>7, <1>12, <1>14, <2>1
  <2>2. CASE ~(s.pending.swapHands /\ s.pending.swapTarget = p)
    <3>1. s1.pending = s.pending /\ s1.phase = s.phase
      BY <1>3, <2>2
    <3> QED
      BY <1>5, <1>7, <1>12, <1>14, <2>2, <3>1
  <2> QED
    BY <2>1, <2>2
<1>15. Departed(s, t, p, next)
  BY <1>11, <1>12, <1>13, <1>14 DEF Departed
<1> QED
  BY <1>15 DEF t, s1, s2, s3

\* The target of a colour choice is the player after its author, also when the
\* one in between has left.
LEMMA DepartedTarget ==
  ASSUME NEW s, Held(s), NEW t, Held(t), NEW p \in Seated(s), NEW n \in Nat,
         n = Len(s.order), n >= 3, t.direction = s.direction, t.order = Without(s.order, p),
         NEW a \in Seated(s), a # p, NextSeat(s, a, 1) # p
  PROVE  NextSeat(t, a, 1) = NextSeat(s, a, 1)
<1>1. /\ s \in State /\ t \in State /\ IsInjective(s.order) /\ IsInjective(t.order)
      /\ n >= 2
  BY DEF Held, SeatOrder
<1>2. PICK m \in 1 .. n - 1 :
        /\ NextSeat(s, a, m) = p
        /\ \A k \in 0 .. n - 2 :
             NextSeat(t, a, k) = NextSeat(s, a, IF k < m THEN k ELSE k + 1)
  BY <1>1, GapClosed
<1>3. m # 1
  BY <1>2
<1>4. PICK one \in 0 .. n - 2 : one = 1 /\ one < m
  BY <1>2, <1>3
<1>5. NextSeat(t, a, one) = NextSeat(s, a, one)
  BY <1>2, <1>4
<1> QED
  BY <1>4, <1>5

LEMMA DepartedValid ==
  ASSUME NEW s, Held(s), s.phase \in ActivePhases, Valid(s), NEW p \in Seated(s),
         s.pending # None => s.pending.actor # p,
         NEW t, Held(t), Len(t.order) >= 2, t.current \in Seated(t),
         Seated(t) = Seated(s) \ {p},
         Departed(Vacated(s, p), t, p, NextSeat(s, p, 1))
  PROVE  Valid(t)
<1> DEFINE v == Vacated(s, p)
<1>1. /\ s \in State /\ t \in State /\ p \in Players /\ s.status[p] = "Playing"
      /\ Seated(s) \subseteq Players
  BY DEF Held, SeatOrder
<1>2. /\ Ongoing(s) /\ Going(s) /\ ActiveState(s) /\ OpenerHolds(s)
      /\ s.phase = "ChoosingPlayer" => SwapPending(s)
      /\ s.phase = "ChoosingColor" <=> s.pending # None
      /\ s.pending # None => PendingChoice(s)
      /\ s.drawnCard # None => s.phase = "TakingTurn" /\ s.drawnCard \in s.hands[s.current]
      /\ s.phase # "ChoosingColor" => TopColor(s)
  BY ValidRunning
<1>3. /\ Ongoing(v) /\ Participants(v) = Participants(s)
      /\ v.top = s.top /\ v.dealer = s.dealer /\ v.activeColor = s.activeColor
      /\ v.rules = s.rules /\ v.order = Without(s.order, p)
      /\ v.direction = s.direction /\ v.drawCounter = s.drawCounter
      /\ v.current = s.current /\ v.drawnCard = s.drawnCard /\ v.phase = s.phase
      /\ v.pending = s.pending /\ v.pendingBluff = s.pendingBluff
      /\ \A q \in Players : q # p => v.hands[q] = s.hands[q]
  BY <1>1, <1>2, VacatedOngoing
<1>4. Held(v) /\ Seated(v) = Seated(s) \ {p} /\ Len(v.order) = Len(s.order) - 1
  BY VacatedHeld
<1> HIDE DEF v
<1>5. Departed(v, t, p, NextSeat(s, p, 1))
  BY DEF v
<1>6. /\ SameOuter(v, t) /\ SameRecord(v, t)
      /\ t.pendingBluff \in {None, s.pendingBluff}
      /\ s.current # p => t.current = s.current
      /\ t.drawnCard # None => s.current # p /\ t.drawnCard = s.drawnCard
      /\ s.pending = None => t.pending = None /\ t.phase = s.phase
      /\ s.pending # None =>
           IF s.pending.swapHands /\ s.pending.swapTarget = p
           THEN t.pending = None /\ t.phase = "ChoosingPlayer"
           ELSE /\ t.pending # None /\ t.phase = s.phase
                /\ Aimed(s.pending, t.pending, IF s.pending.target = p
                                               THEN NextSeat(v, s.pending.actor, 1)
                                               ELSE s.pending.target)
  BY <1>3, <1>5 DEF Departed, SameOuter
<1>7. /\ t.top = s.top /\ t.dealer = s.dealer /\ t.activeColor = s.activeColor
      /\ t.rules = s.rules /\ t.drawCounter = s.drawCounter /\ t.order = v.order
      /\ t.direction = s.direction
      /\ \A q \in Players : q # p => t.hands[q] = s.hands[q]
  BY <1>3, <1>6 DEF SameOuter, SameRecord
<1>8. Ongoing(t) /\ Participants(t) = Participants(s)
  BY <1>3, <1>6, SameOngoing
<1>9. ASSUME s.pending # None, s.pending.swapHands
      PROVE  SwapPending(s) /\ s.activeColor \in Colors /\ RankOf[s.top] = SwapHands
  BY <1>2, <1>9 DEF PendingChoice
<1>10. t.phase = s.phase \/ (/\ t.phase = "ChoosingPlayer" /\ t.pending = None
                             /\ s.pending # None /\ s.pending.swapHands)
  BY <1>6
<1>11. t.phase \in ActivePhases
  BY <1>10 DEF ActivePhases
<1>12. t.phase = "ChoosingColor" <=> t.pending # None
  BY <1>2, <1>6
<1>13. t.pending # None =>
         /\ s.pending # None /\ s.phase = "ChoosingColor" /\ t.phase = s.phase
         /\ ~(s.pending.swapHands /\ s.pending.swapTarget = p)
         /\ Aimed(s.pending, t.pending, IF s.pending.target = p
                                        THEN NextSeat(v, s.pending.actor, 1)
                                        ELSE s.pending.target)
  BY <1>2, <1>6
<1>14. ActiveState(t)
  <2>1. t.phase # "ChoosingColor" => t.activeColor \in Colors
    BY <1>2, <1>7, <1>9, <1>10 DEF ActiveState
  <2>2. ASSUME NEW q \in Seated(t), t.hands[q] = {}
        PROVE  t.phase = "ChoosingColor" /\ t.pending.actor = q /\ ~t.pending.swapHands
    <3>1. q \in Seated(s) /\ s.hands[q] = {}
      BY <1>1, <1>7, <2>2
    <3>2. s.phase = "ChoosingColor" /\ s.pending.actor = q /\ ~s.pending.swapHands
      BY <1>2, <3>1 DEF ActiveState
    <3>3. t.phase = s.phase
      BY <1>10, <3>2
    <3> QED
      BY <1>12, <1>13, <3>2, <3>3 DEF Aimed
  <2> QED
    BY <1>2, <1>7, <1>8, <2>1, <2>2 DEF ActiveState
<1>15. t.phase = "ChoosingPlayer" => SwapPending(t)
  BY <1>2, <1>6, <1>7, <1>9, <1>10 DEF SwapPending
<1>16. t.phase # "ChoosingColor" => TopColor(t)
  <2>1. RankOf[s.top] = SwapHands => ~(RankOf[s.top] < Wild)
    BY DEF SwapHands, Wild
  <2>2. t.phase # "Finished" /\ s.phase # "Finished"
    BY <1>11 DEF ActivePhases
  <2> QED
    BY <1>2, <1>7, <1>9, <1>10, <2>1, <2>2 DEF TopColor
<1>17. t.drawnCard # None => t.phase = "TakingTurn" /\ t.drawnCard \in t.hands[t.current]
  <2>1. t.drawnCard # None => s.pending = None /\ t.current \in Players
    BY <1>1, <1>2, <1>6
  <2> QED
    BY <1>1, <1>2, <1>6, <1>7, <2>1
<1>18. ASSUME t.pending # None
       PROVE  PendingChoice(t)
  <2> DEFINE a == s.pending.actor
  <2>1. /\ PendingChoice(s) /\ a = s.current /\ a # p /\ a \in Seated(s)
        /\ s.pending.target \in Seated(s) /\ s.pending.target = NextSeat(s, a, 1)
    BY <1>2, <1>13, <1>18 DEF PendingChoice
  <2>2. /\ t.pending.actor = a /\ t.current = a /\ a \in Seated(t)
    BY <1>6, <1>13, <1>18, <2>1 DEF Aimed
  <2>3. NextSeat(t, a, 1) = NextSeat(v, a, 1)
    BY <1>3, <1>7 DEF NextSeat, Seated
  <2>4. ASSUME s.pending.target # p
        PROVE  NextSeat(t, a, 1) = s.pending.target
    <3>1. PICK n \in Nat : n = Len(s.order) /\ n >= 3
      <4>1. PICK n \in Nat : n = Len(s.order)
        BY <1>1, LenProperties DEF State
      <4>2. PICK m \in Nat : m = Len(t.order)
        BY <1>1, LenProperties DEF State
      <4>3. m >= 2
        BY <4>2
      <4>4. m = n - 1
        BY <1>4, <1>7, <4>1, <4>2
      <4>5. n >= 3
        BY <4>3, <4>4
      <4> QED
        BY <4>1, <4>5
    <3>2. t.order = Without(s.order, p)
      BY <1>3, <1>7
    <3> HIDE DEF a
    <3>3. NextSeat(s, a, 1) # p /\ t.direction = s.direction
      BY <1>7, <2>1, <2>4
    <3>4. n = Len(s.order) /\ n >= 3
      BY <3>1
    <3>5. NextSeat(t, a, 1) = NextSeat(s, a, 1)
      BY <2>1, <3>2, <3>3, <3>4, DepartedTarget
    <3> QED
      BY <2>1, <3>5
  <2>5. t.pending.target = NextSeat(t, a, 1)
    BY <1>13, <1>18, <2>3, <2>4 DEF Aimed
  <2>6. t.pending.target \in Seated(t)
    BY <1>1, <2>2, <2>5, NextSeatSeated
  <2>7. t.pending.swapTarget # None =>
          t.pending.swapHands /\ t.pending.swapTarget \in Seated(t) \ {t.pending.actor}
    BY <1>13, <1>18, <2>1 DEF Aimed, PendingChoice
  <2>8. SwapPending(s) => SwapPending(t)
    BY <1>6, <1>7 DEF SwapPending
  <2>9. /\ t.pending.previousColor = s.pending.previousColor
        /\ t.pending.drawCount = s.pending.drawCount /\ t.pending.initial = s.pending.initial
        /\ t.pending.bluffing = s.pending.bluffing
        /\ t.pending.challengeable = s.pending.challengeable
        /\ t.pending.swapHands = s.pending.swapHands
    BY <1>13, <1>18 DEF Aimed
  <2> QED
    BY <1>7, <2>1, <2>2, <2>5, <2>6, <2>7, <2>8, <2>9 DEF PendingChoice
<1>19. OpenerHolds(t)
  <2>1. ASSUME t.pending # None, t.pending.initial
        PROVE  t.hands[t.pending.actor] # {}
    <3>1. s.pending # None /\ s.pending.initial /\ t.pending.actor = s.pending.actor
      BY <1>13, <2>1 DEF Aimed
    <3>2. t.pending.actor \in Seated(t)
      BY <1>18, <2>1 DEF PendingChoice
    <3> QED
      BY <1>1, <1>2, <1>7, <3>1, <3>2 DEF OpenerHolds
  <2> QED
    BY <2>1 DEF OpenerHolds
<1> QED
  BY <1>8, <1>11, <1>12, <1>14, <1>15, <1>16, <1>17, <1>18, <1>19, RunningValid

LEMMA LeaveGameValid ==
  ASSUME NEW p \in Players, Sound(state), Debts(state), Valid(state), LeaveGame(p)
  PROVE  Valid(state')
<1> DEFINE s == Vacated(state, p)
           next == NextSeat(state, p, 1)
<1>1. /\ p \in Seated(state) /\ Held(state) /\ state \in State
      /\ state.status[p] = "Playing" /\ state.phase # "Finished"
      /\ state.pending # None => state.pending.actor # p
  BY OnTurnSeated DEF LeaveGame, Sound, Held
<1>2. /\ Held(s) /\ Seated(s) = Seated(state) \ {p}
      /\ Len(s.order) = Len(state.order) - 1
  BY <1>1, VacatedHeld
<1>3. /\ Ongoing(state) /\ Tinted(state)
      /\ state.phase = "Lobby" => LobbyState(state)
  BY <1>1, ValidOngoing
<1>4. /\ Ongoing(s) /\ Participants(s) = Participants(state)
      /\ s.top = state.top /\ s.dealer = state.dealer /\ s.activeColor = state.activeColor
      /\ s.placements = state.placements /\ s.current = state.current
      /\ s.drawnCard = state.drawnCard /\ s.phase = state.phase /\ s.pending = state.pending
      /\ \A q \in Players : q # p => s.hands[q] = state.hands[q]
  BY <1>1, <1>3, VacatedOngoing
<1>5. Sound(state')
  BY LeaveGameSound
<1>6. CASE state.phase = "Lobby" /\ state' = s
  <2>1. state.pending = None /\ state.drawnCard = None
    BY <1>6 DEF Debts, Valid, Validate
  <2>2. s.discards = {} /\ s.hands[p] = {}
    BY <1>1, <1>3, <1>6 DEF Vacated, State, LobbyState
  <2> HIDE DEF s
  <2>3. LobbyState(s)
    BY <1>3, <1>4, <1>6, <2>2 DEF LobbyState
  <2>4. Valid(s)
    BY <1>2, <1>4, <1>6, <2>1, <2>3, LobbyValid
  <2> QED
    BY <1>6, <2>4
<1>7. CASE Len(s.order) <= 1
           /\ state' = Finish(IF Len(s.order) = 1 THEN RecordLast(s) ELSE s, "Departure")
  <2> DEFINE reason == "Departure"
  <2>1. reason \in FinishReasons /\ reason # "Completed" /\ reason \in {"Completed", "Departure"}
    BY DEF FinishReasons
  <2> HIDE DEF s
  <2>2. Tinted(s)
    BY <1>3, <1>4 DEF Tinted
  <2>3. CASE Len(s.order) = 1
    <3> DEFINE t == RecordLast(s)
    <3>1. Held(t)
      <4>1. Len(s.order) >= 1
        BY <2>3
      <4> QED
        BY <1>2, <4>1, RecordLastHeld
    <3> HIDE DEF reason
    <3>2. /\ Ending(t, reason) /\ Stocked(t) /\ Participants(t) = Participants(s)
          /\ t.top = s.top /\ t.activeColor = s.activeColor
      BY <1>2, <1>4, <2>1, <2>3, RecordLastEnds
    <3> HIDE DEF t
    <3>3. Tinted(t) /\ Cardinality(Participants(t)) <= MaxPlayers
      BY <1>4, <2>2, <3>2 DEF Tinted, Ongoing
    <3>4. Valid(Finish(t, reason))
      BY <2>1, <3>1, <3>2, <3>3, FinishValid
    <3> QED
      BY <1>7, <2>3, <3>4 DEF t, reason
  <2>4. CASE Len(s.order) # 1
    <3> HIDE DEF reason
    <3>1. Ending(s, reason)
      BY <1>4, <1>7, <2>1, OngoingEnds
    <3>2. Stocked(s) /\ Cardinality(Participants(s)) <= MaxPlayers
      BY <1>4 DEF Ongoing
    <3>3. Valid(Finish(s, reason))
      BY <1>2, <2>1, <2>2, <3>1, <3>2, FinishValid
    <3> QED
      BY <1>7, <2>4, <3>3 DEF reason
  <2> QED
    BY <2>3, <2>4
<1>8. CASE /\ state.phase # "Lobby" /\ Len(s.order) > 1
           /\ state' = PassSeat(DropBluff(Retarget(ReopenSwap(s, p), p), p), p, next)
  <2> DEFINE t == state'
  <2>1. state.phase \in ActivePhases
    BY <1>1, <1>8 DEF State, Phases, ActivePhases
  <2>2. Len(state.order) > 2
    <3>1. Len(state.order) \in Nat
      BY <1>1, LenProperties DEF State
    <3> QED
      BY <1>2, <1>8, <3>1
  <2>3. Gap(s, p)
    BY <1>1, <2>1, <2>2, VacatedGap
  <2>4. Departed(s, t, p, next)
    <3> HIDE DEF s, next
    <3> QED
      BY <1>8, <2>3, DepartedSteps
  <2>5. t.order = s.order
    <3> HIDE DEF s, next
    <3> QED
      BY <2>4 DEF Departed, SameOuter
  <2>6. Seated(t) = Seated(state) \ {p} /\ Len(t.order) >= 2
    <3>1. Len(s.order) >= 2
      BY <2>3 DEF Gap
    <3> HIDE DEF s
    <3> QED
      BY <1>2, <2>5, <3>1 DEF Seated
  <2>7. t.current \in Seated(t)
    <3>1. t.phase \in {state.phase, "ChoosingPlayer"}
      <4> HIDE DEF s, next
      <4> QED
        BY <1>4, <2>4 DEF Departed
    <3>2. t.phase \in ActivePhases
      BY <2>1, <3>1 DEF ActivePhases
    <3> QED
      BY <1>5, <3>2 DEF Sound, TurnSeated
  <2>8. Held(t)
    BY <1>5 DEF Sound
  <2> HIDE DEF t
  <2>9. Valid(t)
    BY <1>1, <2>1, <2>4, <2>6, <2>7, <2>8, DepartedValid
  <2> QED
    BY <2>9 DEF t
<1> QED
  BY <1>6, <1>7, <1>8 DEF LeaveGame

-----------------------------------------------------------------------------
(* Validate: playing a card *)

\* The table right after p put card c down, before the card takes effect.
LEMMA PlayedScene ==
  ASSUME NEW p \in Players, NEW c, Sound(state), Valid(state), OnTurn(p, "TakingTurn"),
         Playable(state, p, c)
  PROVE  LET t == Discarded(state, p, c)
         IN  /\ PutDown(p, c, t) /\ Going(t) /\ Armed(t, p) /\ t.activeColor \in Colors
             /\ t.current = p /\ t.rules = state.rules /\ c \in Cards
<1> DEFINE t == Discarded(state, p, c)
<1>1. PutDown(p, c, t)
  BY DiscardedDebts
<1>2. /\ InPlay(state) /\ state \in State /\ Seated(state) \subseteq Players
      /\ Going(state) /\ Lit(state)
      /\ \A q \in Seated(state) : state.hands[q] # {}
  BY OnTurnValid
<1>3. /\ SameRecord(state, t) /\ t.dealer = state.dealer /\ t.activeColor = state.activeColor
      /\ t.order = state.order /\ t.current = state.current /\ t.rules = state.rules
  BY <1>2 DEF Discarded, Unchallenged, State, SameRecord
<1>4. c \in Cards
  BY <1>1, <1>2 DEF PutDown, State
<1> HIDE DEF t
<1>5. c # None
  BY <1>4, CardsOK DEF CardsAssumption
<1>6. Going(t)
  BY <1>1, <1>2, <1>3, <1>5, SameOngoing DEF Going, PutDown
<1>7. Armed(t, p)
  BY <1>1, <1>2, <1>3 DEF Armed, PutDown, Seated
<1> QED
  BY <1>1, <1>2, <1>3, <1>4, <1>6, <1>7 DEF t, Lit, PutDown

LEMMA PlaySwapHandsValid ==
  ASSUME NEW p \in Players, NEW c, Sound(state), Valid(state), PlaySwapHands(p, c)
  PROVE  Valid(state')
<1> DEFINE s == Discarded(state, p, c)
<1>1. /\ PutDown(p, c, s) /\ Going(s) /\ Armed(s, p) /\ s.activeColor \in Colors
      /\ s.current = p /\ s.rules = state.rules /\ c \in Cards
  BY PlayedScene DEF PlaySwapHands
<1>2. RankOf[c] = SwapHands /\ state.rules.AllowSwapHands
  BY DEF PlaySwapHands, Playable
<1>3. \/ s.hands[p] = {} /\ state' = CompletePlay(s, p, NextSeat(s, p, 1))
      \/ s.hands[p] # {} /\ state' = [s EXCEPT !.phase = "ChoosingPlayer"]
  BY DEF PlaySwapHands
<1>4. /\ InPlay(s) /\ p \in Seated(s) /\ s.top = c /\ s.pendingBluff = None
      /\ s.drawnCard = None /\ s.pending = None /\ s.drawCounter = 0
  <2>1. ~(RankOf[c] \in {DrawTwo, WildDrawFour})
    BY <1>2 DEF SwapHands, DrawTwo, WildDrawFour
  <2>2. s.drawCounter \in Nat /\ ~(s.drawCounter > 0)
    BY <1>1, <2>1 DEF PutDown
  <2>3. s.drawCounter = 0
    BY <2>2
  <2> QED
    BY <1>1, <2>3 DEF PutDown
<1> HIDE DEF s
<1>5. Lit(s)
  BY <1>1, <1>2, <1>4 DEF Lit, SwapHands, Wild
<1>6. s \in State
  BY <1>4 DEF InPlay, Held
<1>7. CASE s.hands[p] = {} /\ state' = CompletePlay(s, p, NextSeat(s, p, 1))
  <2>1. NextSeat(s, p, 1) \in Seated(s)
    BY <1>4, <1>6, NextSeatSeated
  <2>2. Valid(CompletePlay(s, p, NextSeat(s, p, 1)))
    BY <1>1, <1>4, <1>5, <2>1, CompletePlayValid
  <2> QED
    BY <1>7, <2>2
<1>8. CASE s.hands[p] # {} /\ state' = [s EXCEPT !.phase = "ChoosingPlayer"]
  <2> DEFINE t == state'
  <2>1. Held(t)
    BY PlaySwapHandsSound DEF Sound
  <2>2. /\ SameScene(s, t) /\ t.phase = "ChoosingPlayer" /\ t.current = p
        /\ t.pending = None /\ t.drawnCard = None /\ t.drawCounter = 0
        /\ t.pendingBluff = None
    BY <1>1, <1>4, <1>6, <1>8 DEF SameScene, SameRecord, State
  <2> HIDE DEF t
  <2>3. \A q \in Seated(s) : s.hands[q] # {}
    BY <1>1, <1>8 DEF Armed
  <2>4. Seated(s) \subseteq Players
    BY <1>4 DEF InPlay, Held, SeatOrder
  <2>5. /\ Seated(t) = Seated(s) /\ Going(t) /\ Lit(t) /\ Ongoing(t)
        /\ \A q \in Seated(t) : t.hands[q] # {}
    BY <1>1, <1>5, <2>2, <2>3, <2>4, SameSceneKept DEF Going
  <2>6. ActiveState(t)
    BY <1>4, <2>2, <2>5 DEF ActiveState, Going, Lit, InPlay, SameScene
  <2>7. SwapPending(t)
    BY <1>1, <1>2, <1>4, <2>2 DEF SwapPending, SameScene, SameRecord
  <2>8. TopColor(t) /\ OpenerHolds(t) /\ t.phase \in ActivePhases
    BY <2>2, <2>5 DEF TopColor, Lit, OpenerHolds, ActivePhases
  <2>9. Valid(t)
    BY <2>1, <2>2, <2>5, <2>6, <2>7, <2>8, RunningValid
  <2> QED
    BY <2>9 DEF t
<1> QED
  BY <1>3, <1>7, <1>8

\* A table on which p is to choose a colour, the card being down.
LEMMA ChoiceValid ==
  ASSUME NEW s \in State, Going(s), Seated(s) \subseteq Players, Len(s.order) >= 2,
         NEW p \in Seated(s), s.current = p, s.drawnCard = None,
         NEW choice, PendingChoice([s EXCEPT !.pending = choice]), choice # None,
         choice.actor = p, choice.initial => s.hands[p] # {},
         Armed(s, p), choice.swapHands => s.hands[p] # {},
         Held([s EXCEPT !.phase = "ChoosingColor", !.pending = choice])
  PROVE  Valid([s EXCEPT !.phase = "ChoosingColor", !.pending = choice])
<1> DEFINE t == [s EXCEPT !.phase = "ChoosingColor", !.pending = choice]
           u == [s EXCEPT !.pending = choice]
<1>1. /\ SameScene(s, t) /\ t.phase = "ChoosingColor" /\ t.pending = choice /\ t.hands = s.hands
      /\ t.drawnCard = None /\ t.current = p
  BY DEF SameScene, SameRecord, State
<1>2. /\ u.pending = choice /\ t.pending = choice /\ u.current = t.current /\ u.order = t.order
      /\ u.direction = t.direction /\ u.top = t.top /\ u.rules = t.rules
      /\ u.drawCounter = t.drawCounter /\ u.pendingBluff = t.pendingBluff
      /\ u.activeColor = t.activeColor
  BY DEF State
<1>3. PendingChoice(u) /\ Held(t)
  OBVIOUS
<1> HIDE DEF t, u
<1>4. PendingChoice(t)
  <2>1. Seated(t) = Seated(u) /\ \A q : NextSeat(t, q, 1) = NextSeat(u, q, 1)
    BY <1>2 DEF Seated, NextSeat
  <2>2. SwapPending(t) <=> SwapPending(u)
    BY <1>2 DEF SwapPending
  <2> QED
    BY <1>2, <1>3, <2>1, <2>2 DEF PendingChoice
<1>5. Seated(t) = Seated(s) /\ Going(t) /\ Ongoing(t)
  BY <1>1, SameSceneKept DEF Going
<1>6. \A q \in Seated(t) :
        t.hands[q] = {} => t.phase = "ChoosingColor" /\ t.pending.actor = q /\ ~t.pending.swapHands
  BY <1>1, <1>5 DEF Armed
<1>7. ActiveState(t)
  BY <1>1, <1>5, <1>6 DEF ActiveState, Going, SameScene
<1>8. OpenerHolds(t)
  BY <1>1 DEF OpenerHolds
<1>9. Valid(t)
  BY <1>1, <1>3, <1>4, <1>5, <1>7, <1>8, RunningValid DEF ActivePhases
<1> QED
  BY <1>9 DEF t

LEMMA PlayWildValid ==
  ASSUME NEW p \in Players, NEW c, Sound(state), Valid(state), PlayWild(p, c)
  PROVE  Valid(state')
<1> DEFINE s == Discarded(state, p, c)
           stacked == /\ state.drawCounter > 0
                      /\ RankOf[state.top] = DrawTwo
                      /\ state.rules.StackWildDrawFourOnTwo
           open == RankOf[c] = WildDrawFour /\ ~stacked
           bluffing == open /\ \E d \in s.hands[p] : ColorOf[d] = s.activeColor
           cost == IF RankOf[c] = WildDrawFour THEN FourPenalty ELSE 0
           target == NextSeat(s, p, 1)
           choice == [ actor |-> p,
                       target |-> target,
                       previousColor |-> s.activeColor,
                       drawCount |-> cost,
                       initial |-> FALSE,
                       bluffing |-> bluffing,
                       challengeable |-> open,
                       swapHands |-> FALSE,
                       swapTarget |-> None ]
           u == [s EXCEPT !.pending = choice]
<1>1. /\ PutDown(p, c, s) /\ Going(s) /\ Armed(s, p) /\ s.activeColor \in Colors
      /\ s.current = p /\ c \in Cards
  BY PlayedScene DEF PlayWild
<1>2. state' = [s EXCEPT !.phase = "ChoosingColor", !.pending = choice]
      /\ RankOf[c] \in {Wild, WildDrawFour}
  BY DEF PlayWild
<1>3. bluffing \in BOOLEAN /\ open \in BOOLEAN /\ cost \in {0, FourPenalty}
      /\ (RankOf[c] = WildDrawFour <=> cost = FourPenalty)
  BY EngineOK DEF EngineAssumption
<1> HIDE DEF s, bluffing, open, cost
<1>4. /\ InPlay(s) /\ Held(s) /\ s \in State /\ p \in Seated(s) /\ s.top = c
      /\ s.drawnCard = None /\ Len(s.order) >= 2 /\ Seated(s) \subseteq Players
  BY <1>1 DEF PutDown, InPlay, Held, SeatOrder
<1>5. target \in Seated(s) /\ target = NextSeat(s, p, 1)
  BY <1>4, NextSeatSeated
<1> HIDE DEF target
<1>6. /\ choice.actor = p /\ choice.target = target /\ choice.previousColor = s.activeColor
      /\ choice.drawCount = cost /\ ~choice.initial /\ ~choice.swapHands
      /\ choice.swapTarget = None
  OBVIOUS
<1>7. choice # None
  <2>1. choice \in ColorChoice
    BY <1>1, <1>3, <1>4, <1>5 DEF ColorChoice
  <2> QED
    BY <2>1, NothingOK DEF NothingAssumption
<1> HIDE DEF choice
<1>8. /\ u.pending = choice /\ u.current = p /\ u.top = c /\ u.activeColor = s.activeColor
      /\ u.order = s.order /\ u.direction = s.direction
  BY <1>1, <1>4 DEF State
<1> HIDE DEF u
<1>9. PendingChoice(u)
  <2>1. Seated(u) = Seated(s) /\ NextSeat(u, p, 1) = NextSeat(s, p, 1)
    BY <1>8 DEF Seated, NextSeat
  <2>2. RankOf[c] # SwapHands
    BY <1>2 DEF Wild, WildDrawFour, SwapHands
  <2> QED
    BY <1>1, <1>2, <1>3, <1>4, <1>5, <1>6, <1>8, <2>1, <2>2 DEF PendingChoice
<1>10. Held(state')
  BY PlayWildSound DEF Sound
<1>11. Valid([s EXCEPT !.phase = "ChoosingColor", !.pending = choice])
  BY <1>1, <1>2, <1>4, <1>6, <1>7, <1>9, <1>10, ChoiceValid DEF u
<1> QED
  BY <1>2, <1>11

LEMMA ColoredEffectsValid ==
  ASSUME NEW s, InPlay(s), Going(s), Lit(s), s.pendingBluff = None, NEW p \in Seated(s),
         Armed(s, p), NEW t \in ColoredEffects(s, p)
  PROVE  Valid(t)
<1> DEFINE next == NextSeat(s, p, 1)
           reversed == [s EXCEPT !.direction = -@]
           raised == [s EXCEPT !.drawCounter = @ + TwoPenalty]
<1>1. /\ s \in State /\ s.drawCounter \in Nat /\ TwoPenalty \in Nat
      /\ Seated(s) \subseteq Players
  BY EngineOK DEF InPlay, Held, State, EngineAssumption, SeatOrder
<1>2. (\A k \in {1, 2} : NextSeat(s, p, k) \in Seated(s)) /\ next \in Seated(s)
  BY <1>1, NextSeatSeated
<1>3. CASE \E q \in Seated(s) : t = CompletePlay(s, p, q)
  BY <1>3, CompletePlayValid
<1>4. CASE t = CompletePlay(reversed, p, NextSeat(reversed, p, 1))
  <2>1. InPlay(reversed) /\ reversed.pendingBluff = None
    BY DirectionInPlay
  <2>2. SameScene(s, reversed)
    BY <1>1 DEF SameScene, SameRecord, State
  <2> HIDE DEF reversed
  <2>3. Going(reversed) /\ Lit(reversed) /\ Armed(reversed, p) /\ Seated(reversed) = Seated(s)
    BY <1>1, <2>2, SameSceneKept
  <2>4. NextSeat(reversed, p, 1) \in Seated(reversed)
    BY <2>1, <2>3, NextSeatSeated DEF InPlay, Held
  <2> QED
    BY <1>4, <2>1, <2>3, <2>4, CompletePlayValid
<1>5. CASE t = CompletePlay(raised, p, next)
  <2> DEFINE n == s.drawCounter + TwoPenalty
  <2>1. n \in Nat
    BY <1>1
  <2>2. raised = [s EXCEPT !.drawCounter = n]
    BY <1>1 DEF State
  <2>3. raised.pendingBluff = None
    BY <1>1 DEF State
  <2> HIDE DEF raised, n, next
  <2>4. InPlay(raised) /\ SameScene(s, raised)
    BY <1>1, <2>1, <2>2, CounterInPlay, CounterScene
  <2>5. Going(raised) /\ Lit(raised) /\ Armed(raised, p) /\ Seated(raised) = Seated(s)
    BY <1>1, <2>4, SameSceneKept
  <2> QED
    BY <1>2, <1>5, <2>3, <2>4, <2>5, CompletePlayValid
<1>6. CASE t \in {CompletePlay(u, p, NextSeat(u, p, 2)) : u \in DrawTo(s, next, TwoPenalty)}
  <2>1. PICK u \in DrawTo(s, next, TwoPenalty) : t = CompletePlay(u, p, NextSeat(u, p, 2))
    BY <1>6
  <2> HIDE DEF next
  <2>2. InPlay(u) /\ SameScene(s, u)
    BY <1>1, <1>2, <2>1, DrawToScene
  <2>3. u.pendingBluff = None
    BY <1>1, <1>2, <2>1, DrawToHeld DEF InPlay, SamePlay
  <2>4. Going(u) /\ Lit(u) /\ Armed(u, p) /\ Seated(u) = Seated(s)
    BY <1>1, <2>2, SameSceneKept
  <2>5. NextSeat(u, p, 2) \in Seated(u)
    BY <2>2, <2>4, NextSeatSeated DEF InPlay, Held
  <2> QED
    BY <2>1, <2>2, <2>3, <2>4, <2>5, CompletePlayValid
<1> QED
  BY <1>2, <1>3, <1>4, <1>5, <1>6 DEF ColoredEffects

LEMMA PlayColoredValid ==
  ASSUME NEW p \in Players, NEW c, Sound(state), Valid(state), PlayColored(p, c)
  PROVE  Valid(state')
<1> DEFINE s == Discarded(state, p, c)
           u == [s EXCEPT !.activeColor = ColorOf[c]]
<1>1. PutDown(p, c, s) /\ Going(s) /\ Armed(s, p) /\ c \in Cards
  BY PlayedScene DEF PlayColored
<1>2. RankOf[c] < Wild /\ state' \in ColoredEffects(u, p)
  BY DEF PlayColored
<1>3. ColorOf[c] \in Colors
  <2>1. RankOf[c] \in 0 .. SwapHands
    BY <1>1, CardsOK DEF CardsAssumption
  <2>2. ~(RankOf[c] >= Wild)
    BY <1>2, <2>1 DEF Wild, SwapHands
  <2> QED
    BY <1>1, <2>2, CardsOK DEF CardsAssumption
<1> HIDE DEF s
<1>4. InPlay(s) /\ s \in State /\ p \in Seated(s) /\ s.top = c /\ s.pendingBluff = None
  BY <1>1 DEF PutDown, InPlay, Held
<1>5. InPlay(u) /\ u.pendingBluff = None
  BY <1>3, <1>4, ColorInPlay
<1>6. /\ SameRecord(s, u) /\ u.top = s.top /\ u.dealer = s.dealer /\ u.activeColor = ColorOf[c]
      /\ u.order = s.order /\ u.hands = s.hands
  BY <1>4 DEF State, SameRecord
<1> HIDE DEF u
<1>7. Going(u) /\ Seated(u) = Seated(s)
  BY <1>1, <1>6, SameOngoing DEF Going, Seated
<1>8. Lit(u) /\ Armed(u, p)
  BY <1>1, <1>3, <1>4, <1>6, <1>7 DEF Lit, Armed
<1> QED
  BY <1>2, <1>4, <1>5, <1>7, <1>8, ColoredEffectsValid

-----------------------------------------------------------------------------
(* Validate: choices *)

LEMMA SwapChoiceValid ==
  ASSUME NEW p \in Players, Sound(state), Debts(state), Valid(state), OnTurn(p, "ChoosingPlayer"),
         NEW target \in (Seated(state) \ {p}) \cup {None},
         state' = [state EXCEPT !.phase = "ChoosingColor", !.pending = SwapChoice(p, target)]
  PROVE  Valid(state')
<1> DEFINE choice == SwapChoice(p, target)
           next == NextSeat(state, p, 1)
           u == [state EXCEPT !.pending = choice]
<1>1. /\ Held(state) /\ state \in State /\ state.phase = "ChoosingPlayer"
      /\ p \in Seated(state) /\ state.current = p /\ Seated(state) \subseteq Players
      /\ state.phase \in ActivePhases
  BY OnTurnSeated DEF Sound, OnTurn, ActivePhases, Held, SeatOrder
<1>2. /\ Going(state) /\ ActiveState(state) /\ SwapPending(state)
  BY <1>1, ValidRunning
<1>3. /\ Len(state.order) >= 2 /\ state.activeColor \in Colors
      /\ \A q \in Seated(state) : state.hands[q] # {}
  BY <1>1, <1>2 DEF ActiveState
<1>4. state.drawnCard = None
  BY <1>1 DEF Debts
<1>5. next \in Seated(state) /\ next = NextSeat(state, p, 1)
  BY <1>1, NextSeatSeated
<1> HIDE DEF next
<1>6. choice = [ actor |-> p, target |-> next, previousColor |-> state.activeColor,
                 drawCount |-> 0, initial |-> FALSE, bluffing |-> FALSE,
                 challengeable |-> FALSE, swapHands |-> TRUE, swapTarget |-> target ]
  BY DEF SwapChoice, next
<1> HIDE DEF choice
<1>7. /\ choice.actor = p /\ choice.target = next /\ choice.previousColor = state.activeColor
      /\ choice.drawCount = 0 /\ ~choice.initial /\ ~choice.bluffing /\ ~choice.challengeable
      /\ choice.swapHands /\ choice.swapTarget = target
  BY <1>6
<1>8. choice # None
  <2>1. choice \in ColorChoice
    BY <1>1, <1>3, <1>5, <1>6 DEF ColorChoice
  <2> QED
    BY <2>1, NothingOK DEF NothingAssumption
<1>9. /\ u.pending = choice /\ u.current = p /\ u.top = state.top
      /\ u.activeColor = state.activeColor /\ u.rules = state.rules
      /\ u.order = state.order /\ u.direction = state.direction
      /\ u.drawCounter = state.drawCounter /\ u.pendingBluff = state.pendingBluff
  BY <1>1 DEF State
<1>10. state' = [state EXCEPT !.phase = "ChoosingColor", !.pending = choice]
  BY DEF choice
<1> HIDE DEF u
<1>11. PendingChoice(u)
  <2>1. Seated(u) = Seated(state) /\ NextSeat(u, p, 1) = NextSeat(state, p, 1)
    BY <1>9 DEF Seated, NextSeat
  <2>2. SwapPending(u) /\ RankOf[u.top] = SwapHands
    BY <1>2, <1>9 DEF SwapPending
  <2>3. SwapHands # WildDrawFour /\ SwapHands # Wild /\ FourPenalty # 0
    BY EngineOK DEF SwapHands, WildDrawFour, Wild, EngineAssumption
  <2> QED
    BY <1>1, <1>3, <1>5, <1>7, <1>9, <2>1, <2>2, <2>3 DEF PendingChoice
<1>12. Held(state')
  <2>1. target \in Players \cup {None}
    BY <1>1
  <2> QED
    BY <2>1, SwapChoiceSound DEF Sound
<1>13. Armed(state, p)
  BY <1>3 DEF Armed
<1>14. Valid([state EXCEPT !.phase = "ChoosingColor", !.pending = choice])
  BY <1>1, <1>2, <1>3, <1>4, <1>7, <1>8, <1>10, <1>11, <1>12, <1>13, ChoiceValid DEF u
<1> QED
  BY <1>10, <1>14

LEMMA ChoosePlayerValid ==
  ASSUME NEW p \in Players, Sound(state), Debts(state), Valid(state),
         KeepHand(p) \/ \E q \in Players : ChoosePlayer(p, q)
  PROVE  Valid(state')
<1>1. Seated(state) = {q \in Players : state.status[q] = "Playing"}
  BY DEF Sound, Held, SeatOrder
<1>2. PICK target \in (Seated(state) \ {p}) \cup {None} :
        /\ OnTurn(p, "ChoosingPlayer")
        /\ state' = [state EXCEPT !.phase = "ChoosingColor", !.pending = SwapChoice(p, target)]
  BY <1>1 DEF KeepHand, ChoosePlayer
<1> QED
  BY <1>2, SwapChoiceValid

LEMMA SwapHandsScene ==
  ASSUME NEW s \in State, NEW p \in Players, NEW q \in Players
  PROVE  LET t == SwapHandsOf(s, p, q)
         IN  /\ SameRecord(s, t) /\ t.top = s.top /\ t.dealer = s.dealer /\ t.order = s.order
             /\ t.current = s.current /\ t.pendingBluff = s.pendingBluff
             /\ t.drawCounter = s.drawCounter /\ t.pending = s.pending /\ t.phase = s.phase
BY DEF SwapHandsOf, State, SameRecord

LEMMA ClosedScene ==
  ASSUME NEW s \in State, NEW color
  PROVE  LET t == Closed(s, color)
         IN  /\ SameRecord(s, t) /\ t.top = s.top /\ t.dealer = s.dealer /\ t.order = s.order
             /\ t.activeColor = color /\ t.hands = s.hands /\ t.drawnCard = s.drawnCard
             /\ t.current = s.current
BY DEF Closed, State, SameRecord

LEMMA RaisedScene ==
  ASSUME NEW s \in State, NEW n, NEW open, NEW bluff
  PROVE  SameScene(s, Raised(s, n, open, bluff))
BY DEF Raised, State, SameScene, SameRecord

LEMMA ChooseColorValid ==
  ASSUME NEW p \in Players, NEW color \in Colors, Sound(state), Debts(state), Valid(state),
         ChooseColor(p, color)
  PROVE  Valid(state')
<1> DEFINE choice == state.pending
           actor == choice.actor
           target == choice.target
           partner == choice.swapTarget
           drawn == choice.drawCount
           open == choice.challengeable
           swapped == IF partner # None THEN SwapHandsOf(state, actor, partner) ELSE state
           chosen == Closed(swapped, color)
           bluff == IF open THEN [actor |-> actor, target |-> target, bluffing |-> choice.bluffing]
                    ELSE None
           count == state.drawCounter + drawn
<1>1. /\ Held(state) /\ choice # None /\ choice \in ColorChoice
      /\ state.pendingBluff = None /\ state.phase = "ChoosingColor"
      /\ state.phase \in ActivePhases
      /\ actor \in Seated(state) /\ target \in Seated(state)
      /\ Len(state.order) >= 2 /\ state.current \in Seated(state)
      /\ choice.bluffing => state.hands[actor] # {} /\ partner = None
      /\ Seated(state) \subseteq Players /\ state \in State
  BY DEF Sound, Held, State, ChooseColor, ChoiceSeated, TurnSeated, ActivePhases, SeatOrder
<1>2. /\ Going(state) /\ ActiveState(state) /\ OpenerHolds(state) /\ PendingChoice(state)
  BY <1>1, ValidRunning
<1>3. /\ drawn \in Nat /\ open \in BOOLEAN /\ choice.bluffing \in BOOLEAN
      /\ state.drawCounter \in Nat /\ state.drawnCard = None
  BY <1>1, EngineOK DEF ColorChoice, EngineAssumption, State, Debts
<1>4. count \in Nat
  BY <1>3
<1>5. /\ bluff \in BluffInfo \cup {None}
      /\ bluff # None => bluff.actor = actor /\ bluff.bluffing = choice.bluffing
  BY <1>1, <1>3 DEF BluffInfo
<1>6. /\ RankOf[state.top] \in {Wild, WildDrawFour, SwapHands}
      /\ partner # None => choice.swapHands /\ partner \in Seated(state)
      /\ choice.initial => partner = None /\ state.hands[actor] # {}
  <2>1. Wild # SwapHands
    BY DEF Wild, SwapHands
  <2> QED
    BY <1>1, <1>2, <2>1 DEF PendingChoice, OpenerHolds
<1>7. Armed(state, actor) /\ (choice.swapHands => state.hands[actor] # {})
  BY <1>1, <1>2 DEF ActiveState, Armed
<1>8. \/ choice.initial /\ state' = chosen
      \/ state' = CompletePlay(chosen, actor, target)
      \/ state' = CompletePlay([chosen EXCEPT !.drawCounter = @ + drawn,
                                              !.challengeable = open,
                                              !.pendingBluff = bluff], actor, target)
      \/ \E u \in DrawTo(chosen, target, drawn) :
           state' = CompletePlay(u, actor, NextSeat(u, target, 1))
  BY DEF ChooseColor, ChosenColor, Closed
<1> HIDE DEF actor, target, partner, drawn, open, bluff, swapped
<1>9. /\ Held(swapped) /\ swapped.order = state.order /\ swapped.pendingBluff = None
      /\ swapped.current = state.current /\ swapped.drawCounter = state.drawCounter
      /\ swapped.drawnCard = None
      /\ SameRecord(state, swapped) /\ swapped.top = state.top /\ swapped.dealer = state.dealer
      /\ partner = None => swapped.hands = state.hands
      /\ Armed(swapped, actor)
  <2>1. CASE partner # None
    <3>1. swapped = SwapHandsOf(state, actor, partner) /\ partner \in Players /\ actor \in Players
      BY <1>1, <1>6, <2>1 DEF swapped
    <3>2. /\ swapped.hands[actor] = state.hands[partner]
          /\ swapped.hands[partner] = state.hands[actor]
          /\ \A r \in Players \ {actor, partner} : swapped.hands[r] = state.hands[r]
          /\ swapped.drawnCard = state.drawnCard
      BY <1>1, <3>1, SwappedHands
    <3>3. /\ SameRecord(state, swapped) /\ swapped.top = state.top
          /\ swapped.dealer = state.dealer /\ swapped.order = state.order
          /\ swapped.current = state.current /\ swapped.pendingBluff = state.pendingBluff
          /\ swapped.drawCounter = state.drawCounter
      BY <1>1, <3>1, SwapHandsScene
    <3>4. Held(swapped)
      BY <1>1, <1>6, <2>1, <3>1, SwapHandsHeld
    <3>5. \A q \in Seated(state) : state.hands[q] # {}
      BY <1>6, <1>7, <2>1 DEF Armed
    <3>6. Armed(swapped, actor)
      BY <1>1, <1>6, <2>1, <3>2, <3>3, <3>5 DEF Armed, Seated
    <3> QED
      BY <1>1, <1>3, <2>1, <3>2, <3>3, <3>4, <3>6
  <2>2. CASE partner = None
    BY <1>1, <1>3, <1>7, <2>2 DEF swapped, SameRecord
  <2> QED
    BY <2>1, <2>2
<1>10. choice.bluffing => swapped.hands[actor] # {}
  BY <1>1, <1>9 DEF actor, partner
<1>11. /\ InPlay(chosen) /\ Seated(chosen) = Seated(state) /\ chosen.pendingBluff = None
       /\ chosen.hands = swapped.hands /\ chosen.drawCounter = state.drawCounter
       /\ chosen.current = state.current
  <2>1. Len(swapped.order) >= 2 /\ Seated(swapped) = Seated(state)
    BY <1>1, <1>9 DEF Seated
  <2> QED
    BY <1>9, <2>1, ClosedInPlay
<1>12. /\ Going(chosen) /\ Lit(chosen) /\ Armed(chosen, actor) /\ chosen.drawnCard = None
  <2>1. /\ SameRecord(swapped, chosen) /\ chosen.top = swapped.top
        /\ chosen.dealer = swapped.dealer /\ chosen.order = swapped.order
        /\ chosen.activeColor = color /\ chosen.hands = swapped.hands
        /\ chosen.drawnCard = swapped.drawnCard
    BY <1>9, ClosedScene DEF Held
  <2> HIDE DEF chosen
  <2>2. SameRecord(state, chosen)
    BY <1>9, <2>1 DEF SameRecord
  <2>3. Going(chosen)
    BY <1>2, <1>9, <2>1, <2>2, SameOngoing DEF Going
  <2>4. Lit(chosen)
    BY <1>6, <1>9, <2>1 DEF Lit, Wild, WildDrawFour, SwapHands
  <2>5. Armed(chosen, actor)
    BY <1>9, <2>1 DEF Armed, Seated
  <2> QED
    BY <1>9, <2>1, <2>3, <2>4, <2>5
<1> HIDE DEF chosen
<1>13. [chosen EXCEPT !.drawCounter = @ + drawn,
                      !.challengeable = open,
                      !.pendingBluff = bluff] = Raised(chosen, count, open, bluff)
  <2>1. chosen \in State
    BY <1>11 DEF InPlay, Held
  <2> QED
    BY <1>11, <2>1 DEF Raised, State
<1>14. actor \in Seated(chosen) /\ target \in Seated(chosen) /\ chosen.current \in Seated(chosen)
  BY <1>1, <1>11 DEF actor, target
<1>15. bluff # None => bluff.actor = actor /\ (bluff.bluffing => chosen.hands[actor] # {})
  BY <1>5, <1>10, <1>11
<1>16. /\ drawn \in Nat /\ open \in BOOLEAN /\ count \in Nat /\ Seated(chosen) \subseteq Players
       /\ chosen \in State
  BY <1>1, <1>3, <1>4, <1>11 DEF InPlay, Held
<1> HIDE DEF count
<1>17. CASE choice.initial /\ state' = chosen
  <2>1. chosen.hands[actor] # {}
    BY <1>6, <1>9, <1>11, <1>17 DEF actor
  <2>2. \A q \in Seated(chosen) : chosen.hands[q] # {}
    BY <1>12, <2>1 DEF Armed
  <2>3. Valid(chosen)
    BY <1>11, <1>12, <1>14, <2>2, TurnValid
  <2> QED
    BY <1>17, <2>3
<1> HIDE DEF choice
<1>18. CASE state' = CompletePlay(chosen, actor, target)
  <2>1. Valid(CompletePlay(chosen, actor, target))
    BY <1>11, <1>12, <1>14, CompletePlayValid
  <2> QED
    BY <1>18, <2>1
<1>19. CASE state' = CompletePlay(Raised(chosen, count, open, bluff), actor, target)
  <2> DEFINE r == Raised(chosen, count, open, bluff)
  <2>1. bluff # None /\ bluff.bluffing => bluff.actor \in Seated(chosen)
    BY <1>14, <1>15
  <2>2. /\ InPlay(r) /\ Seated(r) = Seated(chosen)
        /\ r.pendingBluff = bluff /\ r.hands = chosen.hands
    BY <1>5, <1>11, <1>16, <2>1, RaisedInPlay
  <2>3. SameScene(chosen, r)
    BY <1>16, RaisedScene
  <2> HIDE DEF r
  <2>4. Going(r) /\ Lit(r) /\ Armed(r, actor)
    BY <1>12, <1>16, <2>3, SameSceneKept
  <2>5. Valid(CompletePlay(r, actor, target))
    BY <1>14, <1>15, <2>2, <2>4, CompletePlayValid
  <2> QED
    BY <1>19, <2>5 DEF r
<1>20. CASE \E u \in DrawTo(chosen, target, drawn) :
              state' = CompletePlay(u, actor, NextSeat(u, target, 1))
  <2>1. PICK u \in DrawTo(chosen, target, drawn) :
          state' = CompletePlay(u, actor, NextSeat(u, target, 1))
    BY <1>20
  <2>2. InPlay(u) /\ SameScene(chosen, u) /\ Seated(u) = Seated(chosen)
    BY <1>11, <1>14, <1>16, DrawToScene, DrawToInPlay
  <2>3. u.pendingBluff = None
    BY <1>11, <1>14, <1>16, DrawToHeld DEF InPlay, SamePlay
  <2>4. Going(u) /\ Lit(u) /\ Armed(u, actor)
    BY <1>12, <1>16, <2>2, SameSceneKept
  <2>5. NextSeat(u, target, 1) \in Seated(u)
    BY <1>14, <2>2, NextSeatSeated DEF InPlay, Held
  <2>6. Valid(CompletePlay(u, actor, NextSeat(u, target, 1)))
    BY <1>14, <2>2, <2>3, <2>4, <2>5, CompletePlayValid
  <2> QED
    BY <2>1, <2>6
<1> QED
  BY <1>8, <1>13, <1>17, <1>18, <1>19, <1>20

-----------------------------------------------------------------------------
(* Validate: the deal *)

\* Giving the turn to somebody seated before anything was drawn.
LEMMA TurnMovedValid ==
  ASSUME NEW s, InPlay(s), Going(s), Lit(s), \A q \in Seated(s) : s.hands[q] # {},
         s.drawnCard = None, NEW p \in Seated(s)
  PROVE  Valid([s EXCEPT !.current = p])
<1>1. s \in State
  BY DEF InPlay, Held
<1>2. [s EXCEPT !.current = p] = ChangeTurn(s, p)
  BY <1>1 DEF ChangeTurn, State
<1> QED
  BY <1>2, ChangeTurnValid

LEMMA OpeningValid ==
  ASSUME NEW s, InPlay(s), Going(s), s.pendingBluff = None, s.drawnCard = None,
         s.current \in Seated(s), \A q \in Seated(s) : s.hands[q] # {},
         s.top \in Cards, s.activeColor = ColorOf[s.top],
         RankOf[s.top] \notin {WildDrawFour, SwapHands},
         NEW dealer \in Seated(s), NEW t \in Opening(s, dealer)
  PROVE  Valid(t)
<1> DEFINE first == s.current
           next == NextSeat(s, first, 1)
           choice == [ actor |-> first,
                       target |-> next,
                       previousColor |-> None,
                       drawCount |-> 0,
                       initial |-> TRUE,
                       bluffing |-> FALSE,
                       challengeable |-> FALSE,
                       swapHands |-> FALSE,
                       swapTarget |-> None ]
           u == [s EXCEPT !.pending = choice]
<1>1. /\ s \in State /\ TwoPenalty \in Nat /\ first \in Players
      /\ Len(s.order) >= 2 /\ s.phase = "TakingTurn" /\ Held(s) /\ Seated(s) \subseteq Players
  BY EngineOK DEF InPlay, Held, SeatOrder, EngineAssumption
<1>2. next \in Seated(s) /\ next \in Players /\ next = NextSeat(s, first, 1)
  BY <1>1, NextSeatSeated
<1>3. RankOf[s.top] \in 0 .. SwapHands /\ (ColorOf[s.top] = None <=> RankOf[s.top] >= Wild)
      /\ ColorOf[s.top] \in Colors \cup {None}
  BY CardsOK DEF CardsAssumption
<1>4. CASE RankOf[s.top] = Wild
  <2>1. t = [s EXCEPT !.phase = "ChoosingColor", !.pending = choice]
    BY <1>4 DEF Opening, Wild, Skip, Reverse, DrawTwo
  <2>2. s.activeColor = None
    BY <1>3, <1>4 DEF Wild
  <2> HIDE DEF next, first
  <2>3. /\ choice.actor = first /\ choice.target = next /\ choice.previousColor = None
        /\ choice.drawCount = 0 /\ choice.initial /\ ~choice.bluffing /\ ~choice.challengeable
        /\ ~choice.swapHands /\ choice.swapTarget = None
    OBVIOUS
  <2>4. choice \in ColorChoice /\ choice # None
    <3>1. choice \in ColorChoice
      BY <1>1, <1>2 DEF ColorChoice
    <3> QED
      BY <3>1, NothingOK DEF NothingAssumption
  <2> HIDE DEF choice
  <2>5. s.current = first
    BY DEF first
  <2>6. /\ u.pending = choice /\ u.current = first /\ u.top = s.top
        /\ u.activeColor = None /\ u.order = s.order /\ u.direction = s.direction
    BY <1>1, <2>2, <2>5 DEF State
  <2> HIDE DEF u
  <2>7. PendingChoice(u)
    <3>1. Seated(u) = Seated(s) /\ NextSeat(u, first, 1) = NextSeat(s, first, 1)
      BY <2>6 DEF Seated, NextSeat
    <3>2. Wild # WildDrawFour /\ Wild # SwapHands /\ FourPenalty # 0
      BY EngineOK DEF Wild, WildDrawFour, SwapHands, EngineAssumption
    <3> QED
      BY <1>2, <1>4, <2>3, <2>5, <2>6, <3>1, <3>2 DEF PendingChoice
  <2>8. Held(t)
    BY OpeningSound DEF Sound
  <2>9. Armed(s, first) /\ s.hands[first] # {}
    BY <2>5 DEF Armed
  <2>10. Valid([s EXCEPT !.phase = "ChoosingColor", !.pending = choice])
    BY <1>1, <2>1, <2>3, <2>4, <2>5, <2>7, <2>8, <2>9, ChoiceValid DEF u
  <2> QED
    BY <2>1, <2>10
<1>5. CASE RankOf[s.top] # Wild
  <2>1. Lit(s)
    <3>1. ~(RankOf[s.top] >= Wild)
      BY <1>3, <1>5 DEF Wild, WildDrawFour, SwapHands
    <3> QED
      BY <1>3, <3>1 DEF Lit
  <2>2. CASE t = [s EXCEPT !.direction = -1, !.current = dealer]
    <3> DEFINE r == [s EXCEPT !.direction = -1]
    <3>1. r \in State /\ SameTable(s, r)
      BY <1>1, DirectionSetType
    <3>2. t = [r EXCEPT !.current = dealer] /\ SameScene(s, r) /\ r.drawnCard = None
      BY <1>1, <2>2 DEF State, SameScene, SameRecord
    <3> HIDE DEF r
    <3>3. InPlay(r) /\ dealer \in Seated(r)
      BY <3>1, SameTableInPlay
    <3>4. /\ Going(r) /\ Lit(r)
          /\ \A q \in Seated(r) : r.hands[q] # {}
      BY <1>1, <2>1, <3>2, SameSceneKept
    <3> QED
      BY <3>2, <3>3, <3>4, TurnMovedValid
  <2>3. CASE t = [s EXCEPT !.current = next]
    BY <1>2, <2>1, <2>3, TurnMovedValid
  <2>4. CASE t = [s EXCEPT !.drawCounter = TwoPenalty]
    <3>1. InPlay(t) /\ SameScene(s, t)
      BY <1>1, <2>4, CounterInPlay, CounterScene
    <3>2. t.current = s.current /\ t.drawnCard = None
      BY <1>1, <2>4 DEF State
    <3>3. /\ Going(t) /\ Lit(t) /\ Seated(t) = Seated(s)
          /\ \A q \in Seated(t) : t.hands[q] # {}
      BY <1>1, <2>1, <3>1, SameSceneKept
    <3> QED
      BY <3>1, <3>2, <3>3, TurnValid
  <2>5. CASE t \in {[w EXCEPT !.current = NextSeat(w, first, 1)] : w \in DrawTo(s, first, TwoPenalty)}
    <3>1. PICK w \in DrawTo(s, first, TwoPenalty) : t = [w EXCEPT !.current = NextSeat(w, first, 1)]
      BY <2>5
    <3>2. InPlay(w) /\ SameScene(s, w)
      BY <1>1, <3>1, DrawToScene
    <3>3. w.drawnCard = None
      BY <1>1, <3>1, DrawToHeld DEF SamePlay
    <3>4. /\ Going(w) /\ Lit(w) /\ Seated(w) = Seated(s)
          /\ \A q \in Seated(w) : w.hands[q] # {}
      BY <1>1, <2>1, <3>2, SameSceneKept
    <3>5. NextSeat(w, first, 1) \in Seated(w)
      BY <3>2, <3>4, NextSeatSeated DEF InPlay, Held
    <3> QED
      BY <3>1, <3>2, <3>3, <3>4, <3>5, TurnMovedValid
  <2>6. CASE t = s
    BY <2>1, <2>6, TurnValid
  <2> QED
    BY <1>5, <2>2, <2>3, <2>4, <2>5, <2>6 DEF Opening
<1> QED
  BY <1>4, <1>5

LEMMA StartGameValid ==
  ASSUME NEW dealer \in Players, Sound(state), Debts(state), Valid(state), StartGame(dealer)
  PROVE  Valid(state')
<1>1. PICK deal \in Deals(state) :
        \E c \in {x \in state.drawPile \ (UNION Range(deal)) : CanOpen(state, x)} :
          state' \in Opening(Opened(state, deal, c, dealer), dealer)
  BY DEF StartGame
<1>2. PICK c \in state.drawPile \ (UNION Range(deal)) :
        CanOpen(state, c) /\ state' \in Opening(Opened(state, deal, c, dealer), dealer)
  BY <1>1
<1> DEFINE s == Opened(state, deal, c, dealer)
<1>3. /\ InPlay(s) /\ Seated(s) = Seated(state) /\ s.pendingBluff = None
      /\ s.current \in Seated(state)
  BY OpenedInPlay DEF StartGame
<1>4. /\ state \in State /\ state.phase = "Lobby" /\ state.drawnCard = None
      /\ dealer \in Seated(state) /\ dealer \in Participants(state)
      /\ Seated(state) \subseteq Players
  BY DEF StartGame, Sound, Held, Debts, SeatOrder, Participants
<1>5. Ongoing(state)
  BY <1>4, ValidOngoing
<1>6. c \in Cards /\ c # None
  BY <1>4, CardsOK DEF State, CardsAssumption
<1>7. /\ SameRecord(state, s) /\ s.drawnCard = None /\ s.top = c /\ s.dealer = dealer
      /\ s.activeColor = ColorOf[c]
      /\ \A q \in Seated(state) : s.hands[q] = deal[q]
  BY <1>4 DEF Opened, State, SameRecord
<1> HIDE DEF s
<1>8. \A q \in Seated(s) : s.hands[q] # {}
  <2>1. deal \in [Seated(state) -> kSubset(HandSize, state.drawPile)]
    BY DEF Deals
  <2>2. \A x \in kSubset(HandSize, state.drawPile) : Cardinality(x) = HandSize
    BY DEF kSubset
  <2>3. {} \notin kSubset(HandSize, state.drawPile)
    BY <2>2, FS_EmptySet, EngineOK DEF EngineAssumption
  <2>4. \A q \in Seated(state) : deal[q] # {}
    BY <2>1, <2>3
  <2> QED
    BY <1>3, <1>7, <2>4
<1>9. RankOf[c] \notin {WildDrawFour, SwapHands}
  BY <1>2 DEF CanOpen, Skip, WildDrawFour, SwapHands
<1>10. Going(s)
  BY <1>4, <1>5, <1>6, <1>7, SameOngoing DEF Going
<1>11. state' \in Opening(s, dealer) /\ dealer \in Seated(s)
  BY <1>2, <1>3, <1>4 DEF s
<1> QED
  BY <1>3, <1>6, <1>7, <1>8, <1>9, <1>10, <1>11, OpeningValid

LEMMA NextValid ==
  ASSUME Sound(state), Debts(state), Valid(state), Next
  PROVE  Valid(state')
<1>1. ASSUME NEW rules \in RuleSets, SetRules(rules) PROVE Valid(state')
  BY <1>1, SetRulesValid
<1>2. CASE CancelGame
  BY <1>2, CancelGameValid
<1>3. ASSUME NEW p \in Players, JoinLobby(p) PROVE Valid(state')
  BY <1>3, JoinLobbyValid
<1>4. ASSUME NEW p \in Players, JoinLate(p) PROVE Valid(state')
  BY <1>4, JoinLateValid
<1>5. ASSUME NEW p \in Players, LeaveGame(p) PROVE Valid(state')
  BY <1>5, LeaveGameValid
<1>6. ASSUME NEW p \in Players, StartGame(p) PROVE Valid(state')
  BY <1>6, StartGameValid
<1>7. ASSUME NEW p \in Players, KeepHand(p) PROVE Valid(state')
  BY <1>7, ChoosePlayerValid
<1>8. ASSUME NEW p \in Players, DrawPenalty(p) PROVE Valid(state')
  BY <1>8, DrawPenaltyValid
<1>9. ASSUME NEW p \in Players, DrawOne(p) \/ DrawOneWeb(p) PROVE Valid(state')
  BY <1>9, DrawOneValid
<1>10. ASSUME NEW p \in Players, PassTurn(p) \/ SkipTurn(p) PROVE Valid(state')
  BY <1>10, PassTurnValid
<1>11. ASSUME NEW p \in Players, CallBluff(p) PROVE Valid(state')
  BY <1>11, CallBluffValid
<1>12. ASSUME NEW p \in Players, NEW c \in Cards, PlaySwapHands(p, c) PROVE Valid(state')
  BY <1>12, PlaySwapHandsValid
<1>13. ASSUME NEW p \in Players, NEW c \in Cards, PlayWild(p, c) PROVE Valid(state')
  BY <1>13, PlayWildValid
<1>14. ASSUME NEW p \in Players, NEW c \in Cards, PlayColored(p, c) PROVE Valid(state')
  BY <1>14, PlayColoredValid
<1>15. ASSUME NEW p \in Players, NEW q \in Players, ChoosePlayer(p, q) PROVE Valid(state')
  BY <1>15, ChoosePlayerValid
<1>16. ASSUME NEW p \in Players, NEW color \in Colors, ChooseColor(p, color) PROVE Valid(state')
  BY <1>16, ChooseColorValid
<1> QED
  BY <1>1, <1>2, <1>3, <1>4, <1>5, <1>6, <1>7, <1>8, <1>9, <1>10, <1>11, <1>12, <1>13,
     <1>14, <1>15, <1>16 DEF Next

LEMMA InitValid == Init => ValidInv
<1> SUFFICES ASSUME Init PROVE ValidInv
  OBVIOUS
<1>1. DebtInv
  BY InitDebts
<1>2. Valid(state)
  BY NewGameValid DEF Init
<1> QED
  BY <1>1, <1>2 DEF ValidInv, StateValid, Valid

LEMMA NextValidInv == ValidInv /\ [Next]_vars => ValidInv'
<1> SUFFICES ASSUME ValidInv, [Next]_vars PROVE ValidInv'
  OBVIOUS
<1>1. DebtInv'
  BY NextDebts DEF ValidInv
<1>2. CASE UNCHANGED vars
  BY <1>1, <1>2 DEF vars, ValidInv, StateValid
<1>3. CASE Next
  <2>1. Sound(state) /\ Debts(state) /\ Valid(state)
    BY ValidInvIsValid
  <2>2. Valid(state')
    BY <1>3, <2>1, NextValid
  <2> QED
    BY <1>1, <2>2 DEF ValidInv, StateValid, Valid
<1> QED
  BY <1>2, <1>3

\* ValidInv holds, at any table size, with any deck and under any rules:
\* whoever goes out, leaves, joins or is dealt to, hands, places, choices and
\* colours stay consistent with each other (Validate of state.go).
THEOREM ValidInvariant == Spec => []ValidInv
<1> QED
  BY InitValid, NextValidInv, PTL DEF Spec

\* What a handler of game.go accepts, the last check of apply never rejects:
\* Validate holds of every state a game can reach (state.go).
THEOREM StatesAreValid == Spec => []StateValid
<1>1. ValidInv => StateValid
  BY DEF ValidInv
<1> QED
  BY <1>1, ValidInvariant, PTL

-----------------------------------------------------------------------------
(* Whose turn comes after whose *)

\* The first place of an element that has only one.
LEMMA RemovesTheOne ==
  ASSUME NEW S, NEW u \in Seq(S), IsInjective(u), NEW p \in Range(u)
  PROVE  SX!RemoveFirst(u, p) = Without(u, p)
<1> DEFINE i == SeatOf(u, p)
           found == {k \in 1 .. Len(u) : u[k] = p}
<1>1. /\ i \in 1 .. Len(u) /\ u[i] = p /\ Len(u) \in Nat /\ DOMAIN u = 1 .. Len(u)
  BY SeatOfSeated, LenProperties
<1>2. \A k \in 1 .. Len(u) : u[k] = p => k = i
  BY <1>1 DEF IsInjective
<1> HIDE DEF i
<1>3. found = {i}
  BY <1>1, <1>2
<1>4. SX!Min({i}) = i
  BY <1>1 DEF SX!Min
<1>5. SX!SelectInSeq(u, LAMBDA v : v = p) = IF found # {} THEN SX!Min(found) ELSE 0
  BY DEF SX!SelectInSeq
<1> HIDE DEF found
<1>6. SX!SelectInSeq(u, LAMBDA v : v = p) = i
  BY <1>3, <1>4, <1>5
<1>7. SX!RemoveFirst(u, p) = SX!RemoveAt(u, i)
  BY <1>1, <1>6 DEF SX!RemoveFirst
<1> QED
  BY <1>7 DEF Without, i

\* Less than a round ahead, no seat comes twice.
LEMMA AroundOnce ==
  ASSUME NEW n \in Nat, NEW i \in 1 .. n, NEW d \in {-1, 1},
         NEW k \in 0 .. n - 1, NEW l \in 0 .. n - 1, Around(n, i, k, d) = Around(n, i, l, d)
  PROVE  k = l
BY DEF Around

LEMMA UpcomingSeats ==
  ASSUME NEW s \in State, IsInjective(s.order), Seated(s) \subseteq Players, s.current \in Seated(s)
  PROVE  /\ Upcoming(s) \in Seq(Players) /\ Len(Upcoming(s)) = Len(s.order)
         /\ \A k \in 1 .. Len(s.order) : Upcoming(s)[k] = NextSeat(s, s.current, k - 1)
         /\ IsInjective(Upcoming(s))
<1>1. PICK n \in Nat : n = Len(s.order)
  BY LenProperties DEF State
<1> DEFINE cur == s.current
           u == Upcoming(s)
           at(k) == Around(n, SeatOf(s.order, cur), k - 1, s.direction)
<1>2. u = [k \in 1 .. n |-> NextSeat(s, cur, k - 1)]
  BY <1>1 DEF Upcoming
<1>3. ASSUME NEW k \in 1 .. n
      PROVE  /\ k - 1 \in 0 .. n - 1 /\ SeatOf(s.order, cur) \in 1 .. n /\ at(k) \in 1 .. n
             /\ NextSeat(s, cur, k - 1) = s.order[at(k)]
             /\ NextSeat(s, cur, k - 1) \in Players
  <2>1. k - 1 \in 0 .. n - 1 /\ k - 1 \in Int
    OBVIOUS
  <2>2. NextSeat(s, cur, k - 1) \in Players
    BY <2>1, NextSeatSeated
  <2> QED
    BY <1>1, <2>1, <2>2, NextSeatAround
<1> HIDE DEF at
<1>4. u \in [1 .. n -> Players]
  BY <1>2, <1>3
<1>5. u \in Seq(Players) /\ Len(u) = n /\ DOMAIN u = 1 .. n
  BY <1>4, IsASeq, LenProperties
<1>6. ASSUME NEW k \in 1 .. n, NEW l \in 1 .. n, u[k] = u[l]
      PROVE  k = l
  <2>1. s.order[at(k)] = s.order[at(l)] /\ at(k) \in 1 .. n /\ at(l) \in 1 .. n
    BY <1>2, <1>3, <1>6
  <2>2. DOMAIN s.order = 1 .. n
    BY <1>1, LenProperties DEF State
  <2>3. at(k) = at(l)
    BY <2>1, <2>2 DEF IsInjective
  <2>4. s.direction \in {-1, 1}
    BY DEF State
  <2>5. k - 1 = l - 1
    BY <1>3, <2>3, <2>4, AroundOnce DEF at
  <2> QED
    BY <2>5
<1> QED
  BY <1>1, <1>2, <1>5, <1>6 DEF IsInjective

LEMMA LastOrEarlier ==
  ASSUME NEW n \in Nat, NEW k \in 1 .. n + 1
  PROVE  k \in 1 .. n \/ k = n + 1
OBVIOUS

\* A late player is the last to come.
LEMMA LateUpcoming ==
  ASSUME NEW s \in State, NEW t \in State, SeatOrder(s), SeatOrder(t),
         s.current \in Seated(s), NEW p \in Players, p \notin Seated(s),
         t.direction = s.direction, t.current = s.current,
         t.order = SX!InsertAt(s.order, SeatOf(s.order, s.current)
                                          + (IF s.direction = -1 THEN 1 ELSE 0), p)
  PROVE  Upcoming(t) = Append(Upcoming(s), p)
<1>1. PICK n \in Nat : n = Len(s.order)
  BY LenProperties DEF State
<1> DEFINE cur == s.current
           u == Upcoming(s)
           w == Upcoming(t)
<1>2. /\ \A k \in 0 .. n - 1 : NextSeat(t, cur, k) = NextSeat(s, cur, k)
      /\ NextSeat(t, cur, n) = p
      /\ Len(t.order) = n + 1 /\ cur \in Seated(t)
  BY <1>1, LateSeat DEF SeatOrder
<1>3. /\ u \in Seq(Players) /\ Len(u) = n
      /\ \A k \in 1 .. n : u[k] = NextSeat(s, cur, k - 1)
  BY <1>1, UpcomingSeats DEF SeatOrder
<1>4. w = [k \in 1 .. n + 1 |-> NextSeat(t, cur, k - 1)]
  BY <1>2 DEF Upcoming
<1> HIDE DEF u, w, cur
<1>5. ASSUME NEW k \in 1 .. n + 1
      PROVE  w[k] = Append(u, p)[k]
  <2>1. CASE k \in 1 .. n
    <3>1. k - 1 \in 0 .. n - 1
      BY <2>1
    <3>2. Append(u, p)[k] = u[k]
      BY <1>3, <2>1, AppendProperties
    <3> QED
      BY <1>2, <1>3, <1>4, <2>1, <3>1, <3>2
  <2>2. CASE k = n + 1
    <3>1. k - 1 = n
      BY <2>2
    <3>2. Append(u, p)[k] = p
      BY <1>3, <2>2, AppendProperties
    <3> QED
      BY <1>2, <1>4, <3>1, <3>2
  <2>3. k \in 1 .. n \/ k = n + 1
    BY LastOrEarlier
  <2> QED
    BY <2>1, <2>2, <2>3
<1>6. Append(u, p) = [k \in 1 .. n + 1 |-> Append(u, p)[k]]
  <2>1. Append(u, p) \in Seq(Players) /\ Len(Append(u, p)) = n + 1
    BY <1>3, AppendProperties
  <2> QED
    BY <2>1, LenProperties
<1>7. w = Append(u, p)
  BY <1>4, <1>5, <1>6
<1> QED
  BY <1>7 DEF u, w

\* Who leaves is taken out, whoever comes next then being the one who came
\* after; everybody else comes in the same order.
LEMMA DepartedUpcoming ==
  ASSUME NEW s \in State, NEW t \in State, SeatOrder(s), SeatOrder(t),
         s.current \in Seated(s), NEW p \in Seated(s), NEW n \in Nat, n = Len(s.order), n >= 2,
         t.direction = s.direction, t.order = Without(s.order, p), t.current \in Seated(t),
         t.current = IF s.current = p THEN NextSeat(s, p, 1) ELSE s.current
  PROVE  Upcoming(t) = SX!RemoveFirst(Upcoming(s), p)
<1> DEFINE cur == s.current
           u == Upcoming(s)
           w == Upcoming(t)
<1>1. /\ u \in Seq(Players) /\ Len(u) = n /\ IsInjective(u)
      /\ \A k \in 1 .. n : u[k] = NextSeat(s, cur, k - 1)
  BY UpcomingSeats DEF SeatOrder
<1>2. DOMAIN u = 1 .. n
  BY <1>1, LenProperties
<1>3. w = [k \in 1 .. Len(t.order) |-> NextSeat(t, t.current, k - 1)]
  BY DEF Upcoming
<1> HIDE DEF u, w
<1>4. PICK m \in 0 .. n - 1 :
        /\ Len(t.order) = n - 1
        /\ NextSeat(s, cur, m) = p
        /\ \A k \in 0 .. n - 2 :
             NextSeat(t, t.current, k) = NextSeat(s, cur, IF k < m THEN k ELSE k + 1)
  <2>1. CASE cur # p
    <3>1. t.current = cur /\ cur \in Seated(s) /\ IsInjective(s.order) /\ IsInjective(t.order)
      BY <2>1 DEF SeatOrder
    <3> HIDE DEF cur
    <3>2. /\ Len(t.order) = n - 1
          /\ \E m \in 1 .. n - 1 :
               /\ NextSeat(s, cur, m) = p
               /\ \A k \in 0 .. n - 2 :
                    NextSeat(t, cur, k) = NextSeat(s, cur, IF k < m THEN k ELSE k + 1)
      BY <2>1, <3>1, GapClosed
    <3>3. \A m \in 1 .. n - 1 : m \in 0 .. n - 1
      OBVIOUS
    <3> QED
      BY <3>1, <3>2, <3>3
  <2>2. CASE cur = p
    <3>1. /\ Len(t.order) = n - 1
          /\ \A k \in 0 .. n - 2 : NextSeat(t, NextSeat(s, p, 1), k) = NextSeat(s, p, k + 1)
      BY GapHanded DEF SeatOrder
    <3>2. PICK zero \in 0 .. n - 1 : zero = 0
      OBVIOUS
    <3>3. NextSeat(s, p, zero) = p
      <4>1. /\ SeatOf(s.order, p) \in 1 .. n
            /\ NextSeat(s, p, zero) = s.order[Around(n, SeatOf(s.order, p), zero, s.direction)]
        BY NextSeatAround
      <4>2. Around(n, SeatOf(s.order, p), zero, s.direction) = SeatOf(s.order, p)
        BY <3>2, <4>1 DEF Around
      <4>3. s.order \in Seq(Players) /\ p \in Range(s.order)
        BY DEF State, Seated
      <4> QED
        BY <4>1, <4>2, <4>3, SeatOfSeated
    <3>4. \A k \in 0 .. n - 2 : ~(k < zero)
      BY <3>2
    <3>5. t.current = NextSeat(s, p, 1)
      BY <2>2
    <3> QED
      BY <2>2, <3>1, <3>3, <3>4, <3>5
  <2> QED
    BY <2>1, <2>2
<1>5. m + 1 \in 1 .. n /\ (m + 1) - 1 = m
  BY <1>4
<1>6. u[m + 1] = p
  BY <1>1, <1>4, <1>5
<1>7. p \in Range(u) /\ SeatOf(u, p) = m + 1
  <2>1. m + 1 \in 1 .. Len(u)
    BY <1>1, <1>5
  <2> QED
    BY <1>1, <1>6, <2>1, SeatIs
<1> DEFINE v == Without(u, p)
<1>8. /\ v \in Seq(Players) /\ Len(v) = n - 1
      /\ \A k \in 1 .. n - 1 : v[k] = IF k < m + 1 THEN u[k] ELSE u[k + 1]
  BY <1>1, <1>7, RemovedAt
<1> HIDE DEF v
<1>9. ASSUME NEW k \in 1 .. n - 1
      PROVE  w[k] = v[k]
  <2>1. /\ k - 1 \in 0 .. n - 2 /\ k \in 1 .. n /\ k + 1 \in 1 .. n /\ (k + 1) - 1 = k
        /\ (k - 1) + 1 = k /\ (k - 1 < m <=> k < m + 1)
    BY <1>4
  <2>2. w[k] = NextSeat(t, t.current, k - 1)
    BY <1>3, <1>4
  <2>3. w[k] = NextSeat(s, cur, IF k - 1 < m THEN k - 1 ELSE k)
    BY <1>4, <2>1, <2>2
  <2> QED
    BY <1>1, <1>8, <2>1, <2>3
<1>10. v = [k \in 1 .. n - 1 |-> v[k]]
  BY <1>8, LenProperties
<1>11. w = v
  BY <1>3, <1>4, <1>9, <1>10
<1> QED
  BY <1>1, <1>7, <1>11, RemovesTheOne DEF u, v, w

-----------------------------------------------------------------------------
(* What a player on turn does to the seats and to the places *)

\* The same people at the same table under the same rules.
SameRoster(s, t) ==
  /\ t.rules = s.rules /\ t.status = s.status
  /\ t.order = s.order /\ t.placements = s.placements

\* A step within a turn or to another one, nobody going out.
Stays(s, t) ==
  /\ SameRoster(s, t)
  /\ t.phase \in ActivePhases
  /\ t.phase # "TakingTurn" => t.current = s.current

\* p goes out, which may end the game.
WithOut(s, p) == Append(s.placements, [player |-> p, wentOut |-> TRUE])
WithLast(s, p) == Append(WithOut(s, p), [player |-> Without(s.order, p)[1], wentOut |-> FALSE])
LastOneOut(s, p) == s.rules.EndPolicy = "FirstWinner" \/ Len(Without(s.order, p)) = 1

Outs(s, t, p) ==
  /\ t.rules = s.rules
  /\ t.status = [s.status EXCEPT ![p] = "WentOut"]
  /\ t.order = Without(s.order, p)
  /\ IF LastOneOut(s, p)
     THEN /\ t.phase = "Finished" /\ t.current = None
          /\ t.placements = IF s.rules.EndPolicy = "Placements" THEN WithLast(s, p) ELSE WithOut(s, p)
     ELSE t.phase = "TakingTurn" /\ t.placements = WithOut(s, p)

Turns(s, t, p) == Stays(s, t) \/ Outs(s, t, p)

LEMMA TurnsFrom ==
  ASSUME NEW s, NEW u, SameRoster(s, u), u.current = s.current, NEW p, NEW t, Turns(u, t, p)
  PROVE  Turns(s, t, p)
<1>1. CASE Stays(u, t)
  BY <1>1 DEF Stays, SameRoster, Turns
<1>2. CASE Outs(u, t, p)
  <2>1. Outs(s, t, p)
    BY <1>2 DEF Outs, SameRoster, WithOut, WithLast, LastOneOut
  <2> QED
    BY <2>1 DEF Turns
<1> QED
  BY <1>1, <1>2 DEF Turns

LEMMA ChangeTurnStays ==
  ASSUME NEW s \in State, s.phase = "TakingTurn", NEW next
  PROVE  Stays(s, ChangeTurn(s, next))
<1> DEFINE t == ChangeTurn(s, next)
<1>1. SameRoster(s, t) /\ t.phase = "TakingTurn"
  BY DEF ChangeTurn, State, SameRoster
<1> HIDE DEF t
<1>2. Stays(s, t)
  BY <1>1 DEF Stays, ActivePhases
<1> QED
  BY <1>2 DEF t

\* The fields a finish and an end of turn leave alone.
LEMMA FinishRoster ==
  ASSUME NEW s \in State, NEW reason
  PROVE  /\ SameRoster(s, Finish(s, reason))
         /\ Finish(s, reason).phase = "Finished" /\ Finish(s, reason).current = None
BY DEF Finish, Unchallenged, State, SameRoster

LEMMA CompletePlayTurns ==
  ASSUME NEW s \in State, s.phase = "TakingTurn", NEW p \in Players, NEW next
  PROVE  Turns(s, CompletePlay(s, p, next), p)
<1> DEFINE out == GoOut(s, p)
           last == RecordLast(out)
           after == IF next = p THEN NextSeat(s, p, 1) ELSE next
<1>1. CASE s.hands[p] # {}
  <2>1. CompletePlay(s, p, next) = ChangeTurn(s, next)
    BY <1>1 DEF CompletePlay
  <2> QED
    BY <2>1, ChangeTurnStays DEF Turns
<1>2. CASE s.hands[p] = {}
  <2>1. /\ out.rules = s.rules /\ out.status = [s.status EXCEPT ![p] = "WentOut"]
        /\ out.order = Without(s.order, p) /\ out.placements = WithOut(s, p)
        /\ out.phase = "TakingTurn" /\ DOMAIN out = DOMAIN s
    BY DEF GoOut, State, WithOut
  <2>2. /\ last.rules = s.rules /\ last.status = [s.status EXCEPT ![p] = "WentOut"]
        /\ last.order = Without(s.order, p) /\ last.placements = WithLast(s, p)
    BY DEF GoOut, RecordLast, State, WithOut, WithLast
  <2>3. CASE LastOneOut(s, p)
    <3> DEFINE u == IF s.rules.EndPolicy = "Placements" THEN last ELSE out
               t == Finish(u, "Completed")
    <3>1. CompletePlay(s, p, next) = t
      <4> HIDE DEF out
      <4> QED
        BY <1>2, <2>1, <2>3 DEF CompletePlay, LastOneOut, out
    <3>2. t.rules = u.rules /\ t.status = u.status /\ t.order = u.order
          /\ t.placements = u.placements /\ t.phase = "Finished" /\ t.current = None
      BY DEF Finish, Unchallenged, GoOut, RecordLast, State
    <3> HIDE DEF t
    <3>3. Outs(s, t, p)
      <4> HIDE DEF out, last
      <4> QED
        BY <2>1, <2>2, <2>3, <3>2 DEF Outs
    <3> QED
      BY <3>1, <3>3 DEF Turns
  <2>4. CASE ~LastOneOut(s, p)
    <3> DEFINE t == ChangeTurn(out, after)
    <3>1. CompletePlay(s, p, next) = t
      <4> HIDE DEF out
      <4> QED
        BY <1>2, <2>1, <2>4 DEF CompletePlay, LastOneOut, out
    <3>2. t.rules = out.rules /\ t.status = out.status /\ t.order = out.order
          /\ t.placements = out.placements /\ t.phase = "TakingTurn"
      BY DEF ChangeTurn, GoOut, State
    <3> HIDE DEF t
    <3>3. Outs(s, t, p)
      <4> HIDE DEF out, after
      <4> QED
        BY <2>1, <2>4, <3>2 DEF Outs
    <3> QED
      BY <3>1, <3>3 DEF Turns
  <2> QED
    BY <2>3, <2>4
<1> QED
  BY <1>1, <1>2

\* Same scene, same table, same turn.
LEMMA SceneRoster ==
  ASSUME NEW s, NEW t
  PROVE  /\ SamePlay(s, t) => SameRoster(s, t) /\ t.current = s.current /\ t.phase = s.phase
         /\ SameScene(s, t) => SameRoster(s, t)
BY DEF SamePlay, SameScene, SameRecord, SameRoster

LEMMA RosterChain ==
  ASSUME NEW s, NEW t, NEW u, SameRoster(s, t), SameRoster(t, u)
  PROVE  SameRoster(s, u)
BY DEF SameRoster

\* p, on turn, draws or does nothing, and the turn moves on or stays.
DrewOn(p) ==
  \/ DrawPenalty(p) \/ CallBluff(p)
  \/ DrawOne(p) \/ DrawOneWeb(p)
  \/ PassTurn(p) \/ SkipTurn(p)

\* A penalty or a single card is drawn from a table whose challenge is closed.
LEMMA DrawnRoster ==
  ASSUME NEW s, InPlay(s), NEW p \in Seated(s), NEW n \in Nat, NEW t \in DrawTo(Unchallenged(s), p, n)
  PROVE  /\ SameRoster(s, t) /\ t.current = s.current /\ t.phase = "TakingTurn"
         /\ t \in State
<1> DEFINE u == Unchallenged(s)
<1>1. s \in State /\ s.phase = "TakingTurn"
  BY DEF InPlay, Held
<1>2. InPlay(u) /\ Seated(u) = Seated(s)
  BY UnchallengedInPlay
<1>3. SameRoster(s, u) /\ u.current = s.current /\ u.phase = s.phase
  BY <1>1 DEF Unchallenged, State, SameRoster
<1> HIDE DEF u
<1>4. Held(t) /\ SamePlay(u, t)
  BY <1>2, DrawToHeld DEF InPlay, u
<1>5. SameRoster(u, t) /\ t.current = u.current /\ t.phase = u.phase
  BY <1>4, SceneRoster
<1> QED
  BY <1>1, <1>3, <1>4, <1>5, RosterChain DEF Held

\* Paying a penalty moves nobody.
LEMMA PaidRoster ==
  ASSUME NEW t \in State
  PROVE  LET u == [t EXCEPT !.drawCounter = 0]
         IN  u \in State /\ SameRoster(t, u) /\ u.current = t.current /\ u.phase = t.phase
<1> DEFINE u == [t EXCEPT !.drawCounter = 0]
<1>1. u \in State
  BY DEF State
<1>2. u.current = t.current /\ u.phase = t.phase
  BY DEF State
<1>3. SameRoster(t, u)
  BY DEF State, SameRoster
<1> QED
  BY <1>1, <1>2, <1>3

LEMMA DrewOnTurns ==
  ASSUME NEW p \in Players, Sound(state), DrewOn(p)
  PROVE  Turns(state, state', p)
<1>1. OnTurn(p, "TakingTurn")
  BY DEF DrewOn, DrawPenalty, CallBluff, DrawOne, DrawOneWeb, PassTurn, SkipTurn
<1>2. /\ InPlay(state) /\ state \in State /\ state.phase = "TakingTurn"
      /\ p \in Seated(state) /\ p = state.current
  BY <1>1, TurnIsInPlay, OnTurnSeated DEF OnTurn, InPlay, Held
<1>3. ASSUME NEW t \in State, SameRoster(state, t), t.current = state.current,
             t.phase = "TakingTurn", NEW next
      PROVE  Turns(state, ChangeTurn(t, next), p)
  <2>1. Turns(t, ChangeTurn(t, next), p)
    BY <1>3, ChangeTurnStays DEF Turns
  <2> QED
    BY <1>3, <2>1, TurnsFrom
<1>4. CASE \E payer \in Seated(state), n \in Nat : \E t \in DrawTo(Unchallenged(state), payer, n) :
             state' = ChangeTurn([t EXCEPT !.drawCounter = 0], NextSeat(t, p, 1))
  <2>1. PICK payer \in Seated(state), n \in Nat : \E t \in DrawTo(Unchallenged(state), payer, n) :
               state' = ChangeTurn([t EXCEPT !.drawCounter = 0], NextSeat(t, p, 1))
    BY <1>4
  <2>2. PICK t \in DrawTo(Unchallenged(state), payer, n) :
               state' = ChangeTurn([t EXCEPT !.drawCounter = 0], NextSeat(t, p, 1))
    BY <2>1
  <2>3. /\ SameRoster(state, t) /\ t.current = state.current /\ t.phase = "TakingTurn"
        /\ t \in State
    BY <1>2, <2>2, DrawnRoster
  <2> DEFINE u == [t EXCEPT !.drawCounter = 0]
  <2>4. u \in State /\ SameRoster(t, u) /\ u.current = t.current /\ u.phase = t.phase
    BY <2>3, PaidRoster
  <2> HIDE DEF u
  <2>5. SameRoster(state, u)
    BY <2>3, <2>4, RosterChain
  <2>6. Turns(state, ChangeTurn(u, NextSeat(t, p, 1)), p)
    BY <1>3, <2>3, <2>4, <2>5
  <2> QED
    BY <2>2, <2>6 DEF u
<1>5. CASE \E t \in OneDrawn(state, p) : state' = t \/ state' = ChangeTurn(t, NextSeat(t, p, 1))
  <2>1. PICK t \in OneDrawn(state, p) : state' = t \/ state' = ChangeTurn(t, NextSeat(t, p, 1))
    BY <1>5
  <2>2. t \in State /\ SameScene(state, t) /\ t.current = state.current /\ t.phase = "TakingTurn"
    BY <1>2, <2>1, OneDrawnInPlay, OneDrawnScene DEF InPlay, Held
  <2>3. SameRoster(state, t)
    BY <2>2, SceneRoster
  <2>4. Turns(state, t, p)
    BY <2>2, <2>3 DEF Turns, Stays, ActivePhases
  <2>5. Turns(state, ChangeTurn(t, NextSeat(t, p, 1)), p)
    BY <1>3, <2>2, <2>3
  <2> QED
    BY <2>1, <2>4, <2>5
<1>6. CASE state' = ChangeTurn(state, NextSeat(state, p, 1))
  BY <1>2, <1>6, ChangeTurnStays DEF Turns
<1>7. CASE DrawPenalty(p)
  <2>1. state.drawCounter \in Nat
    BY <1>2 DEF State
  <2> QED
    BY <1>2, <1>4, <1>7, <2>1 DEF DrawPenalty
<1>8. CASE CallBluff(p)
  <2>1. state.drawCounter \in Nat /\ WrongCallPenalty \in Nat
    BY <1>2, EngineOK DEF State, EngineAssumption
  <2> DEFINE loser == IF state.pendingBluff.bluffing THEN state.pendingBluff.actor ELSE p
             count == state.drawCounter + (IF state.pendingBluff.bluffing THEN 0 ELSE WrongCallPenalty)
  <2>2. count \in Nat
    BY <2>1
  <2>3. loser \in Seated(state)
    BY <1>2, <1>8 DEF CallBluff, Sound, BlufferSeated
  <2>4. \E t \in DrawTo(Unchallenged(state), loser, count) :
          state' = ChangeTurn([t EXCEPT !.drawCounter = 0], NextSeat(t, p, 1))
    BY <1>8 DEF CallBluff
  <2> HIDE DEF loser, count
  <2> QED
    BY <1>4, <2>2, <2>3, <2>4
<1>9. CASE DrawOne(p) \/ DrawOneWeb(p)
  BY <1>5, <1>9 DEF DrawOne, DrawOneWeb
<1>10. CASE PassTurn(p) \/ SkipTurn(p)
  BY <1>6, <1>10 DEF PassTurn, SkipTurn
<1> QED
  BY <1>7, <1>8, <1>9, <1>10 DEF DrewOn

\* p, on turn, plays a card, or chooses whose hand or which colour.
PlayedOn(p) ==
  \/ \E c \in Cards : PlaySwapHands(p, c) \/ PlayWild(p, c) \/ PlayColored(p, c)
  \/ KeepHand(p)
  \/ \E q \in Players : ChoosePlayer(p, q)
  \/ \E color \in Colors : ChooseColor(p, color)

LEMMA PutDownRoster ==
  ASSUME NEW p \in Players, NEW c, Sound(state), OnTurn(p, "TakingTurn"), Playable(state, p, c)
  PROVE  LET s == Discarded(state, p, c)
         IN  /\ SameRoster(state, s) /\ s.current = state.current
             /\ InPlay(s) /\ p \in Seated(s) /\ s \in State /\ s.phase = "TakingTurn"
<1>1. state \in State
  BY DEF Sound, Held
<1> DEFINE s == Discarded(state, p, c)
<1>2. SameRoster(state, s) /\ s.current = state.current
  BY <1>1 DEF Discarded, Unchallenged, State, SameRoster
<1>3. InPlay(s) /\ p \in Seated(s)
  BY DiscardedInPlay
<1> HIDE DEF s
<1>4. s \in State /\ s.phase = "TakingTurn"
  BY <1>3 DEF InPlay, Held
<1> QED
  BY <1>2, <1>3, <1>4 DEF s

LEMMA ChoosingStays ==
  ASSUME NEW s \in State, NEW p, NEW t,
         \/ t = [s EXCEPT !.phase = "ChoosingPlayer"]
         \/ \E choice : t = [s EXCEPT !.phase = "ChoosingColor", !.pending = choice]
  PROVE  Turns(s, t, p)
BY DEF Turns, Stays, SameRoster, State, ActivePhases

LEMMA ColoredEffectsTurns ==
  ASSUME NEW s, InPlay(s), NEW p \in Seated(s), NEW t \in ColoredEffects(s, p)
  PROVE  Turns(s, t, p)
<1> DEFINE next == NextSeat(s, p, 1)
           reversed == [s EXCEPT !.direction = -@]
           raised == [s EXCEPT !.drawCounter = @ + TwoPenalty]
<1>1. /\ s \in State /\ s.phase = "TakingTurn" /\ p \in Players /\ Held(s)
      /\ TwoPenalty \in Nat /\ s.drawCounter \in Nat
  BY EngineOK DEF InPlay, Held, SeatOrder, EngineAssumption, State
<1>2. ASSUME NEW u \in State, SameRoster(s, u), u.current = s.current, u.phase = "TakingTurn", NEW q
      PROVE  Turns(s, CompletePlay(u, p, q), p)
  <2>1. Turns(u, CompletePlay(u, p, q), p)
    BY <1>1, <1>2, CompletePlayTurns
  <2> QED
    BY <1>2, <2>1, TurnsFrom
<1>3. next \in Seated(s)
  BY <1>1, NextSeatSeated
<1>4. CASE \E q : t = CompletePlay(s, p, q)
  BY <1>1, <1>4, CompletePlayTurns
<1>5. CASE t = CompletePlay(reversed, p, NextSeat(reversed, p, 1))
  <2>1. reversed \in State
    BY DirectionInPlay DEF InPlay, Held
  <2>2. SameRoster(s, reversed) /\ reversed.current = s.current /\ reversed.phase = s.phase
    BY <1>1 DEF State, SameRoster
  <2> HIDE DEF reversed
  <2> QED
    BY <1>1, <1>2, <1>5, <2>1, <2>2
<1>6. CASE t = CompletePlay(raised, p, next)
  <2>1. raised \in State
    <3>1. PICK n \in Nat : n = s.drawCounter + TwoPenalty
      BY <1>1
    <3>2. raised = [s EXCEPT !.drawCounter = n]
      BY <1>1, <3>1 DEF State
    <3> HIDE DEF raised
    <3> QED
      BY <1>1, <3>2 DEF State
  <2>2. SameRoster(s, raised) /\ raised.current = s.current /\ raised.phase = s.phase
    BY <1>1 DEF State, SameRoster
  <2> HIDE DEF raised, next
  <2> QED
    BY <1>1, <1>2, <1>6, <2>1, <2>2
<1>7. CASE t \in {CompletePlay(u, p, NextSeat(u, p, 2)) : u \in DrawTo(s, next, TwoPenalty)}
  <2>1. PICK u \in DrawTo(s, next, TwoPenalty) : t = CompletePlay(u, p, NextSeat(u, p, 2))
    BY <1>7
  <2> HIDE DEF next
  <2>2. u \in State /\ SamePlay(s, u)
    BY <1>1, <1>3, <2>1, DrawToHeld DEF Held
  <2>3. SameRoster(s, u) /\ u.current = s.current /\ u.phase = s.phase
    BY <2>2, SceneRoster
  <2> QED
    BY <1>1, <1>2, <2>1, <2>2, <2>3
<1> QED
  BY <1>4, <1>5, <1>6, <1>7 DEF ColoredEffects

LEMMA RaisedRoster ==
  ASSUME NEW s \in State, NEW n \in Nat, NEW open \in BOOLEAN,
         NEW bluff \in BluffInfo \cup {None}
  PROVE  LET t == Raised(s, n, open, bluff)
         IN  t \in State /\ SameRoster(s, t) /\ t.current = s.current /\ t.phase = s.phase
<1>1. Raised(s, n, open, bluff) \in State
  BY ZenonT(30) DEF Raised, State
<1> QED
  BY <1>1 DEF Raised, State, SameRoster

LEMMA ChooseColorTurns ==
  ASSUME NEW p \in Players, NEW color \in Colors, Sound(state), Debts(state), Valid(state),
         ChooseColor(p, color)
  PROVE  Turns(state, state', p)
<1> DEFINE choice == state.pending
           actor == choice.actor
           target == choice.target
           partner == choice.swapTarget
           drawn == choice.drawCount
           open == choice.challengeable
           swapped == IF partner # None THEN SwapHandsOf(state, actor, partner) ELSE state
           chosen == Closed(swapped, color)
           bluff == IF open THEN [actor |-> actor, target |-> target, bluffing |-> choice.bluffing]
                    ELSE None
           raised == [chosen EXCEPT !.drawCounter = @ + drawn,
                                    !.challengeable = open,
                                    !.pendingBluff = bluff]
<1>1. /\ Held(state) /\ state \in State /\ choice # None /\ choice \in ColorChoice
      /\ state.phase = "ChoosingColor" /\ state.phase \in ActivePhases
      /\ state.pendingBluff = None
      /\ target \in Seated(state) /\ actor \in Seated(state) /\ p = state.current
      /\ Len(state.order) >= 2
  BY DEF Sound, Held, State, ChooseColor, ChoiceSeated, TurnSeated, ActivePhases
<1>2. actor = p /\ (partner # None => partner \in Seated(state))
  <2>1. PendingChoice(state)
    BY <1>1, ValidRunning
  <2> QED
    BY <1>1, <2>1 DEF PendingChoice
<1>3. /\ drawn \in Nat
  BY <1>1, EngineOK DEF ColorChoice, EngineAssumption
<1>4. \/ state' = chosen
      \/ state' = CompletePlay(chosen, actor, target)
      \/ state' = CompletePlay(raised, actor, target)
      \/ \E u \in DrawTo(chosen, target, drawn) :
           state' = CompletePlay(u, actor, NextSeat(u, target, 1))
  BY DEF ChooseColor, ChosenColor, Closed
<1> HIDE DEF actor, target, partner, drawn, open, bluff, swapped
<1>5. /\ Held(swapped) /\ SameRoster(state, swapped) /\ swapped.current = state.current
      /\ swapped.pendingBluff = None
  <2>1. CASE partner # None
    <3>1. swapped = SwapHandsOf(state, actor, partner) /\ partner \in Players /\ actor \in Players
      BY <1>1, <1>2, <2>1 DEF swapped, Held, SeatOrder
    <3>2. SameRecord(state, swapped) /\ swapped.order = state.order
          /\ swapped.current = state.current /\ swapped.pendingBluff = state.pendingBluff
      BY <1>1, <3>1, SwapHandsScene
    <3>3. Held(swapped)
      BY <1>1, <1>2, <2>1, <3>1, SwapHandsHeld
    <3> QED
      BY <1>1, <3>2, <3>3 DEF SameRecord, SameRoster
  <2>2. CASE partner = None
    BY <1>1, <2>2 DEF swapped, SameRoster
  <2> QED
    BY <2>1, <2>2
<1>6. /\ chosen \in State /\ Held(chosen) /\ SameRoster(state, chosen)
      /\ chosen.current = state.current /\ chosen.phase = "TakingTurn"
      /\ Seated(chosen) = Seated(state) /\ InPlay(chosen)
  <2>1. Len(swapped.order) >= 2 /\ Seated(swapped) = Seated(state)
    BY <1>1, <1>5 DEF SameRoster, Seated
  <2>2. InPlay(chosen) /\ Seated(chosen) = Seated(swapped) /\ chosen.current = swapped.current
    BY <1>5, <2>1, ClosedInPlay
  <2>3. SameRoster(swapped, chosen)
    <3>1. SameRecord(swapped, chosen) /\ chosen.order = swapped.order
      BY <1>5, ClosedScene DEF Held
    <3> HIDE DEF chosen
    <3> QED
      BY <3>1 DEF SameRecord, SameRoster
  <2> HIDE DEF chosen
  <2> QED
    BY <1>5, <2>1, <2>2, <2>3, RosterChain DEF InPlay, Held
<1> HIDE DEF chosen
<1>7. p \in Players /\ target \in Seated(chosen)
  BY <1>1, <1>6 DEF target
<1>8. ASSUME NEW u \in State, SameRoster(chosen, u), u.current = chosen.current,
             u.phase = "TakingTurn", NEW q
      PROVE  Turns(state, CompletePlay(u, actor, q), p)
  <2>1. Turns(u, CompletePlay(u, p, q), p)
    BY <1>8, CompletePlayTurns
  <2>2. SameRoster(state, u) /\ u.current = state.current
    BY <1>6, <1>8, RosterChain
  <2>3. actor = p
    BY <1>2 DEF actor
  <2> QED
    BY <2>1, <2>2, <2>3, TurnsFrom
<1>9. SameRoster(chosen, chosen)
  BY DEF SameRoster
<1>10. CASE state' = chosen
  BY <1>6, <1>10 DEF Turns, Stays, ActivePhases
<1>11. CASE state' = CompletePlay(chosen, actor, target)
  BY <1>6, <1>8, <1>9, <1>11
<1>12. CASE state' = CompletePlay(raised, actor, target)
  <2>1. chosen.drawCounter \in Nat
    BY <1>6 DEF State
  <2>2. PICK n \in Nat : n = chosen.drawCounter + drawn
    BY <1>3, <2>1
  <2>3. open \in BOOLEAN /\ bluff \in BluffInfo \cup {None}
    <3>1. choice.bluffing \in BOOLEAN /\ open \in BOOLEAN
      BY <1>1 DEF ColorChoice, open
    <3>2. actor \in Players /\ target \in Players
      BY <1>1 DEF Held, SeatOrder, actor, target
    <3> QED
      BY <3>1, <3>2 DEF BluffInfo, bluff
  <2>4. raised = Raised(chosen, n, open, bluff)
    BY <1>6, <2>2 DEF Raised, State
  <2> HIDE DEF raised
  <2>5. raised \in State /\ SameRoster(chosen, raised) /\ raised.current = chosen.current
        /\ raised.phase = "TakingTurn"
    BY <1>6, <2>3, <2>4, RaisedRoster
  <2> QED
    BY <1>8, <1>12, <2>5
<1>13. CASE \E u \in DrawTo(chosen, target, drawn) :
              state' = CompletePlay(u, actor, NextSeat(u, target, 1))
  <2>1. PICK u \in DrawTo(chosen, target, drawn) :
          state' = CompletePlay(u, actor, NextSeat(u, target, 1))
    BY <1>13
  <2>2. u \in State /\ SamePlay(chosen, u)
    BY <1>3, <1>6, <1>7, <2>1, DrawToHeld DEF Held, drawn
  <2>3. SameRoster(chosen, u) /\ u.current = chosen.current /\ u.phase = chosen.phase
    BY <2>2, SceneRoster
  <2> QED
    BY <1>6, <1>8, <2>1, <2>2, <2>3
<1> QED
  BY <1>4, <1>10, <1>11, <1>12, <1>13

LEMMA PlayedOnTurns ==
  ASSUME NEW p \in Players, Sound(state), Debts(state), Valid(state), PlayedOn(p)
  PROVE  Turns(state, state', p)
<1>1. state \in State
  BY DEF Sound, Held
<1>2. ASSUME NEW c \in Cards, PlaySwapHands(p, c) \/ PlayWild(p, c) \/ PlayColored(p, c)
      PROVE  Turns(state, state', p)
  <2> DEFINE s == Discarded(state, p, c)
  <2>1. /\ SameRoster(state, s) /\ s.current = state.current
        /\ InPlay(s) /\ p \in Seated(s) /\ s \in State /\ s.phase = "TakingTurn"
    BY <1>2, PutDownRoster DEF PlaySwapHands, PlayWild, PlayColored
  <2>2. CASE PlaySwapHands(p, c)
    <3>1. \/ state' = CompletePlay(s, p, NextSeat(s, p, 1))
          \/ state' = [s EXCEPT !.phase = "ChoosingPlayer"]
      BY <2>2 DEF PlaySwapHands
    <3> HIDE DEF s
    <3>2. Turns(s, state', p)
      <4>1. CASE state' = CompletePlay(s, p, NextSeat(s, p, 1))
        BY <2>1, <4>1, CompletePlayTurns
      <4>2. CASE state' = [s EXCEPT !.phase = "ChoosingPlayer"]
        BY <2>1, <4>2, ChoosingStays
      <4> QED
        BY <3>1, <4>1, <4>2
    <3> QED
      BY <2>1, <3>2, TurnsFrom
  <2>3. CASE PlayWild(p, c)
    <3>1. \E choice : state' = [s EXCEPT !.phase = "ChoosingColor", !.pending = choice]
      BY <2>3 DEF PlayWild
    <3> HIDE DEF s
    <3>2. Turns(s, state', p)
      BY <2>1, <3>1, ChoosingStays
    <3> QED
      BY <2>1, <3>2, TurnsFrom
  <2>4. CASE PlayColored(p, c)
    <3> DEFINE u == [s EXCEPT !.activeColor = ColorOf[c]]
    <3>1. state' \in ColoredEffects(u, p) /\ RankOf[c] < Wild
      BY <2>4 DEF PlayColored
    <3>2. ColorOf[c] \in Colors
      <4>1. RankOf[c] \in 0 .. SwapHands
        BY CardsOK DEF CardsAssumption
      <4>2. ~(RankOf[c] >= Wild)
        BY <3>1, <4>1 DEF Wild, SwapHands
      <4> QED
        BY <4>2, CardsOK DEF CardsAssumption
    <3> HIDE DEF s
    <3>3. InPlay(u) /\ Seated(u) = Seated(s)
      BY <2>1, <3>2, ColorInPlay
    <3>4. SameRoster(s, u) /\ u.current = s.current
      BY <2>1 DEF State, SameRoster
    <3> HIDE DEF u
    <3>5. Turns(u, state', p)
      BY <2>1, <3>1, <3>3, ColoredEffectsTurns
    <3> QED
      BY <2>1, <3>4, <3>5, RosterChain, TurnsFrom
  <2> QED
    BY <1>2, <2>2, <2>3, <2>4
<1>3. CASE KeepHand(p) \/ \E q \in Players : ChoosePlayer(p, q)
  <2>1. \E choice : state' = [state EXCEPT !.phase = "ChoosingColor", !.pending = choice]
    BY <1>3 DEF KeepHand, ChoosePlayer
  <2> QED
    BY <1>1, <2>1, ChoosingStays
<1>4. ASSUME NEW color \in Colors, ChooseColor(p, color)
      PROVE  Turns(state, state', p)
  BY <1>4, ChooseColorTurns
<1> QED
  BY <1>2, <1>3, <1>4 DEF PlayedOn

-----------------------------------------------------------------------------
(* What people coming and going do to the seats *)

\* A late player takes a seat; nothing else at the table changes but the cards.
LEMMA JoinLateSeats ==
  ASSUME NEW p \in Players, Sound(state), JoinLate(p)
  PROVE  /\ p \notin Seated(state) /\ state.phase \in ActivePhases
         /\ state.current \in Seated(state) /\ CanJoin(state, p)
         /\ state'.order = SX!InsertAt(state.order, SeatOf(state.order, state.current)
                                         + (IF state.direction = -1 THEN 1 ELSE 0), p)
         /\ state'.status = [state.status EXCEPT ![p] = "Playing"]
         /\ Seated(state') = Seated(state) \cup {p}
         /\ state'.rules = state.rules /\ state'.placements = state.placements
         /\ state'.phase = state.phase /\ state'.current = state.current
         /\ state'.direction = state.direction
<1> DEFINE seat == SeatOf(state.order, state.current) + (IF state.direction = -1 THEN 1 ELSE 0)
           order == SX!InsertAt(state.order, seat, p)
           s == SeatTaken(state, p, order)
           t == state'
<1>1. /\ Held(state) /\ state \in State /\ state.phase \in ActivePhases
      /\ state.status[p] # "Playing" /\ p \notin Range(state.order)
      /\ state.order \in Seq(Players) /\ IsInjective(state.order)
      /\ state.current \in Range(state.order) /\ CanJoin(state, p)
  BY DEF JoinLate, CanJoin, Sound, Held, SeatOrder, Seated, State, TurnSeated
<1>2. seat \in 1 .. Len(state.order) + 1
  BY <1>1, SeatOfSeated, LenProperties
<1>3. /\ order \in Seq(Players) /\ IsInjective(order)
      /\ Range(order) = Range(state.order) \cup {p}
  <2> HIDE DEF seat
  <2> QED
    BY <1>1, <1>2, InsertedSeat
<1>4. t \in DrawTo(s, p, HandSize)
  BY <1>1 DEF JoinLate, State, SeatTaken
<1> HIDE DEF order
<1>5. Held(s) /\ Seated(s) = Seated(state) \cup {p}
  BY <1>1, <1>3, SeatTakenHeld
<1>6. /\ s.status = [state.status EXCEPT ![p] = "Playing"] /\ s.order = order
      /\ s.rules = state.rules /\ s.placements = state.placements
      /\ s.phase = state.phase /\ s.current = state.current /\ s.direction = state.direction
  BY <1>1 DEF SeatTaken, State
<1> HIDE DEF s
<1>7. SamePlay(s, t)
  BY <1>4, <1>5, EngineOK, DrawToHeld DEF EngineAssumption
<1>8. /\ t.status = s.status /\ t.order = s.order /\ t.rules = s.rules
      /\ t.placements = s.placements /\ t.phase = s.phase /\ t.current = s.current
      /\ t.direction = s.direction
  BY <1>7 DEF SamePlay
<1>9. Seated(t) = Seated(s)
  BY <1>8 DEF Seated
<1> QED
  BY <1>1, <1>5, <1>6, <1>8, <1>9 DEF Seated, order

\* The three ways to leave: from the lobby, as the last but one, and from a
\* game that goes on.
LeftLobby(p) ==
  /\ state.phase = "Lobby" /\ state'.phase = "Lobby" /\ state'.current = state.current
  /\ state'.placements = state.placements

LeftOneOver(p) ==
  /\ state.phase \in ActivePhases /\ state'.phase = "Finished" /\ state'.current = None
  /\ Len(state'.order) = 1
  /\ state'.placements = Append(state.placements, [player |-> state'.order[1], wentOut |-> FALSE])

LeftGoingOn(p) ==
  /\ state.phase \in ActivePhases /\ state'.phase \in {state.phase, "ChoosingPlayer"}
  /\ state'.phase # state.phase => state.phase = "ChoosingColor"
  /\ Len(state.order) > 2
  /\ state'.direction = state.direction /\ state'.placements = state.placements
  /\ state'.current = IF state.current = p THEN NextSeat(state, p, 1) ELSE state.current

LEMMA LeaveGameSeats ==
  ASSUME NEW p \in Players, Sound(state), LeaveGame(p)
  PROVE  /\ p \in Seated(state) /\ Seated(state') = Seated(state) \ {p}
         /\ state'.order = Without(state.order, p)
         /\ state'.status = [state.status EXCEPT ![p] = "Left"]
         /\ state'.rules = state.rules
         /\ LeftLobby(p) \/ LeftOneOver(p) \/ LeftGoingOn(p)
<1> DEFINE s == Vacated(state, p)
           next == NextSeat(state, p, 1)
           t == state'
<1>1. /\ p \in Seated(state) /\ Held(state) /\ state \in State
      /\ state.phase # "Finished"
      /\ state.pending # None => state.pending.actor # p
  BY OnTurnSeated DEF LeaveGame, Sound, Held
<1>2. /\ Held(s) /\ Seated(s) = Seated(state) \ {p} /\ s \in State
      /\ Len(s.order) = Len(state.order) - 1
  BY <1>1, VacatedHeld DEF Held
<1>3. /\ s.order = Without(state.order, p) /\ s.rules = state.rules
      /\ s.status = [state.status EXCEPT ![p] = "Left"]
      /\ s.placements = state.placements /\ s.current = state.current /\ s.phase = state.phase
      /\ s.direction = state.direction /\ s.pending = state.pending
  BY <1>1 DEF Vacated, State
<1>4. PICK n \in Nat : n = Len(state.order)
  BY <1>1, LenProperties DEF State
<1>5. \A u : u.order = s.order => Seated(u) = Seated(s)
  BY DEF Seated
<1>6. state.phase # "Lobby" => state.phase \in ActivePhases /\ n >= 2
  BY <1>1, <1>4 DEF State, Phases, ActivePhases, Sound, TurnSeated
<1>7. CASE state.phase = "Lobby" /\ t = s
  <2> HIDE DEF s
  <2> QED
    BY <1>1, <1>2, <1>3, <1>7 DEF LeftLobby
<1>8. CASE /\ state.phase # "Lobby" /\ Len(s.order) <= 1
           /\ t = Finish(IF Len(s.order) = 1 THEN RecordLast(s) ELSE s, "Departure")
  <2>1. Len(s.order) = 1
    <3>1. Len(s.order) = n - 1 /\ n - 1 <= 1 /\ n >= 2
      BY <1>2, <1>4, <1>6, <1>8
    <3>2. n - 1 = 1
      BY <3>1
    <3> QED
      BY <3>1, <3>2
  <2> HIDE DEF s
  <2>2. t = Finish(RecordLast(s), "Departure")
    BY <1>8, <2>1
  <2>3. /\ t.order = s.order /\ t.rules = s.rules /\ t.status = s.status
        /\ t.phase = "Finished" /\ t.current = None
        /\ t.placements = Append(s.placements, [player |-> s.order[1], wentOut |-> FALSE])
    BY <1>2, <2>2 DEF Finish, Unchallenged, RecordLast, State
  <2> QED
    BY <1>1, <1>2, <1>3, <1>5, <1>6, <1>8, <2>1, <2>3 DEF LeftOneOver
<1>9. CASE /\ state.phase # "Lobby" /\ Len(s.order) > 1
           /\ t = PassSeat(DropBluff(Retarget(ReopenSwap(s, p), p), p), p, next)
  <2>1. Len(state.order) > 2
    <3>1. n - 1 > 1
      BY <1>2, <1>4, <1>9
    <3> QED
      BY <1>4, <3>1
  <2>2. Gap(s, p)
    BY <1>1, <1>6, <1>9, <2>1, VacatedGap
  <2>3. Departed(s, t, p, next)
    <3> HIDE DEF s, next
    <3> QED
      BY <1>9, <2>2, DepartedSteps
  <2> HIDE DEF s, next
  <2>4. /\ t.order = s.order /\ t.rules = s.rules /\ t.status = s.status
        /\ t.placements = s.placements /\ t.direction = s.direction
        /\ t.current = IF s.current = p THEN next ELSE s.current
        /\ t.phase \in {s.phase, "ChoosingPlayer"}
        /\ t.phase # s.phase => s.pending # None
    BY <2>3 DEF Departed, SameOuter, SameRecord
  <2>5. state.pending # None => state.phase = "ChoosingColor"
    BY DEF Sound, ChoiceSeated
  <2> QED
    BY <1>1, <1>2, <1>3, <1>5, <1>6, <1>9, <2>1, <2>4, <2>5 DEF LeftGoingOn, next
<1> QED
  BY <1>7, <1>8, <1>9 DEF LeaveGame

\* Cards in hand decide who is out, never who is in or who has left.
LEMMA TurnsKeepOrder ==
  ASSUME state \in State, state' \in State, NEW p \in Players, Turns(state, state', p)
  PROVE  TurnOrderKept
<1>1. \A q \in Players : state'.status[q] \in {state.status[q], "WentOut"}
  <2>1. state'.status = state.status \/ state'.status = [state.status EXCEPT ![p] = "WentOut"]
    BY DEF Turns, Stays, SameRoster, Outs
  <2> QED
    BY <2>1 DEF State
<1> QED
  BY <1>1 DEF TurnOrderKept

LEMMA NextKeepsOrder ==
  ASSUME Sound(state), Debts(state), Valid(state), Sound(state'), Next
  PROVE  TurnOrderKept
<1>1. state \in State /\ state' \in State /\ SeatOrder(state) /\ SeatOrder(state')
  BY DEF Sound, Held
<1>2. state.phase = "Lobby" \/ state'.phase = "Finished" => TurnOrderKept
  BY DEF TurnOrderKept, ActivePhases
<1>3. CASE \/ \E rules \in RuleSets : SetRules(rules)
           \/ \E p \in Players : JoinLobby(p) \/ StartGame(p)
  BY <1>2, <1>3 DEF SetRules, JoinLobby, StartGame
<1>4. CASE CancelGame
  BY <1>1, <1>2, <1>4, FinishRoster DEF CancelGame
<1>5. ASSUME NEW p \in Players, JoinLate(p)
      PROVE  TurnOrderKept
  <2>1. /\ p \notin Seated(state) /\ state.current \in Seated(state)
        /\ state'.order = SX!InsertAt(state.order, SeatOf(state.order, state.current)
                                        + (IF state.direction = -1 THEN 1 ELSE 0), p)
        /\ state'.status = [state.status EXCEPT ![p] = "Playing"]
        /\ state'.current = state.current /\ state'.direction = state.direction
    BY <1>5, JoinLateSeats
  <2>2. Upcoming(state') = Append(Upcoming(state), p)
    BY <1>1, <2>1, LateUpcoming
  <2>3. \A q \in Players : q # p => state'.status[q] = state.status[q]
    BY <1>1, <2>1 DEF State
  <2>4. state'.status[p] = "Playing"
    BY <1>1, <2>1 DEF State
  <2> QED
    BY <2>2, <2>3, <2>4 DEF TurnOrderKept
<1>6. ASSUME NEW p \in Players, LeaveGame(p), state'.phase \in ActivePhases,
             state.phase \in ActivePhases
      PROVE  TurnOrderKept
  <2>1. /\ p \in Seated(state) /\ state'.order = Without(state.order, p)
        /\ state'.status = [state.status EXCEPT ![p] = "Left"]
        /\ LeftGoingOn(p)
    BY <1>6, LeaveGameSeats DEF LeftLobby, LeftOneOver, ActivePhases
  <2>2. PICK n \in Nat : n = Len(state.order) /\ n >= 2
    <3>1. PICK n \in Nat : n = Len(state.order)
      BY <1>1, LenProperties DEF State
    <3>2. n > 2
      BY <2>1, <3>1 DEF LeftGoingOn
    <3> QED
      BY <3>1, <3>2
  <2>3. state.current \in Seated(state) /\ state'.current \in Seated(state')
    BY <1>6 DEF Sound, TurnSeated
  <2>4. Upcoming(state') = SX!RemoveFirst(Upcoming(state), p)
    BY <1>1, <2>1, <2>2, <2>3, DepartedUpcoming DEF LeftGoingOn
  <2>5. \A q \in Players : q # p => state'.status[q] = state.status[q]
    BY <1>1, <2>1 DEF State
  <2>6. state'.status[p] = "Left"
    BY <1>1, <2>1 DEF State
  <2> QED
    BY <2>4, <2>5, <2>6 DEF TurnOrderKept
<1>7. ASSUME NEW p \in Players, DrewOn(p) \/ PlayedOn(p)
      PROVE  TurnOrderKept
  <2>1. Turns(state, state', p)
    BY <1>7, DrewOnTurns, PlayedOnTurns
  <2> QED
    BY <1>1, <2>1, TurnsKeepOrder
<1>8. \A p \in Players : LeaveGame(p) => TurnOrderKept
  BY <1>6 DEF TurnOrderKept
<1> QED
  BY <1>3, <1>4, <1>5, <1>7, <1>8 DEF Next, DrewOn, PlayedOn

\* People coming and going never disturb the turn order of the others
\* (join and leave of game.go).
THEOREM SeatingKeepsOrder == Spec => SeatingKeepsTurnOrder
<1>1. ValidInv /\ ValidInv' /\ [Next]_vars => TurnOrderKept
  <2> SUFFICES ASSUME ValidInv, ValidInv', [Next]_vars
               PROVE  TurnOrderKept
    OBVIOUS
  <2>1. Sound(state) /\ Debts(state) /\ Valid(state)
    BY ValidInvIsValid
  <2>2. Sound(state')
    BY EngineInvIsSound DEF ValidInv, DebtInv, EngineInv, Sound, Held, TypeOK
  <2>3. CASE UNCHANGED vars
    BY <2>3 DEF TurnOrderKept, vars
  <2> QED
    BY <2>1, <2>2, <2>3, NextKeepsOrder
<1> QED
  BY <1>1, ValidInvariant, PTL DEF Spec, SeatingKeepsTurnOrder

-----------------------------------------------------------------------------
(* The round under the cards *)

\* A game of which everybody who has a place went out, and one that ended with
\* x left alone.
AllOut(placements) == \A i \in DOMAIN placements : placements[i].wentOut
Names(placements) == [i \in DOMAIN placements |-> placements[i].player]

StageOf(s) ==
  CASE s.phase = "Lobby" -> "Lobby"
    [] s.phase = "Finished" -> "Over"
    [] OTHER -> "Playing"

Choosing(s) == s.phase \in {"ChoosingColor", "ChoosingPlayer"}
EndsAtFirst(s) == s.rules.EndPolicy = "FirstWinner"

RoundIn(stage, choosing, firstWins, roster, seated, turn, finishers, last) ==
  [ stage |-> stage, choosing |-> choosing, firstWins |-> firstWins, roster |-> roster,
    seated |-> seated, turn |-> turn, finishers |-> finishers, last |-> last ]

RoundWith(s, finishers, last) ==
  RoundIn(StageOf(s), Choosing(s), EndsAtFirst(s), Participants(s), Seated(s), s.current,
          finishers, last)

LEMMA RoundFields ==
  ASSUME NEW g, NEW c, NEW f, NEW o, NEW d, NEW u, NEW n, NEW l,
         NEW r, r = RoundIn(g, c, f, o, d, u, n, l)
  PROVE  /\ r.stage = g /\ r.choosing = c /\ r.firstWins = f /\ r.roster = o
         /\ r.seated = d /\ r.turn = u /\ r.finishers = n /\ r.last = l
BY DEF RoundIn

\* The changes of a round.
Choose(r, x) == [r EXCEPT !.choosing = x]
TurnTo(r, x) == [r EXCEPT !.turn = x]
PlayFrom(r, x, y) == [r EXCEPT !.choosing = x, !.turn = y]
Under(r, x) == [r EXCEPT !.firstWins = x]
Take(r, x, y) == [r EXCEPT !.roster = x, !.seated = y]
Rest(r, x) == [r EXCEPT !.seated = x]
RestFrom(r, x, y) == [r EXCEPT !.seated = x, !.turn = y]
Open(r, x, y, z) == [r EXCEPT !.stage = x, !.turn = y, !.choosing = z]
Close(r, x, y, z) == [r EXCEPT !.stage = x, !.choosing = y, !.turn = None, !.last = z]
Retire(r, x, y, z) == [r EXCEPT !.finishers = x, !.seated = y, !.choosing = z]

LEMMA ChooseEdit ==
  ASSUME NEW g, NEW c, NEW f, NEW o, NEW d, NEW u, NEW n, NEW l, NEW x
  PROVE  Choose(RoundIn(g, c, f, o, d, u, n, l), x) = RoundIn(g, x, f, o, d, u, n, l)
BY DEF RoundIn, Choose

LEMMA TurnToEdit ==
  ASSUME NEW g, NEW c, NEW f, NEW o, NEW d, NEW u, NEW n, NEW l, NEW x
  PROVE  TurnTo(RoundIn(g, c, f, o, d, u, n, l), x) = RoundIn(g, c, f, o, d, x, n, l)
BY DEF RoundIn, TurnTo

LEMMA PlayFromEdit ==
  ASSUME NEW g, NEW c, NEW f, NEW o, NEW d, NEW u, NEW n, NEW l, NEW x, NEW y
  PROVE  PlayFrom(RoundIn(g, c, f, o, d, u, n, l), x, y) = RoundIn(g, x, f, o, d, y, n, l)
<1> DEFINE r == RoundIn(g, c, f, o, d, u, n, l)
<1>1. PICK m1 : m1 = [r EXCEPT !.choosing = x]
  OBVIOUS
<1>2. m1 = RoundIn(g, x, f, o, d, u, n, l)
  BY <1>1 DEF RoundIn
<1>3. [m1 EXCEPT !.turn = y] = RoundIn(g, x, f, o, d, y, n, l)
  BY <1>2 DEF RoundIn
<1> HIDE DEF r
<1>4. PlayFrom(r, x, y) = [m1 EXCEPT !.turn = y]
  BY <1>1 DEF PlayFrom
<1> QED
  BY <1>3, <1>4 DEF r

LEMMA UnderEdit ==
  ASSUME NEW g, NEW c, NEW f, NEW o, NEW d, NEW u, NEW n, NEW l, NEW x
  PROVE  Under(RoundIn(g, c, f, o, d, u, n, l), x) = RoundIn(g, c, x, o, d, u, n, l)
BY DEF RoundIn, Under

LEMMA TakeEdit ==
  ASSUME NEW g, NEW c, NEW f, NEW o, NEW d, NEW u, NEW n, NEW l, NEW x, NEW y
  PROVE  Take(RoundIn(g, c, f, o, d, u, n, l), x, y) = RoundIn(g, c, f, x, y, u, n, l)
<1> DEFINE r == RoundIn(g, c, f, o, d, u, n, l)
<1>1. PICK m1 : m1 = [r EXCEPT !.roster = x]
  OBVIOUS
<1>2. m1 = RoundIn(g, c, f, x, d, u, n, l)
  BY <1>1 DEF RoundIn
<1>3. [m1 EXCEPT !.seated = y] = RoundIn(g, c, f, x, y, u, n, l)
  BY <1>2 DEF RoundIn
<1> HIDE DEF r
<1>4. Take(r, x, y) = [m1 EXCEPT !.seated = y]
  BY <1>1 DEF Take
<1> QED
  BY <1>3, <1>4 DEF r

LEMMA RestEdit ==
  ASSUME NEW g, NEW c, NEW f, NEW o, NEW d, NEW u, NEW n, NEW l, NEW x
  PROVE  Rest(RoundIn(g, c, f, o, d, u, n, l), x) = RoundIn(g, c, f, o, x, u, n, l)
BY DEF RoundIn, Rest

LEMMA RestFromEdit ==
  ASSUME NEW g, NEW c, NEW f, NEW o, NEW d, NEW u, NEW n, NEW l, NEW x, NEW y
  PROVE  RestFrom(RoundIn(g, c, f, o, d, u, n, l), x, y) = RoundIn(g, c, f, o, x, y, n, l)
<1> DEFINE r == RoundIn(g, c, f, o, d, u, n, l)
<1>1. PICK m1 : m1 = [r EXCEPT !.seated = x]
  OBVIOUS
<1>2. m1 = RoundIn(g, c, f, o, x, u, n, l)
  BY <1>1 DEF RoundIn
<1>3. [m1 EXCEPT !.turn = y] = RoundIn(g, c, f, o, x, y, n, l)
  BY <1>2 DEF RoundIn
<1> HIDE DEF r
<1>4. RestFrom(r, x, y) = [m1 EXCEPT !.turn = y]
  BY <1>1 DEF RestFrom
<1> QED
  BY <1>3, <1>4 DEF r

LEMMA OpenEdit ==
  ASSUME NEW g, NEW c, NEW f, NEW o, NEW d, NEW u, NEW n, NEW l, NEW x, NEW y, NEW z
  PROVE  Open(RoundIn(g, c, f, o, d, u, n, l), x, y, z) = RoundIn(x, z, f, o, d, y, n, l)
<1> DEFINE r == RoundIn(g, c, f, o, d, u, n, l)
<1>1. PICK m1 : m1 = [r EXCEPT !.stage = x]
  OBVIOUS
<1>2. m1 = RoundIn(x, c, f, o, d, u, n, l)
  BY <1>1 DEF RoundIn
<1>3. PICK m2 : m2 = [m1 EXCEPT !.turn = y]
  OBVIOUS
<1>4. m2 = RoundIn(x, c, f, o, d, y, n, l)
  BY <1>2, <1>3 DEF RoundIn
<1>5. [m2 EXCEPT !.choosing = z] = RoundIn(x, z, f, o, d, y, n, l)
  BY <1>4 DEF RoundIn
<1> HIDE DEF r
<1>6. Open(r, x, y, z) = [m2 EXCEPT !.choosing = z]
  BY <1>1, <1>3 DEF Open
<1> QED
  BY <1>5, <1>6 DEF r

LEMMA RetireEdit ==
  ASSUME NEW g, NEW c, NEW f, NEW o, NEW d, NEW u, NEW n, NEW l, NEW x, NEW y, NEW z
  PROVE  Retire(RoundIn(g, c, f, o, d, u, n, l), x, y, z) = RoundIn(g, z, f, o, y, u, x, l)
<1> DEFINE r == RoundIn(g, c, f, o, d, u, n, l)
<1>1. PICK m1 : m1 = [r EXCEPT !.finishers = x]
  OBVIOUS
<1>2. m1 = RoundIn(g, c, f, o, d, u, x, l)
  BY <1>1 DEF RoundIn
<1>3. PICK m2 : m2 = [m1 EXCEPT !.seated = y]
  OBVIOUS
<1>4. m2 = RoundIn(g, c, f, o, y, u, x, l)
  BY <1>2, <1>3 DEF RoundIn
<1>5. [m2 EXCEPT !.choosing = z] = RoundIn(g, z, f, o, y, u, x, l)
  BY <1>4 DEF RoundIn
<1> HIDE DEF r
<1>6. Retire(r, x, y, z) = [m2 EXCEPT !.choosing = z]
  BY <1>1, <1>3 DEF Retire
<1> QED
  BY <1>5, <1>6 DEF r

LEMMA CloseEdit ==
  ASSUME NEW g, NEW c, NEW f, NEW o, NEW d, NEW u, NEW n, NEW l, NEW x, NEW y, NEW z
  PROVE  Close(RoundIn(g, c, f, o, d, u, n, l), x, y, z) = RoundIn(x, y, f, o, d, None, n, z)
<1> DEFINE r == RoundIn(g, c, f, o, d, u, n, l)
<1>1. PICK m1 : m1 = [r EXCEPT !.stage = x]
  OBVIOUS
<1>2. m1 = RoundIn(x, c, f, o, d, u, n, l)
  BY <1>1 DEF RoundIn
<1>3. PICK m2 : m2 = [m1 EXCEPT !.choosing = y]
  OBVIOUS
<1>4. m2 = RoundIn(x, y, f, o, d, u, n, l)
  BY <1>2, <1>3 DEF RoundIn
<1>5. PICK m3 : m3 = [m2 EXCEPT !.turn = None]
  OBVIOUS
<1>6. m3 = RoundIn(x, y, f, o, d, None, n, l)
  BY <1>4, <1>5 DEF RoundIn
<1>7. [m3 EXCEPT !.last = z] = RoundIn(x, y, f, o, d, None, n, z)
  BY <1>6 DEF RoundIn
<1> HIDE DEF r
<1>8. Close(r, x, y, z) = [m3 EXCEPT !.last = z]
  BY <1>1, <1>3, <1>5 DEF Close
<1> QED
  BY <1>7, <1>8 DEF r

LEMMA PlainRound ==
  ASSUME NEW s, AllOut(s.placements)
  PROVE  RoundOf(s) = RoundWith(s, Names(s.placements), None)
<1>1. {i \in DOMAIN s.placements : ~s.placements[i].wentOut} = {}
  BY DEF AllOut
<1>2. DOMAIN s.placements \ {} = DOMAIN s.placements
  OBVIOUS
<1> QED
  BY <1>1, <1>2 DEF RoundOf, RoundWith, RoundIn, StageOf, Choosing, EndsAtFirst, Names

\* One more place.
LEMMA OneMorePlaced ==
  ASSUME NEW placements \in Seq(Placement), NEW x \in Placement
  PROVE  LET after == Append(placements, x)
             n == Len(placements)
         IN  /\ after \in Seq(Placement) /\ n \in Nat
             /\ DOMAIN placements = 1 .. n /\ DOMAIN after = 1 .. n + 1
             /\ Len(after) = n + 1 /\ after[n + 1] = x
             /\ \A i \in 1 .. n : after[i] = placements[i] /\ i \in 1 .. n + 1
             /\ n + 1 \notin 1 .. n /\ n + 1 \in 1 .. n + 1
             /\ \A i \in 1 .. n + 1 : i \in 1 .. n \/ i = n + 1
<1> DEFINE after == Append(placements, x)
<1>1. PICK n \in Nat : n = Len(placements)
  BY LenProperties
<1>2. /\ after \in Seq(Placement) /\ Len(after) = n + 1 /\ after[n + 1] = x
      /\ \A i \in 1 .. n : after[i] = placements[i]
  BY <1>1, AppendProperties
<1>3. DOMAIN placements = 1 .. n /\ DOMAIN after = 1 .. n + 1
  BY <1>1, <1>2, LenProperties
<1> HIDE DEF after
<1>4. /\ n + 1 \notin 1 .. n /\ n + 1 \in 1 .. n + 1
      /\ \A i \in 1 .. n : i \in 1 .. n + 1
      /\ \A i \in 1 .. n + 1 : i \in 1 .. n \/ i = n + 1
  OBVIOUS
<1> QED
  BY <1>1, <1>2, <1>3, <1>4 DEF after

LEMMA OutOneMore ==
  ASSUME NEW placements \in Seq(Placement), AllOut(placements), NEW p \in Players
  PROVE  LET after == Append(placements, [player |-> p, wentOut |-> TRUE])
         IN  /\ after \in Seq(Placement) /\ AllOut(after)
             /\ Names(after) = Append(Names(placements), p)
<1> DEFINE x == [player |-> p, wentOut |-> TRUE]
           after == Append(placements, x)
           names == Names(placements)
<1>1. x \in Placement /\ x.wentOut /\ x.player = p
  BY DEF Placement
<1> HIDE DEF x
<1>2. PICK n \in Nat :
        /\ after \in Seq(Placement) /\ n = Len(placements)
        /\ DOMAIN placements = 1 .. n /\ DOMAIN after = 1 .. n + 1
        /\ after[n + 1] = x
        /\ \A i \in 1 .. n : after[i] = placements[i]
        /\ n + 1 \notin 1 .. n
        /\ \A i \in 1 .. n + 1 : i \in 1 .. n \/ i = n + 1
  BY <1>1, OneMorePlaced
<1> HIDE DEF after
<1>3. AllOut(after)
  BY <1>1, <1>2 DEF AllOut
<1>4. \A i \in 1 .. n : placements[i].player \in Players
  <2>1. \A i \in 1 .. n : placements[i] \in Placement
    BY <1>2, ElementOfSeq
  <2> QED
    BY <2>1 DEF Placement
<1>5. names \in [1 .. n -> Players]
  BY <1>2, <1>4 DEF Names
<1>6. names \in Seq(Players) /\ Len(names) = n
  BY <1>5, IsASeq, LenProperties
<1> HIDE DEF names
<1>7. /\ Append(names, p) \in Seq(Players) /\ Len(Append(names, p)) = n + 1
      /\ Append(names, p)[n + 1] = p
      /\ \A i \in 1 .. n : Append(names, p)[i] = names[i]
  BY <1>6, AppendProperties
<1>8. Append(names, p) = [i \in 1 .. n + 1 |-> Append(names, p)[i]]
  BY <1>7, LenProperties
<1>9. \A i \in 1 .. n : names[i] = placements[i].player
  BY <1>2 DEF names, Names
<1>10. ASSUME NEW i \in 1 .. n + 1
       PROVE  after[i].player = Append(names, p)[i]
  BY <1>1, <1>2, <1>7, <1>9
<1>11. Names(after) = [i \in 1 .. n + 1 |-> after[i].player]
  BY <1>2 DEF Names
<1>12. Names(after) = Append(names, p)
  BY <1>8, <1>10, <1>11
<1> QED
  BY <1>2, <1>3, <1>12 DEF after, names, x

LEMMA LastRound ==
  ASSUME NEW s, NEW placements \in Seq(Placement), AllOut(placements), NEW p \in Players,
         s.placements = Append(placements, [player |-> p, wentOut |-> FALSE])
  PROVE  RoundOf(s) = RoundWith(s, Names(placements), p)
<1> DEFINE x == [player |-> p, wentOut |-> FALSE]
           after == Append(placements, x)
           left == {i \in DOMAIN after : ~after[i].wentOut}
<1>1. x \in Placement /\ ~x.wentOut /\ x.player = p
  BY DEF Placement
<1>2. s.placements = after
  OBVIOUS
<1> HIDE DEF x
<1>3. PICK n \in Nat :
        /\ after \in Seq(Placement) /\ n = Len(placements)
        /\ DOMAIN placements = 1 .. n /\ DOMAIN after = 1 .. n + 1
        /\ Len(after) = n + 1 /\ after[n + 1] = x
        /\ \A i \in 1 .. n : after[i] = placements[i] /\ i \in 1 .. n + 1
        /\ n + 1 \notin 1 .. n /\ n + 1 \in 1 .. n + 1
        /\ \A i \in 1 .. n + 1 : i \in 1 .. n \/ i = n + 1
  BY <1>1, OneMorePlaced
<1> HIDE DEF after
<1>4. left = {n + 1}
  BY <1>1, <1>3 DEF AllOut
<1>5. DOMAIN after \ left = 1 .. n
  BY <1>3, <1>4
<1> HIDE DEF left
<1>6. [i \in DOMAIN after \ left |-> after[i].player] = Names(placements)
  BY <1>3, <1>5 DEF Names
<1>7. left # {} /\ SX!Last(after).player = p
  BY <1>1, <1>3, <1>4 DEF SX!Last
<1>8. RoundOf(s) = RoundWith(s, [i \in DOMAIN after \ left |-> after[i].player],
                             IF left # {} THEN SX!Last(after).player ELSE None)
  BY <1>2 DEF RoundOf, RoundWith, RoundIn, StageOf, Choosing, EndsAtFirst, left
<1> QED
  BY <1>6, <1>7, <1>8

\* As many people are seated as there are seats.
LEMMA SeatCount ==
  ASSUME NEW s \in State, SeatOrder(s)
  PROVE  IsFiniteSet(Seated(s)) /\ Cardinality(Seated(s)) = Len(s.order)
<1>1. PICK n \in Nat : n = Len(s.order) /\ DOMAIN s.order = 1 .. n
  BY LenProperties DEF State
<1> DEFINE f == s.order
<1>2. f \in [1 .. n -> Seated(s)] /\ \A x \in Seated(s) : \E i \in 1 .. n : f[i] = x
  <2>1. f \in [1 .. n -> Players]
    BY <1>1, LenProperties DEF State
  <2> QED
    BY <1>1, <2>1 DEF Seated, Range
<1>3. f \in Bijection(1 .. n, Seated(s))
  BY <1>1, <1>2 DEF Bijection, Injection, Surjection, IsInjective, SeatOrder
<1>4. ExistsBijection(1 .. n, Seated(s))
  BY <1>3 DEF ExistsBijection
<1>5. IsFiniteSet(1 .. n) /\ Cardinality(1 .. n) = n
  <2>1. PICK one \in Int : one = 1
    OBVIOUS
  <2>2. IsFiniteSet(one .. n) /\ Cardinality(one .. n) = IF one > n THEN 0 ELSE n - one + 1
    BY FS_Interval
  <2>3. (IF one > n THEN 0 ELSE n - one + 1) = n
    BY <2>1
  <2> QED
    BY <2>1, <2>2, <2>3
<1> QED
  BY <1>1, <1>4, <1>5, FS_Bijection

\* A game under way: nobody has been left alone.
LEMMA OngoingRound ==
  ASSUME NEW s \in State, Ongoing(s)
  PROVE  /\ AllOut(s.placements) /\ s.placements \in Seq(Placement)
         /\ RoundOf(s) = RoundWith(s, Names(s.placements), None)
<1>1. AllOut(s.placements)
  BY DEF Ongoing, Placed, AllOut
<1> QED
  BY <1>1, PlainRound DEF State

-----------------------------------------------------------------------------
(* The steps of the round *)

\* A step on a table whose seats, places and rules stay as they are.
LEMMA StaysRound ==
  ASSUME NEW s \in State, Ongoing(s), s.phase \in ActivePhases, NEW t \in State, Stays(s, t),
         t.current \in Seated(s)
  PROVE  RoundOf(t) \in Round!Continued(RoundOf(s))
<1> DEFINE r == RoundWith(s, Names(s.placements), None)
<1>1. AllOut(s.placements) /\ RoundOf(s) = r
  BY OngoingRound
<1>2. RoundOf(t) = RoundWith(t, Names(s.placements), None)
  BY <1>1, PlainRound DEF Stays, SameRoster
<1>3. /\ Participants(t) = Participants(s) /\ Seated(t) = Seated(s)
      /\ EndsAtFirst(t) = EndsAtFirst(s)
      /\ StageOf(s) = "Playing" /\ StageOf(t) = "Playing"
  BY DEF Stays, SameRoster, Participants, Seated, StageOf, ActivePhases, EndsAtFirst
<1> DEFINE c == Choosing(s)
           f == EndsAtFirst(s)
           names == Names(s.placements)
           old == Participants(s)
<1>4. r = RoundIn("Playing", c, f, old, Seated(s), s.current, names, None)
  BY <1>3 DEF RoundWith
<1>7. RoundOf(t) = RoundIn("Playing", Choosing(t), f, old, Seated(s), t.current, names, None)
  BY <1>2, <1>3 DEF RoundWith
<1> HIDE DEF r, c, f, names, old
<1>5. CASE t.phase = "TakingTurn"
  <2>1. Choosing(t) = FALSE
    BY <1>5 DEF Choosing
  <2>2. RoundOf(t) = PlayFrom(r, FALSE, t.current)
    <3>1. PICK no : no = FALSE
      OBVIOUS
    <3>2. RoundOf(t) = RoundIn("Playing", no, f, old, Seated(s), t.current, names, None)
      BY <1>7, <2>1, <3>1
    <3>3. RoundOf(t) = PlayFrom(r, no, t.current)
      BY <1>4, <3>2, PlayFromEdit
    <3> QED
      BY <3>1, <3>3
  <2>3. r.seated = Seated(s)
    BY <1>4, RoundFields
  <2>4. RoundOf(t) \in {[r EXCEPT !.choosing = FALSE, !.turn = x] : x \in r.seated}
    BY <2>2, <2>3, Zenon DEF PlayFrom
  <2> QED
    BY <1>1, <2>4, Zenon DEF Round!Continued
<1>6. CASE t.phase # "TakingTurn"
  <2>1. t.phase \in {"ChoosingColor", "ChoosingPlayer"} /\ t.current = s.current
    BY <1>6 DEF Stays, ActivePhases
  <2>2. Choosing(t) = TRUE
    BY <2>1 DEF Choosing
  <2>3. RoundOf(t) = Choose(r, TRUE)
    <3>1. PICK yes : yes = TRUE
      OBVIOUS
    <3>2. RoundOf(t) = RoundIn("Playing", yes, f, old, Seated(s), s.current, names, None)
      BY <1>7, <2>1, <2>2, <3>1
    <3>3. RoundOf(t) = Choose(r, yes)
      BY <1>4, <3>2, ChooseEdit
    <3> QED
      BY <3>1, <3>3
  <2>4. RoundOf(t) \in {[r EXCEPT !.choosing = TRUE]}
    BY <2>3, Zenon DEF Choose
  <2> QED
    BY <1>1, <2>4, Zenon DEF Round!Continued
<1> QED
  BY <1>5, <1>6

LEMMA OutsRound ==
  ASSUME NEW s, Held(s), Ongoing(s), s.phase \in ActivePhases, Len(s.order) >= 2,
         NEW p \in Seated(s), p = s.current, NEW t, Held(t), TurnSeated(t), Outs(s, t, p)
  PROVE  RoundOf(t) \in Round!WentOut(RoundOf(s))
<1> DEFINE names == Names(s.placements)
           r == RoundWith(s, names, None)
           rest == Seated(s) \ {p}
           out == Retire(r, Append(names, p), rest, FALSE)
           first == EndsAtFirst(s)
<1>1. /\ s \in State /\ t \in State /\ SeatOrder(s) /\ SeatOrder(t) /\ p \in Players
      /\ s.status[p] = "Playing"
  BY DEF Held, SeatOrder
<1>2. /\ AllOut(s.placements) /\ s.placements \in Seq(Placement) /\ RoundOf(s) = r
  BY <1>1, OngoingRound
<1>3. /\ WithOut(s, p) \in Seq(Placement) /\ AllOut(WithOut(s, p))
      /\ Names(WithOut(s, p)) = Append(names, p)
  BY <1>1, <1>2, OutOneMore DEF WithOut
<1>4. /\ EndsAtFirst(t) = first /\ t.order = Without(s.order, p)
      /\ t.status = [s.status EXCEPT ![p] = "WentOut"]
  BY DEF Outs, EndsAtFirst
<1>5. Participants(t) = Participants(s)
  BY <1>1, <1>4 DEF Participants, State
<1>6. Seated(t) = rest
  BY <1>1, <1>4, WithoutSeat DEF Seated, SeatOrder, State
<1>7. Cardinality(rest) = Len(Without(s.order, p))
  BY <1>1, <1>4, <1>6, SeatCount
<1>8. StageOf(s) = "Playing"
  BY DEF StageOf, ActivePhases
<1>0. PICK no : no = FALSE
  OBVIOUS
<1> DEFINE c == Choosing(s)
           seats == Seated(s)
           old == Participants(s)
<1>9. r = RoundIn("Playing", c, first, old, seats, p, names, None)
  BY <1>8 DEF RoundWith
<1> HIDE DEF r, c, first, names, seats, old
<1>10. /\ Round!WentOut(r) =
            IF first THEN {Round!Over(out, None)}
            ELSE IF Cardinality(rest) = 1 THEN {Round!Over(out, l) : l \in rest}
            ELSE {TurnTo(out, l) : l \in rest}
  <2>1. Round!Cardinality(rest) = Cardinality(rest)
    BY DEF Round!Cardinality, Cardinality
  <2>2. r.firstWins = first /\ r.turn = p /\ r.seated = seats /\ r.finishers = names
    BY <1>9, RoundFields
  <2>3. [r EXCEPT !.finishers = Append(@, r.turn), !.seated = rest, !.choosing = FALSE] = out
    BY <2>2 DEF Retire
  <2>4. r.seated \ {r.turn} = rest
    BY <2>2 DEF seats
  <2> HIDE DEF rest, out
  <2>5. Round!WentOut(r) =
          IF first THEN {Round!Over(out, None)}
          ELSE IF Cardinality(rest) = 1 THEN {Round!Over(out, l) : l \in rest}
          ELSE {[out EXCEPT !.turn = l] : l \in rest}
    BY <2>1, <2>2, <2>3, <2>4, Zenon DEF Round!WentOut
  <2> QED
    BY <2>5, Zenon DEF TurnTo
<1>11. out = RoundIn("Playing", no, first, old, rest, p, Append(names, p), None)
  <2>1. out = Retire(r, Append(names, p), rest, no)
    BY <1>0
  <2> HIDE DEF out, rest
  <2> QED
    BY <1>9, <2>1, RetireEdit
<1> HIDE DEF out
<1>12. CASE LastOneOut(s, p)
  <2>1. t.phase = "Finished" /\ t.current = None /\ StageOf(t) = "Over"
    BY <1>12 DEF Outs, StageOf
  <2>2. Choosing(t) = FALSE
    BY <2>1 DEF Choosing
  <2>3. ASSUME NEW l, RoundOf(t) = RoundWith(t, Append(names, p), l)
        PROVE  RoundOf(t) = Round!Over(out, l)
    <3>1. RoundOf(t) = RoundIn("Over", no, first, old, rest, None, Append(names, p), l)
      BY <1>0, <1>4, <1>5, <1>6, <2>1, <2>2, <2>3 DEF RoundWith, first, old
    <3>2. PICK over : over = "Over"
      OBVIOUS
    <3>3. RoundOf(t) = RoundIn(over, no, first, old, rest, None, Append(names, p), l)
      BY <3>1, <3>2
    <3> HIDE DEF rest
    <3>4. RoundOf(t) = Close(out, over, no, l)
      BY <1>11, <3>3, CloseEdit
    <3> QED
      BY <1>0, <3>2, <3>4 DEF Close, Round!Over
  <2>4. CASE first
    <3>1. t.placements = WithOut(s, p)
      BY <1>12, <2>4 DEF Outs, first, EndsAtFirst
    <3>2. RoundOf(t) = RoundWith(t, Append(names, p), None)
      BY <1>3, <3>1, PlainRound
    <3> QED
      BY <1>2, <1>10, <2>3, <2>4, <3>2
  <2>5. CASE ~first
    <3>1. s.rules.EndPolicy = "Placements"
      BY <1>1, <2>5, CardsOK DEF first, EndsAtFirst, State, CardsAssumption, Rules, EndPolicies
    <3>2. Len(Without(s.order, p)) = 1
      BY <1>12, <2>5 DEF LastOneOut, first, EndsAtFirst
    <3> DEFINE l == Without(s.order, p)[1]
    <3>3. t.placements = Append(WithOut(s, p), [player |-> l, wentOut |-> FALSE])
      BY <1>12, <3>1 DEF Outs, WithLast
    <3>4. l \in rest
      <4>1. t.order \in Seq(Players) /\ Len(t.order) = 1
        BY <1>1, <1>4, <3>2 DEF State
      <4>2. t.order[1] \in Range(t.order)
        BY <4>1, LenProperties DEF Range
      <4> QED
        BY <1>4, <1>6, <4>2 DEF Seated
    <3> HIDE DEF l
    <3>5. l \in Players
      BY <1>1, <3>4 DEF SeatOrder
    <3>6. RoundOf(t) = RoundWith(t, Append(names, p), l)
      BY <1>3, <3>3, <3>5, LastRound
    <3>7. RoundOf(t) = Round!Over(out, l)
      BY <2>3, <3>6
    <3> QED
      BY <1>2, <1>7, <1>10, <2>5, <3>2, <3>4, <3>7
  <2> QED
    BY <2>4, <2>5
<1>13. CASE ~LastOneOut(s, p)
  <2>1. /\ t.phase = "TakingTurn" /\ t.placements = WithOut(s, p) /\ StageOf(t) = "Playing"
        /\ Choosing(t) = FALSE
    BY <1>13 DEF Outs, StageOf, Choosing
  <2>2. t.current \in rest
    BY <1>6, <2>1 DEF TurnSeated, ActivePhases
  <2>3. RoundOf(t) = RoundWith(t, Append(names, p), None)
    BY <1>3, <2>1, PlainRound
  <2>4. RoundOf(t) = TurnTo(out, t.current)
    <3>1. RoundOf(t) = RoundIn("Playing", no, first, old, rest, t.current, Append(names, p), None)
      BY <1>0, <1>4, <1>5, <1>6, <2>1, <2>3 DEF RoundWith, first, old
    <3> QED
      BY <1>11, <3>1, TurnToEdit
  <2>5. ~first /\ Cardinality(rest) # 1
    BY <1>7, <1>13 DEF LastOneOut, first, EndsAtFirst
  <2> QED
    BY <1>2, <1>10, <2>2, <2>4, <2>5
<1> QED
  BY <1>12, <1>13

\* The player on turn takes it.
LEMMA TurnRound ==
  ASSUME Sound(state), Valid(state), Sound(state'), state.phase \in ActivePhases,
         NEW p \in Seated(state), p = state.current, Turns(state, state', p)
  PROVE  RoundOf(state') \in Round!Moves(RoundOf(state), "TurnAction", p)
<1> DEFINE r == RoundOf(state)
           t == state'
<1>1. /\ Held(state) /\ state \in State /\ Held(t) /\ t \in State /\ TurnSeated(t)
      /\ Ongoing(state) /\ Len(state.order) >= 2
  BY ValidRunning DEF Sound, Held, TurnSeated
<1>2. r.stage = "Playing" /\ r.turn = p
  <2>1. StageOf(state) = "Playing" /\ r = RoundWith(state, Names(state.placements), None)
    BY <1>1, OngoingRound DEF StageOf, ActivePhases
  <2> HIDE DEF r
  <2> QED
    BY <2>1, RoundFields DEF RoundWith
<1> HIDE DEF r, t
<1>3. RoundOf(t) \in Round!Continued(r) \cup Round!WentOut(r)
  <2>1. CASE Stays(state, t)
    <3>1. t.current \in Seated(state)
      BY <1>1, <2>1 DEF TurnSeated, Stays, SameRoster, Seated
    <3> QED
      BY <1>1, <2>1, <3>1, StaysRound DEF r
  <2>2. CASE Outs(state, t, p)
    BY <1>1, <2>2, OutsRound DEF r
  <2> QED
    BY <2>1, <2>2 DEF Turns, t
<1>4. RoundOf(t) \in Round!Moves(r, "TurnAction", p)
  BY <1>2, <1>3 DEF Round!Moves, Round!TurnTaken, Round!When
<1> QED
  BY <1>4 DEF r, t

-----------------------------------------------------------------------------
(* The other steps of the round *)

LEMMA RulesRound ==
  ASSUME NEW s \in State, Ongoing(s), s.phase = "Lobby", NEW t, t.phase = "Lobby",
         t.status = s.status, t.order = s.order, t.placements = s.placements,
         t.current = s.current
  PROVE  RoundOf(t) \in Round!NewRules(RoundOf(s))
<1> DEFINE r == RoundOf(s)
           c == Choosing(s)
           f == EndsAtFirst(s)
           e == EndsAtFirst(t)
           o == Participants(s)
           d == Seated(s)
           n == Names(s.placements)
<1>1. AllOut(s.placements) /\ r = RoundWith(s, n, None) /\ RoundOf(t) = RoundWith(t, n, None)
  BY OngoingRound, PlainRound
<1>2. /\ Participants(t) = o /\ Seated(t) = d /\ StageOf(s) = "Lobby" /\ StageOf(t) = "Lobby"
      /\ Choosing(t) = c /\ e \in BOOLEAN
  BY DEF Participants, Seated, StageOf, Choosing, EndsAtFirst
<1>3. r = RoundIn("Lobby", c, f, o, d, s.current, n, None)
  BY <1>1, <1>2 DEF RoundWith
<1>4. RoundOf(t) = RoundIn("Lobby", c, e, o, d, s.current, n, None)
  BY <1>1, <1>2 DEF RoundWith
<1> HIDE DEF r, c, f, e, o, d, n
<1>5. RoundOf(t) = Under(r, e)
  BY <1>3, <1>4, UnderEdit
<1>6. r.stage = "Lobby"
  BY <1>3, RoundFields
<1>7. RoundOf(t) \in {[r EXCEPT !.firstWins = x] : x \in BOOLEAN}
  BY <1>2, <1>5, Zenon DEF Under
<1>8. RoundOf(t) \in Round!NewRules(r)
  BY <1>6, <1>7, Zenon DEF Round!NewRules, Round!When
<1> QED
  BY <1>8 DEF r

LEMMA EnteredRound ==
  ASSUME NEW s \in State, Ongoing(s), s.phase # "Finished", NEW p \in Players, CanJoin(s, p),
         p \notin Seated(s), NEW t, Ongoing(t), Seated(t) = Seated(s) \cup {p},
         t.status = [s.status EXCEPT ![p] = "Playing"], t.placements = s.placements,
         t.phase = s.phase, t.current = s.current, t.rules = s.rules
  PROVE  RoundOf(t) \in Round!Entered(RoundOf(s), p)
<1> DEFINE r == RoundOf(s)
           g == StageOf(s)
           c == Choosing(s)
           f == EndsAtFirst(s)
           o == Participants(s)
           d == Seated(s)
           n == Names(s.placements)
<1>1. AllOut(s.placements) /\ r = RoundWith(s, n, None) /\ RoundOf(t) = RoundWith(t, n, None)
  BY OngoingRound, PlainRound
<1>2. /\ Participants(t) = o \cup {p} /\ StageOf(t) = g /\ Choosing(t) = c
      /\ EndsAtFirst(t) = f
  BY DEF Participants, State, StageOf, Choosing, EndsAtFirst
<1>3. g # "Over" /\ Cardinality(o \cup {p}) <= MaxPlayers
  BY <1>2 DEF StageOf, Ongoing
<1>4. \A i \in DOMAIN n : n[i] # p
  BY DEF Names, CanJoin, HasPlacement
<1>5. r = RoundIn(g, c, f, o, d, s.current, n, None)
  BY <1>1 DEF RoundWith
<1>6. RoundOf(t) = RoundIn(g, c, f, o \cup {p}, d \cup {p}, s.current, n, None)
  BY <1>1, <1>2 DEF RoundWith
<1>7. p \notin d
  OBVIOUS
<1> HIDE DEF r, g, c, f, o, d, n
<1>8. RoundOf(t) = Take(r, o \cup {p}, d \cup {p})
  BY <1>5, <1>6, TakeEdit
<1>9. r.stage = g /\ r.seated = d /\ r.roster = o /\ r.finishers = n
  BY <1>5, RoundFields
<1>10. ~Round!Finished(r, p)
  BY <1>4, <1>9 DEF Round!Finished
<1>11. Round!Cardinality(o \cup {p}) <= MaxPlayers
  BY <1>3 DEF Round!Cardinality, Cardinality
<1>12. RoundOf(t) = [r EXCEPT !.roster = @ \cup {p}, !.seated = @ \cup {p}]
  BY <1>8, <1>9 DEF Take
<1>13. RoundOf(t) \in Round!Entered(r, p)
  BY <1>3, <1>7, <1>9, <1>10, <1>11, <1>12, Zenon DEF Round!Entered, Round!When
<1> QED
  BY <1>13 DEF r

LEMMA BegunRound ==
  ASSUME NEW s \in State, SeatOrder(s), Ongoing(s), s.phase = "Lobby", Len(s.order) >= 2,
         NEW t, SameRoster(s, t), t.phase \in ActivePhases, t.current \in Seated(s)
  PROVE  RoundOf(t) \in Round!Begun(RoundOf(s))
<1> DEFINE r == RoundOf(s)
           c == Choosing(s)
           e == Choosing(t)
           f == EndsAtFirst(s)
           o == Participants(s)
           d == Seated(s)
           n == Names(s.placements)
<1>1. AllOut(s.placements) /\ r = RoundWith(s, n, None) /\ RoundOf(t) = RoundWith(t, n, None)
  BY OngoingRound, PlainRound DEF SameRoster
<1>2. /\ Participants(t) = o /\ Seated(t) = d /\ StageOf(s) = "Lobby" /\ StageOf(t) = "Playing"
      /\ EndsAtFirst(t) = f /\ e \in BOOLEAN
  BY DEF SameRoster, Participants, Seated, StageOf, Choosing, EndsAtFirst, ActivePhases
<1>3. r = RoundIn("Lobby", c, f, o, d, s.current, n, None)
  BY <1>1, <1>2 DEF RoundWith
<1>4. RoundOf(t) = RoundIn("Playing", e, f, o, d, t.current, n, None)
  BY <1>1, <1>2 DEF RoundWith
<1>5. Cardinality(d) >= 2 /\ t.current \in d
  BY SeatCount
<1> HIDE DEF r, c, e, f, o, d, n
<1>6. r.stage = "Lobby" /\ r.seated = d
  BY <1>3, RoundFields
<1>7. PICK playing : playing = "Playing"
  OBVIOUS
<1>8. RoundOf(t) = Open(r, "Playing", t.current, e)
  <2>1. RoundOf(t) = RoundIn(playing, e, f, o, d, t.current, n, None)
    BY <1>4, <1>7
  <2>2. RoundOf(t) = Open(r, playing, t.current, e)
    BY <1>3, <2>1, OpenEdit
  <2> QED
    BY <1>7, <2>2
<1>9. RoundOf(t) \in {[r EXCEPT !.stage = "Playing", !.turn = t.current, !.choosing = x] : x \in BOOLEAN}
  BY <1>2, <1>8, Zenon DEF Open
<1>10. RoundOf(t) \in UNION {{[r EXCEPT !.stage = "Playing", !.turn = u, !.choosing = x] : x \in BOOLEAN} : u \in d}
  <2> DEFINE Starts(u) == {[r EXCEPT !.stage = "Playing", !.turn = u, !.choosing = x] : x \in BOOLEAN}
  <2>1. RoundOf(t) \in Starts(t.current)
    BY <1>9
  <2> HIDE DEF Starts
  <2>2. RoundOf(t) \in UNION {Starts(u) : u \in d}
    BY <1>5, <2>1
  <2> QED
    BY <2>2 DEF Starts
<1>11. Round!Cardinality(d) >= 2
  BY <1>5 DEF Round!Cardinality, Cardinality
<1>12. RoundOf(t) \in Round!Begun(r)
  BY <1>6, <1>10, <1>11, Zenon DEF Round!Begun, Round!When
<1> QED
  BY <1>12 DEF r

LEMMA CancelledRound ==
  ASSUME NEW s \in State, Ongoing(s), s.phase # "Finished", NEW t, SameRoster(s, t),
         t.phase = "Finished", t.current = None
  PROVE  RoundOf(t) \in Round!Cancelled(RoundOf(s))
<1>0. PICK no, over : no = FALSE /\ over = "Over"
  OBVIOUS
<1> DEFINE r == RoundOf(s)
           g == StageOf(s)
           c == Choosing(s)
           f == EndsAtFirst(s)
           o == Participants(s)
           d == Seated(s)
           n == Names(s.placements)
<1>1. AllOut(s.placements) /\ r = RoundWith(s, n, None) /\ RoundOf(t) = RoundWith(t, n, None)
  BY OngoingRound, PlainRound DEF SameRoster
<1>2. /\ Participants(t) = o /\ Seated(t) = d /\ g # "Over" /\ StageOf(t) = over
      /\ EndsAtFirst(t) = f /\ Choosing(t) = no
  <2>1. Participants(t) = o /\ Seated(t) = d /\ EndsAtFirst(t) = f
    BY DEF SameRoster, Participants, Seated, EndsAtFirst
  <2>2. g # "Over" /\ StageOf(t) = "Over"
    BY DEF StageOf
  <2>3. Choosing(t) = FALSE
    BY DEF Choosing
  <2> QED
    BY <1>0, <2>1, <2>2, <2>3
<1>3. r = RoundIn(g, c, f, o, d, s.current, n, None)
  BY <1>1 DEF RoundWith
<1>4. RoundOf(t) = RoundIn(over, no, f, o, d, None, n, None)
  BY <1>1, <1>2 DEF RoundWith
<1> HIDE DEF r, g, c, f, o, d, n
<1>5. RoundOf(t) = Close(r, over, no, None)
  BY <1>3, <1>4, CloseEdit
<1>6. r.stage # "Over" /\ r.last = None
  BY <1>2, <1>3, RoundFields
<1>7. RoundOf(t) = Round!Over(r, r.last)
  BY <1>0, <1>5, <1>6 DEF Close, Round!Over
<1>8. RoundOf(t) \in Round!Cancelled(r)
  BY <1>6, <1>7, Zenon DEF Round!Cancelled, Round!When
<1> QED
  BY <1>8 DEF r

\* Somebody leaves: from the lobby, as the last but one, and from a game that
\* goes on.
LEMMA DepartedRound ==
  ASSUME NEW s \in State, SeatOrder(s), Ongoing(s), s.phase # "Finished", NEW p \in Seated(s),
         ~(Choosing(s) /\ s.current = p),
         NEW t \in State, SeatOrder(t), t.rules = s.rules,
         Seated(t) = Seated(s) \ {p}, t.status = [s.status EXCEPT ![p] = "Left"],
         \/ /\ s.phase = "Lobby" /\ t.phase = "Lobby" /\ t.current = s.current
            /\ t.placements = s.placements
         \/ /\ s.phase \in ActivePhases /\ t.phase = "Finished" /\ t.current = None
            /\ Len(t.order) = 1
            /\ t.placements = Append(s.placements, [player |-> t.order[1], wentOut |-> FALSE])
         \/ /\ s.phase \in ActivePhases /\ t.phase \in ActivePhases
            /\ Choosing(t) = Choosing(s) /\ Len(t.order) # 1
            /\ t.placements = s.placements
            /\ t.current \in IF s.current = p THEN Seated(t) ELSE {s.current}
  PROVE  RoundOf(t) \in Round!Departed(RoundOf(s), p)
<1> DEFINE r == RoundOf(s)
           g == StageOf(s)
           c == Choosing(s)
           f == EndsAtFirst(s)
           o == Participants(s)
           d == Seated(s)
           n == Names(s.placements)
           rest == d \ {p}
<1>1. AllOut(s.placements) /\ s.placements \in Seq(Placement) /\ r = RoundWith(s, n, None)
  BY OngoingRound
<1>2. p \in Players /\ s.status[p] = "Playing"
  BY DEF SeatOrder
<1>3. Participants(t) = o
  BY <1>2 DEF Participants, State
<1>4. EndsAtFirst(t) = f /\ Seated(t) = rest /\ g # "Over"
  BY DEF EndsAtFirst, StageOf
<1>5. r = RoundIn(g, c, f, o, d, s.current, n, None)
  BY <1>1 DEF RoundWith
<1>6. Cardinality(rest) = Len(t.order)
  BY <1>4, SeatCount
<1>7. Round!Cardinality(rest) = Cardinality(rest)
  BY DEF Round!Cardinality, Cardinality
<1>8. ~(c /\ s.current = p) /\ p \in d
  OBVIOUS
<1>9. s.phase = "Lobby" => g = "Lobby"
  BY DEF StageOf
<1>10. s.phase \in ActivePhases => g = "Playing"
  BY DEF StageOf, ActivePhases
<1>11. CASE /\ s.phase = "Lobby" /\ t.phase = "Lobby" /\ t.current = s.current
            /\ t.placements = s.placements
  <2>1. StageOf(t) = g /\ Choosing(t) = c
    BY <1>11 DEF StageOf, Choosing
  <2>2. RoundOf(t) = RoundWith(t, n, None)
    BY <1>1, <1>11, PlainRound
  <2>3. RoundOf(t) = RoundIn(g, c, f, o, rest, s.current, n, None)
    BY <1>3, <1>4, <1>11, <2>1, <2>2 DEF RoundWith
  <2> HIDE DEF r, g, c, f, o, d, n, rest
  <2>4. RoundOf(t) = Rest(r, rest)
    BY <1>5, <2>3, RestEdit
  <2>5. r.stage = "Lobby" /\ r.seated = d /\ r.turn = s.current /\ r.choosing = c
    BY <1>5, <1>9, <1>11, RoundFields
  <2>6. r.seated \ {p} = rest
    BY <2>5 DEF rest
  <2>7. RoundOf(t) \in {[r EXCEPT !.seated = rest]}
    BY <2>4, Zenon DEF Rest
  <2>8. RoundOf(t) \in Round!Departed(r, p)
    BY <1>8, <2>5, <2>6, <2>7 DEF Round!Departed, Round!When
  <2> QED
    BY <2>8 DEF r
<1>12. CASE /\ s.phase \in ActivePhases /\ t.phase = "Finished" /\ t.current = None
            /\ Len(t.order) = 1
            /\ t.placements = Append(s.placements, [player |-> t.order[1], wentOut |-> FALSE])
  <2>0. PICK no, over : no = FALSE /\ over = "Over"
    OBVIOUS
  <2>1. Choosing(t) = FALSE /\ StageOf(t) = "Over"
    BY <1>12 DEF StageOf, Choosing
  <2> DEFINE l == t.order[1]
  <2>2. l \in rest
    <3>1. t.order \in Seq(Players) /\ Len(t.order) = 1
      BY <1>12 DEF State
    <3>2. t.order[1] \in Range(t.order)
      BY <3>1, LenProperties DEF Range
    <3> QED
      BY <1>4, <3>2 DEF Seated
  <2>3. RoundOf(t) = RoundWith(t, n, l)
    <3>1. l \in Players
      BY <2>2 DEF SeatOrder
    <3> HIDE DEF l
    <3>2. t.placements = Append(s.placements, [player |-> l, wentOut |-> FALSE])
      BY <1>12 DEF l
    <3> QED
      BY <1>1, <3>1, <3>2, LastRound
  <2>4. RoundOf(t) = RoundIn(over, no, f, o, rest, None, n, l)
    BY <1>3, <1>4, <1>12, <2>0, <2>1, <2>3 DEF RoundWith
  <2> DEFINE left == Rest(r, rest)
  <2> HIDE DEF r, g, c, f, o, d, n, rest, l
  <2>5. left = RoundIn(g, c, f, o, rest, s.current, n, None)
    BY <1>5, RestEdit
  <2> HIDE DEF left
  <2>6. RoundOf(t) = Close(left, over, no, l)
    BY <2>4, <2>5, CloseEdit
  <2>7. RoundOf(t) = Round!Over(left, l)
    BY <2>0, <2>6 DEF Close, Round!Over
  <2>8. r.stage = "Playing" /\ r.seated = d /\ r.turn = s.current /\ r.choosing = c
    BY <1>5, <1>10, <1>12, RoundFields
  <2>9. r.seated \ {p} = rest
    BY <2>8 DEF rest
  <2>10. RoundOf(t) \in {Round!Over(left, x) : x \in rest}
    BY <2>2, <2>7
  <2>11. left = [r EXCEPT !.seated = rest]
    BY DEF left, Rest
  <2>12. Round!Cardinality(rest) = 1
    BY <1>6, <1>7, <1>12
  <2>13. RoundOf(t) \in Round!Departed(r, p)
    BY <1>8, <2>8, <2>9, <2>10, <2>11, <2>12 DEF Round!Departed, Round!When
  <2> QED
    BY <2>13 DEF r
<1>13. CASE /\ s.phase \in ActivePhases /\ t.phase \in ActivePhases
            /\ Choosing(t) = Choosing(s) /\ Len(t.order) # 1
            /\ t.placements = s.placements
            /\ t.current \in IF s.current = p THEN Seated(t) ELSE {s.current}
  <2>1. StageOf(t) = "Playing" /\ g = "Playing"
    BY <1>10, <1>13 DEF StageOf, ActivePhases
  <2>2. RoundOf(t) = RoundWith(t, n, None)
    BY <1>1, <1>13, PlainRound
  <2>3. RoundOf(t) = RoundIn(g, c, f, o, rest, t.current, n, None)
    BY <1>3, <1>4, <1>13, <2>1, <2>2 DEF RoundWith
  <2>4. t.current \in IF s.current = p THEN rest ELSE {s.current}
    BY <1>4, <1>13
  <2>5. Round!Cardinality(rest) # 1
    BY <1>6, <1>7, <1>13
  <2> HIDE DEF r, g, c, f, o, d, n, rest
  <2>6. RoundOf(t) = RestFrom(r, rest, t.current)
    BY <1>5, <2>3, RestFromEdit
  <2>7. r.stage = "Playing" /\ r.seated = d /\ r.turn = s.current /\ r.choosing = c
    BY <1>5, <2>1, RoundFields
  <2>8. r.seated \ {p} = rest
    BY <2>7 DEF rest
  <2>9. RoundOf(t) \in {[r EXCEPT !.seated = rest, !.turn = x] : x \in IF r.turn = p THEN rest ELSE {r.turn}}
    BY <2>4, <2>6, <2>7, Zenon DEF RestFrom
  <2>10. RoundOf(t) \in Round!Departed(r, p)
    BY <1>8, <2>5, <2>7, <2>8, <2>9, Zenon DEF Round!Departed, Round!When
  <2> QED
    BY <2>10 DEF r
<1> QED
  BY <1>11, <1>12, <1>13

-----------------------------------------------------------------------------
(* The engine implements the round *)

LEMMA MovesBy ==
  ASSUME NEW r, NEW p
  PROVE  /\ Round!Moves(r, "SetRules", p) = Round!NewRules(r)
         /\ Round!Moves(r, "JoinGame", p) = Round!Entered(r, p)
         /\ Round!Moves(r, "LeaveGame", p) = Round!Departed(r, p)
         /\ Round!Moves(r, "StartGame", p) = Round!Begun(r)
         /\ Round!Moves(r, "CancelGame", p) = Round!Cancelled(r)
         /\ {"SetRules", "JoinGame", "LeaveGame", "StartGame", "CancelGame", "TurnAction"}
              \subseteq Round!Kinds
BY DEF Round!Moves, Round!Kinds

\* The card that opens the game moves nobody's seat.
LEMMA OpeningRoster ==
  ASSUME NEW s, InPlay(s), s.current \in Seated(s), NEW dealer \in Seated(s),
         NEW t \in Opening(s, dealer)
  PROVE  SameRoster(s, t) /\ t.phase \in ActivePhases
<1> DEFINE first == s.current
           next == NextSeat(s, first, 1)
           choice == [ actor |-> first,
                       target |-> next,
                       previousColor |-> None,
                       drawCount |-> 0,
                       initial |-> TRUE,
                       bluffing |-> FALSE,
                       challengeable |-> FALSE,
                       swapHands |-> FALSE,
                       swapTarget |-> None ]
<1>1. /\ s \in State /\ TwoPenalty \in Nat /\ first \in Players
      /\ s.phase = "TakingTurn" /\ Held(s)
  BY EngineOK DEF InPlay, Held, SeatOrder, EngineAssumption
<1>2. CASE t = [s EXCEPT !.direction = -1, !.current = dealer]
  BY <1>1, <1>2 DEF State, SameRoster, ActivePhases
<1>3. CASE t = [s EXCEPT !.current = next]
  BY <1>1, <1>3 DEF State, SameRoster, ActivePhases
<1>4. CASE t = [s EXCEPT !.drawCounter = TwoPenalty]
  BY <1>1, <1>4 DEF State, SameRoster, ActivePhases
<1>5. CASE t \in {[u EXCEPT !.current = NextSeat(u, first, 1)] : u \in DrawTo(s, first, TwoPenalty)}
  <2>1. PICK u \in DrawTo(s, first, TwoPenalty) : t = [u EXCEPT !.current = NextSeat(u, first, 1)]
    BY <1>5
  <2>2. Held(u) /\ SamePlay(s, u)
    BY <1>1, DrawToHeld
  <2>3. SameRoster(s, u) /\ u.phase = "TakingTurn" /\ u \in State
    BY <1>1, <2>2, SceneRoster DEF Held, SamePlay
  <2> QED
    BY <2>1, <2>3 DEF State, SameRoster, ActivePhases
<1>6. CASE t = [s EXCEPT !.phase = "ChoosingColor", !.pending = choice]
  <2> HIDE DEF choice
  <2> QED
    BY <1>1, <1>6 DEF State, SameRoster, ActivePhases
<1>7. CASE t = s
  BY <1>1, <1>7 DEF SameRoster, ActivePhases
<1> QED
  BY <1>2, <1>3, <1>4, <1>5, <1>6, <1>7 DEF Opening

LEMMA StartGameRoster ==
  ASSUME NEW dealer \in Players, Sound(state), StartGame(dealer)
  PROVE  SameRoster(state, state') /\ state'.phase \in ActivePhases
<1>1. PICK deal \in Deals(state) :
        \E c \in {x \in state.drawPile \ (UNION Range(deal)) : CanOpen(state, x)} :
          state' \in Opening(Opened(state, deal, c, dealer), dealer)
  BY DEF StartGame
<1>2. PICK c \in state.drawPile \ (UNION Range(deal)) :
        state' \in Opening(Opened(state, deal, c, dealer), dealer)
  BY <1>1
<1> DEFINE s == Opened(state, deal, c, dealer)
<1>3. InPlay(s) /\ Seated(s) = Seated(state) /\ s.current \in Seated(state)
  BY OpenedInPlay DEF StartGame
<1>4. state \in State /\ dealer \in Seated(state)
  BY DEF StartGame, Sound, Held
<1>5. SameRoster(state, s)
  BY <1>4 DEF Opened, State, SameRoster
<1>6. state' \in Opening(s, dealer)
  BY <1>2
<1> HIDE DEF s
<1>7. SameRoster(s, state') /\ state'.phase \in ActivePhases
  BY <1>3, <1>4, <1>6, OpeningRoster
<1> QED
  BY <1>5, <1>7, RosterChain

LEMMA StartGameRound ==
  ASSUME NEW dealer \in Players, Sound(state), Ongoing(state), Sound(state'), StartGame(dealer)
  PROVE  RoundOf(state') \in Round!Begun(RoundOf(state))
<1>1. state \in State /\ SeatOrder(state) /\ state.phase = "Lobby" /\ Len(state.order) >= 2
  BY DEF StartGame, Sound, Held
<1>2. SameRoster(state, state') /\ state'.phase \in ActivePhases
  BY StartGameRoster
<1>3. state'.current \in Seated(state)
  BY <1>2 DEF Sound, TurnSeated, SameRoster, Seated
<1> QED
  BY <1>1, <1>2, <1>3, BegunRound

LEMMA JoinRound ==
  ASSUME NEW p \in Players, Sound(state), Ongoing(state), Ongoing(state'),
         JoinLobby(p) \/ JoinLate(p)
  PROVE  RoundOf(state') \in Round!Entered(RoundOf(state), p)
<1>1. state \in State /\ SeatOrder(state)
  BY DEF Sound, Held
<1>2. CASE JoinLobby(p)
  <2>1. /\ state.phase = "Lobby" /\ CanJoin(state, p)
        /\ state'.status = [state.status EXCEPT ![p] = "Playing"]
        /\ state'.order = Append(state.order, p)
        /\ state'.placements = state.placements /\ state'.phase = state.phase
        /\ state'.current = state.current /\ state'.rules = state.rules
    BY <1>1, <1>2 DEF JoinLobby, State
  <2>2. p \notin Seated(state) /\ state.order \in Seq(Players) /\ IsInjective(state.order)
    BY <1>1, <2>1 DEF CanJoin, SeatOrder, State
  <2>3. Seated(state') = Seated(state) \cup {p}
    BY <2>1, <2>2, AppendedSeat DEF Seated
  <2> QED
    BY <1>1, <2>1, <2>2, <2>3, EnteredRound
<1>3. CASE JoinLate(p)
  <2>1. /\ p \notin Seated(state) /\ state.phase \in ActivePhases /\ CanJoin(state, p)
        /\ state'.status = [state.status EXCEPT ![p] = "Playing"]
        /\ Seated(state') = Seated(state) \cup {p}
        /\ state'.rules = state.rules /\ state'.placements = state.placements
        /\ state'.phase = state.phase /\ state'.current = state.current
    BY <1>3, JoinLateSeats
  <2>2. state.phase # "Finished"
    BY <2>1 DEF ActivePhases
  <2> QED
    BY <1>1, <2>1, <2>2, EnteredRound
<1> QED
  BY <1>2, <1>3

LEMMA LeaveRound ==
  ASSUME NEW p \in Players, Sound(state), Valid(state), Sound(state'), LeaveGame(p)
  PROVE  RoundOf(state') \in Round!Departed(RoundOf(state), p)
<1>1. /\ state \in State /\ SeatOrder(state) /\ state' \in State /\ SeatOrder(state')
      /\ state.phase # "Finished"
  BY DEF Sound, Held, LeaveGame
<1>2. /\ Ongoing(state)
      /\ state.phase = "ChoosingColor" => state.pending # None /\ state.pending.actor = state.current
  BY <1>1, ValidOngoing DEF Valid, Validate, PendingChoice
<1>3. ~(Choosing(state) /\ state.current = p)
  BY <1>2 DEF LeaveGame, Choosing
<1>4. /\ p \in Seated(state) /\ Seated(state') = Seated(state) \ {p}
      /\ state'.status = [state.status EXCEPT ![p] = "Left"] /\ state'.rules = state.rules
      /\ state'.order = Without(state.order, p)
      /\ LeftLobby(p) \/ LeftOneOver(p) \/ LeftGoingOn(p)
  BY LeaveGameSeats
<1>5. CASE LeftLobby(p)
  BY <1>1, <1>2, <1>3, <1>4, <1>5, DepartedRound DEF LeftLobby
<1>6. CASE LeftOneOver(p)
  BY <1>1, <1>2, <1>3, <1>4, <1>6, DepartedRound DEF LeftOneOver
<1>7. CASE LeftGoingOn(p)
  <2>1. state.phase \in ActivePhases /\ state'.phase \in ActivePhases
    BY <1>7 DEF LeftGoingOn, ActivePhases
  <2>2. Choosing(state') = Choosing(state)
    BY <1>7 DEF LeftGoingOn, Choosing
  <2>3. Len(state'.order) # 1
    <3>1. PICK n \in Nat : n = Len(state.order)
      BY <1>1, LenProperties DEF State
    <3>2. n > 2
      BY <1>7, <3>1 DEF LeftGoingOn
    <3>3. Len(state'.order) = n - 1
      BY <1>1, <1>4, <3>1, WithoutSeat DEF Seated, SeatOrder, State
    <3>4. n - 1 # 1
      BY <3>2
    <3> QED
      BY <3>3, <3>4
  <2>4. state'.current \in IF state.current = p THEN Seated(state') ELSE {state.current}
    <3>1. state'.current \in Seated(state')
      BY <2>1 DEF Sound, TurnSeated
    <3>2. state.current # p => state'.current = state.current
      BY <1>7 DEF LeftGoingOn
    <3> QED
      BY <3>1, <3>2
  <2>5. state'.placements = state.placements
    BY <1>7 DEF LeftGoingOn
  <2> QED
    BY <1>1, <1>2, <1>3, <1>4, <2>1, <2>2, <2>3, <2>4, <2>5, DepartedRound
<1> QED
  BY <1>4, <1>5, <1>6, <1>7

\* Every step of a game is a move of somebody in its round.
RoundStep == \E p \in Players, kind \in Round!Kinds : RoundOf(state') \in Round!Moves(RoundOf(state), kind, p)

LEMMA NextIsRoundStep ==
  ASSUME Sound(state), Debts(state), Valid(state), Sound(state'), Valid(state'), Next
  PROVE  RoundStep
<1>1. state \in State /\ state' \in State /\ SeatOrder(state) /\ SeatOrder(state')
  BY DEF Sound, Held
<1>2. \E p : p \in Players
  BY EngineOK DEF EngineAssumption
<1>3. ASSUME NEW rules \in RuleSets, SetRules(rules)
      PROVE  RoundStep
  <2>1. /\ state.phase = "Lobby" /\ state'.phase = "Lobby" /\ state'.status = state.status
        /\ state'.order = state.order /\ state'.placements = state.placements
        /\ state'.current = state.current
    BY <1>1, <1>3 DEF SetRules, State
  <2>2. RoundOf(state') \in Round!NewRules(RoundOf(state))
    BY <1>1, <2>1, ValidOngoing, RulesRound
  <2> QED
    BY <1>2, <2>2, MovesBy DEF RoundStep
<1>4. CASE CancelGame
  <2>1. Ongoing(state) /\ state.phase # "Finished"
    BY <1>4, ValidOngoing DEF CancelGame
  <2>2. SameRoster(state, state') /\ state'.phase = "Finished" /\ state'.current = None
    BY <1>1, <1>4, FinishRoster DEF CancelGame
  <2>3. RoundOf(state') \in Round!Cancelled(RoundOf(state))
    BY <1>1, <2>1, <2>2, CancelledRound
  <2> QED
    BY <1>2, <2>3, MovesBy DEF RoundStep
<1>5. ASSUME NEW p \in Players, JoinLobby(p) \/ JoinLate(p)
      PROVE  RoundStep
  <2>1. state.phase # "Finished" /\ state'.phase # "Finished"
    <3>1. CASE JoinLobby(p)
      BY <1>1, <3>1 DEF JoinLobby, State
    <3>2. CASE JoinLate(p)
      BY <3>2, JoinLateSeats DEF ActivePhases
    <3> QED
      BY <1>5, <3>1, <3>2
  <2>2. RoundOf(state') \in Round!Entered(RoundOf(state), p)
    BY <1>5, <2>1, ValidOngoing, JoinRound
  <2> QED
    BY <2>2, MovesBy DEF RoundStep
<1>6. ASSUME NEW p \in Players, LeaveGame(p)
      PROVE  RoundStep
  BY <1>6, LeaveRound, MovesBy DEF RoundStep
<1>7. ASSUME NEW p \in Players, StartGame(p)
      PROVE  RoundStep
  <2>1. Ongoing(state)
    BY <1>7, ValidOngoing DEF StartGame
  <2> QED
    BY <1>7, <2>1, StartGameRound, MovesBy DEF RoundStep
<1>8. ASSUME NEW p \in Players, DrewOn(p) \/ PlayedOn(p)
      PROVE  RoundStep
  <2>1. Turns(state, state', p)
    BY <1>8, DrewOnTurns, PlayedOnTurns
  <2>2. state.phase \in ActivePhases /\ p = state.current /\ state.status[p] = "Playing"
    <3>1. CASE DrewOn(p)
      BY <3>1 DEF DrewOn, DrawPenalty, CallBluff, DrawOne, DrawOneWeb, PassTurn, SkipTurn, OnTurn,
                  ActivePhases
    <3>2. CASE PlayedOn(p)
      <4>1. ASSUME NEW c \in Cards, PlaySwapHands(p, c) \/ PlayWild(p, c) \/ PlayColored(p, c)
            PROVE  OnTurn(p, "TakingTurn")
        BY <4>1 DEF PlaySwapHands, PlayWild, PlayColored
      <4>2. ASSUME NEW q \in Players, ChoosePlayer(p, q)
            PROVE  OnTurn(p, "ChoosingPlayer")
        BY <4>2 DEF ChoosePlayer
      <4>3. ASSUME NEW color \in Colors, ChooseColor(p, color)
            PROVE  OnTurn(p, "ChoosingColor")
        <5>1. state.pending # None /\ p = state.current /\ state.status[p] = "Playing"
          BY <4>3 DEF ChooseColor
        <5>2. state.phase = "ChoosingColor"
          BY <5>1 DEF Sound, ChoiceSeated
        <5> QED
          BY <5>1, <5>2 DEF OnTurn
      <4>4. KeepHand(p) => OnTurn(p, "ChoosingPlayer")
        BY DEF KeepHand
      <4> QED
        BY <3>2, <4>1, <4>2, <4>3, <4>4 DEF PlayedOn, OnTurn, ActivePhases
    <3> QED
      BY <1>1, <1>8, <3>1, <3>2
  <2>3. RoundOf(state') \in Round!Moves(RoundOf(state), "TurnAction", p)
    <3>1. p \in Seated(state)
      BY <1>1, <2>2 DEF SeatOrder
    <3> QED
      BY <2>1, <2>2, <3>1, TurnRound
  <2> QED
    BY <2>3, MovesBy DEF RoundStep
<1> QED
  BY <1>3, <1>4, <1>5, <1>6, <1>7, <1>8 DEF Next, DrewOn, PlayedOn

LEMMA InitIsRoundInit == Init => Round!RoundInit
<1> SUFFICES ASSUME Init PROVE Round!RoundInit
  OBVIOUS
<1>1. PICK rules \in RuleSets : state = NewGame(rules)
  BY DEF Init
<1> DEFINE f == EndsAtFirst(state)
<1>2. /\ state.phase = "Lobby" /\ state.current = None /\ state.placements = <<>>
      /\ state.order = <<>> /\ \A p \in Players : state.status[p] = "None"
  BY <1>1 DEF NewGame
<1>3. Participants(state) = {} /\ Seated(state) = {}
  BY <1>2 DEF Participants, Seated, Range
<1>4. AllOut(state.placements) /\ Names(state.placements) = <<>>
  BY <1>2 DEF AllOut, Names
<1>5. StageOf(state) = "Lobby" /\ Choosing(state) = FALSE
  BY <1>2 DEF StageOf, Choosing
<1>6. RoundOf(state) = RoundWith(state, <<>>, None)
  BY <1>4, PlainRound
<1>7. f \in BOOLEAN
  BY DEF EndsAtFirst
<1>8. RoundOf(state) = RoundIn("Lobby", FALSE, f, {}, {}, None, <<>>, None)
  BY <1>2, <1>3, <1>5, <1>6 DEF RoundWith
<1> HIDE DEF f
<1>9. RoundOf(state) = Round!EmptyRound(f)
  BY <1>8 DEF RoundIn, Round!EmptyRound
<1> QED
  BY <1>7, <1>9 DEF Round!RoundInit

\* Whatever is played, drawn, challenged or left in whatever order, a game of
\* internal/uno is the round of UnoRound: the turn is with somebody seated,
\* only the player on turn goes out, a place is final, and the game is over
\* exactly when its end policy, a departure or a cancellation says so.
THEOREM EngineRefinesRound == Spec => RefinesRound
<1>1. Init => Round!RoundInit
  BY InitIsRoundInit
<1>2. ValidInv /\ ValidInv' /\ [Next]_vars => [Round!RoundNext]_(RoundOf(state))
  <2> SUFFICES ASSUME ValidInv, ValidInv', [Next]_vars
               PROVE  Round!RoundNext \/ RoundOf(state)' = RoundOf(state)
    OBVIOUS
  <2>1. Sound(state) /\ Debts(state) /\ Valid(state)
    BY ValidInvIsValid
  <2>2. Sound(state')
    BY DEF ValidInv, DebtInv, EngineInv, Sound, Held, TypeOK
  <2>3. Valid(state')
    BY DEF ValidInv, StateValid, Valid
  <2>4. CASE UNCHANGED vars
    BY <2>4 DEF vars
  <2>5. CASE Next
    <3>1. RoundStep
      BY <2>1, <2>2, <2>3, <2>5, NextIsRoundStep
    <3> QED
      BY <3>1 DEF RoundStep, Round!RoundNext
  <2> QED
    BY <2>4, <2>5
<1> QED
  BY <1>1, <1>2, ValidInvariant, PTL DEF Spec, RefinesRound, Round!RoundSpec

-----------------------------------------------------------------------------
(* Places are final *)

\* The places given so far stay as they are, and whoever has gone out never
\* plays again.
PlacesKept ==
  /\ \A i \in DOMAIN state.placements :
       i \in DOMAIN state'.placements /\ state'.placements[i] = state.placements[i]
  /\ \A p \in Players : state.status[p] = "WentOut" => state'.status[p] = "WentOut"

LEMMA MorePlaces ==
  ASSUME NEW places \in Seq(Placement), NEW p \in Players, NEW out \in BOOLEAN
  PROVE  LET after == Append(places, [player |-> p, wentOut |-> out])
         IN  /\ after \in Seq(Placement)
             /\ \A i \in DOMAIN places : i \in DOMAIN after /\ after[i] = places[i]
<1> DEFINE x == [player |-> p, wentOut |-> out]
<1>1. x \in Placement
  BY DEF Placement
<1> HIDE DEF x
<1>2. /\ Append(places, x) \in Seq(Placement)
      /\ \A i \in DOMAIN places : i \in DOMAIN Append(places, x) /\ Append(places, x)[i] = places[i]
  BY <1>1, OneMorePlaced
<1> QED
  BY <1>2 DEF x

LEMMA NextKeepsPlaces ==
  ASSUME Sound(state), Debts(state), Valid(state), Sound(state'), Next
  PROVE  PlacesKept
<1>1. /\ state \in State /\ state' \in State /\ SeatOrder(state) /\ SeatOrder(state')
      /\ state.placements \in Seq(Placement)
  BY DEF Sound, Held, State
<1>2. ASSUME state'.placements = state.placements, state'.status = state.status
      PROVE  PlacesKept
  BY <1>2 DEF PlacesKept
<1>3. CASE \/ \E rules \in RuleSets : SetRules(rules)
           \/ CancelGame
  <2>1. state'.placements = state.placements /\ state'.status = state.status
    <3>1. CASE CancelGame
      BY <1>1, <3>1, FinishRoster DEF CancelGame, SameRoster
    <3>2. CASE \E rules \in RuleSets : SetRules(rules)
      BY <1>1, <3>2 DEF SetRules, State
    <3> QED
      BY <1>3, <3>1, <3>2
  <2> QED
    BY <1>2, <2>1
<1>4. ASSUME NEW p \in Players, StartGame(p)
      PROVE  PlacesKept
  <2>1. SameRoster(state, state')
    BY <1>4, StartGameRoster
  <2> QED
    BY <1>2, <2>1 DEF SameRoster
<1>5. ASSUME NEW p \in Players, JoinLobby(p) \/ JoinLate(p)
      PROVE  PlacesKept
  <2>1. /\ CanJoin(state, p) /\ state'.placements = state.placements
        /\ state'.status = [state.status EXCEPT ![p] = "Playing"]
        /\ state.phase # "Finished"
    <3>1. CASE JoinLobby(p)
      BY <1>1, <3>1 DEF JoinLobby, State
    <3>2. CASE JoinLate(p)
      BY <3>2, JoinLateSeats DEF ActivePhases
    <3> QED
      BY <1>5, <3>1, <3>2
  <2>2. state.status[p] # "WentOut"
    BY <2>1, ValidOngoing DEF CanJoin, Ongoing, Placed
  <2> QED
    BY <1>1, <2>1, <2>2 DEF PlacesKept, State
<1>6. ASSUME NEW p \in Players, LeaveGame(p)
      PROVE  PlacesKept
  <2>1. /\ p \in Seated(state) /\ state'.status = [state.status EXCEPT ![p] = "Left"]
        /\ \/ state'.placements = state.placements
           \/ /\ Len(state'.order) = 1
              /\ state'.placements = Append(state.placements, [player |-> state'.order[1], wentOut |-> FALSE])
    BY <1>6, LeaveGameSeats DEF LeftLobby, LeftOneOver, LeftGoingOn
  <2>2. state.status[p] = "Playing"
    BY <1>1, <2>1 DEF SeatOrder
  <2>3. \A q \in Players : state.status[q] = "WentOut" => state'.status[q] = "WentOut"
    BY <1>1, <2>1, <2>2 DEF State
  <2>4. CASE state'.placements = state.placements
    BY <2>3, <2>4 DEF PlacesKept
  <2>5. CASE /\ Len(state'.order) = 1
             /\ state'.placements = Append(state.placements, [player |-> state'.order[1], wentOut |-> FALSE])
    <3>1. state'.order[1] \in Players
      BY <1>1, <2>5, LenProperties, ElementOfSeq DEF State
    <3>2. PICK l \in Players : state'.placements = Append(state.placements, [player |-> l, wentOut |-> FALSE])
      BY <2>5, <3>1
    <3> QED
      BY <1>1, <2>3, <3>2, MorePlaces DEF PlacesKept
  <2> QED
    BY <2>1, <2>4, <2>5
<1>7. ASSUME NEW p \in Players, DrewOn(p) \/ PlayedOn(p)
      PROVE  PlacesKept
  <2>1. Turns(state, state', p)
    BY <1>7, DrewOnTurns, PlayedOnTurns
  <2>2. CASE Stays(state, state')
    BY <1>2, <2>2 DEF Stays, SameRoster
  <2>3. CASE Outs(state, state', p)
    <3>1. /\ state'.status = [state.status EXCEPT ![p] = "WentOut"]
          /\ \/ state'.placements = WithOut(state, p)
             \/ /\ state'.placements = WithLast(state, p)
                /\ Len(state'.order) = 1 /\ state'.order = Without(state.order, p)
      BY <2>3 DEF Outs, LastOneOut
    <3>2. \A q \in Players : state.status[q] = "WentOut" => state'.status[q] = "WentOut"
      BY <1>1, <3>1 DEF State
    <3>3. /\ WithOut(state, p) \in Seq(Placement)
          /\ \A i \in DOMAIN state.placements :
               i \in DOMAIN WithOut(state, p) /\ WithOut(state, p)[i] = state.placements[i]
      BY <1>1, MorePlaces DEF WithOut
    <3>4. CASE state'.placements = WithOut(state, p)
      BY <3>2, <3>3, <3>4 DEF PlacesKept
    <3>5. CASE /\ state'.placements = WithLast(state, p)
               /\ Len(state'.order) = 1 /\ state'.order = Without(state.order, p)
      <4>1. state'.order[1] \in Players
        BY <1>1, <3>5, LenProperties, ElementOfSeq DEF State
      <4>2. PICK l \in Players :
              state'.placements = Append(WithOut(state, p), [player |-> l, wentOut |-> FALSE])
        BY <3>5, <4>1 DEF WithLast
      <4>3. \A i \in DOMAIN WithOut(state, p) :
              i \in DOMAIN state'.placements /\ state'.placements[i] = WithOut(state, p)[i]
        BY <3>3, <4>2, MorePlaces
      <4> QED
        BY <3>2, <3>3, <4>3 DEF PlacesKept
    <3> QED
      BY <3>1, <3>4, <3>5
  <2> QED
    BY <2>1, <2>2, <2>3 DEF Turns
<1> QED
  BY <1>3, <1>4, <1>5, <1>6, <1>7 DEF Next, DrewOn, PlayedOn

\* A place is never taken back or changed, whoever joins, leaves or goes out
\* afterwards, and nobody who went out comes back to the table (join, leave
\* and completePlay of game.go).
THEOREM PlacesAreFinal == Spec => [][PlacesKept]_vars
<1>1. ValidInv /\ ValidInv' /\ [Next]_vars => PlacesKept
  <2> SUFFICES ASSUME ValidInv, ValidInv', [Next]_vars
               PROVE  PlacesKept
    OBVIOUS
  <2>1. Sound(state) /\ Debts(state) /\ Valid(state)
    BY ValidInvIsValid
  <2>2. Sound(state')
    BY DEF ValidInv, DebtInv, EngineInv, Sound, Held, TypeOK
  <2>3. CASE UNCHANGED vars
    BY <2>3 DEF vars, PlacesKept
  <2> QED
    BY <2>1, <2>2, <2>3, NextKeepsPlaces
<1> QED
  BY <1>1, ValidInvariant, PTL DEF Spec
=============================================================================
