--------------------------- MODULE SiftingProofs ----------------------------
(***************************************************************************)
(* What Sift returns and preserves, for every sequence.  The provers have  *)
(* no induction of their own; it is derived here from the fact that < is   *)
(* well founded on Nat, for sets instead of predicates.                    *)
(***************************************************************************)
EXTENDS Sifting, SequenceTheorems, WellFoundedInduction, TLAPS

Below == {p \in Nat \X Nat : p[1] < p[2]}

\* Every nonempty set of naturals has a least element.
LEMMA LeastElement ==
  ASSUME NEW N \in SUBSET Nat, N # {}
  PROVE  \E n \in N : \A m \in N : n <= m
<1>1. OpToRel(<, Nat) = Below
  BY Zenon DEF OpToRel, Below
<1>2. IsWellFoundedOn(Below, Nat)
  BY <1>1, NatLessThanWellFounded, Zenon
<1>3. PICK n \in N : \A m \in N : <<m, n>> \notin Below
  BY <1>2, WFMin, Zenon
<1>4. \A m, k \in Nat : k <= m \/ <<m, k>> \in Below
  BY DEF Below
<1> QED
  BY <1>3, <1>4

\* Induction over a set of naturals.
LEMMA NaturalsOf ==
  ASSUME NEW N \in SUBSET Nat, 0 \in N, \A n \in N : n + 1 \in N
  PROVE  N = Nat
<1> SUFFICES ASSUME Nat \ N # {} PROVE FALSE
  OBVIOUS
<1>1. PICK n \in Nat \ N : \A m \in Nat \ N : n <= m
  BY LeastElement
<1>2. n # 0 /\ n - 1 \in Nat /\ n - 1 \notin Nat \ N
  BY <1>1
<1>3. (n - 1) + 1 \in N
  BY <1>2
<1> QED
  BY <1>1, <1>2, <1>3

\* Induction over a set of sequences.
LEMMA SequencesOf ==
  ASSUME NEW T, NEW Q \in SUBSET Seq(T), <<>> \in Q,
         \A s \in Q, e \in T : Append(s, e) \in Q
  PROVE  Q = Seq(T)
<1> DEFINE N == {n \in Nat : \A s \in Seq(T) : Len(s) = n => s \in Q}
<1>1. 0 \in N
  BY EmptySeq
<1>2. ASSUME NEW n \in N PROVE n + 1 \in N
  <2> SUFFICES ASSUME NEW s \in Seq(T), Len(s) = n + 1 PROVE s \in Q
    OBVIOUS
  <2>1. s # <<>>
    OBVIOUS
  <2>2. PICK r \in Seq(T), e \in T : s = Append(r, e)
    BY <2>1, SequenceEmptyOrAppend
  <2>3. Len(r) = n
    BY <2>2, AppendProperties, LenProperties
  <2> QED
    BY <1>2, <2>2, <2>3
<1> HIDE DEF N
<1>3. N = Nat
  <2>1. N \in SUBSET Nat
    BY DEF N
  <2> QED
    BY <1>1, <1>2, <2>1, NaturalsOf
<1> QED
  BY <1>3, LenProperties DEF N

-----------------------------------------------------------------------------
(* The function that Sift is the last value of *)

Sifts(f, s, S) ==
  f = [i \in 0 .. Len(s) |->
         IF i = 0 THEN <<>>
         ELSE IF s[i] \in S THEN Append(f[i - 1], s[i]) ELSE f[i - 1]]

LEMMA SiftsStep ==
  ASSUME NEW s, NEW S, NEW f, Sifts(f, s, S), Len(s) \in Nat, NEW i \in 1 .. Len(s)
  PROVE  f[i] = IF s[i] \in S THEN Append(f[i - 1], s[i]) ELSE f[i - 1]
<1> DEFINE value(j) == IF j = 0 THEN <<>>
                       ELSE IF s[j] \in S THEN Append(f[j - 1], s[j]) ELSE f[j - 1]
           h == [j \in 0 .. Len(s) |-> value(j)]
<1>1. f = h
  BY Zenon DEF Sifts
<1>2. h[i] = value(i)
  <2> HIDE DEF value
  <2> QED
    OBVIOUS
<1>3. f[i] = value(i)
  <2> HIDE DEF h, value
  <2> QED
    BY <1>1, <1>2
<1>4. i # 0
  OBVIOUS
<1> QED
  BY <1>3, <1>4, Zenon

\* One element more is one value more.
LEMMA SiftsOneMore ==
  ASSUME NEW T, NEW s \in Seq(T), NEW e \in T, NEW S, NEW f, Sifts(f, s, S)
  PROVE  LET last == f[Len(s)]
             g == [i \in 0 .. Len(s) + 1 |->
                     IF i <= Len(s) THEN f[i] ELSE IF e \in S THEN Append(last, e) ELSE last]
         IN  Sifts(g, Append(s, e), S)
<1> DEFINE t == Append(s, e)
           last == f[Len(s)]
           new == IF e \in S THEN Append(last, e) ELSE last
           g == [i \in 0 .. Len(s) + 1 |-> IF i <= Len(s) THEN f[i] ELSE new]
           h == [i \in 0 .. Len(t) |->
                   IF i = 0 THEN <<>> ELSE IF t[i] \in S THEN Append(g[i - 1], t[i]) ELSE g[i - 1]]
<1>1. Len(t) = Len(s) + 1 /\ t[Len(s) + 1] = e /\ \A i \in 1 .. Len(s) : t[i] = s[i]
  BY AppendProperties
<1>2. Len(s) \in Nat
  BY LenProperties
<1>3. ASSUME NEW i \in 0 .. Len(s) + 1 PROVE g[i] = h[i]
  <2>1. CASE i = 0
    BY <1>1, <1>2, <2>1 DEF Sifts
  <2>2. CASE i \in 1 .. Len(s)
    <3>1. f[i] = IF s[i] \in S THEN Append(f[i - 1], s[i]) ELSE f[i - 1]
      BY <1>2, <2>2, SiftsStep
    <3>2. g[i] = f[i] /\ g[i - 1] = f[i - 1] /\ t[i] = s[i]
      BY <1>1, <1>2, <2>2
    <3> QED
      BY <1>1, <1>2, <2>2, <3>1, <3>2
  <2>3. CASE i = Len(s) + 1
    <3>1. g[i] = new /\ g[i - 1] = last /\ t[i] = e
      BY <1>1, <1>2, <2>3
    <3> HIDE DEF g, last
    <3> QED
      BY <1>1, <1>2, <2>3, <3>1
  <2> QED
    BY <1>2, <2>1, <2>2, <2>3
<1>4. g = h
  BY <1>1, <1>3
<1> QED
  BY <1>4, Zenon DEF Sifts

LEMMA SiftsExists ==
  ASSUME NEW T, NEW S
  PROVE  \A s \in Seq(T) : \E f : Sifts(f, s, S)
<1> DEFINE Q == {s \in Seq(T) : \E f : Sifts(f, s, S)}
<1>1. <<>> \in Q
  <2>1. Sifts([i \in 0 .. 0 |-> <<>>], <<>>, S)
    BY EmptySeq DEF Sifts
  <2> QED
    BY <2>1
<1>2. ASSUME NEW s \in Q, NEW e \in T PROVE Append(s, e) \in Q
  <2>1. Append(s, e) \in Seq(T)
    BY AppendProperties
  <2>2. PICK f : Sifts(f, s, S)
    OBVIOUS
  <2> QED
    BY <2>1, <2>2, SiftsOneMore
<1> HIDE DEF Q
<1>3. Q = Seq(T)
  BY <1>1, <1>2, SequencesOf DEF Q
<1> QED
  BY <1>3 DEF Q

LEMMA SiftsUnique ==
  ASSUME NEW T, NEW S, NEW s \in Seq(T), NEW f, NEW g, Sifts(f, s, S), Sifts(g, s, S)
  PROVE  f = g
<1> DEFINE N == {n \in Nat : n \in 0 .. Len(s) => f[n] = g[n]}
<1>1. 0 \in N
  BY DEF Sifts
<1>2. ASSUME NEW n \in N PROVE n + 1 \in N
  <2> SUFFICES ASSUME n + 1 \in 0 .. Len(s) PROVE f[n + 1] = g[n + 1]
    OBVIOUS
  <2>1. Len(s) \in Nat /\ n + 1 \in 1 .. Len(s) /\ (n + 1) - 1 = n /\ f[n] = g[n]
    BY LenProperties
  <2>2. /\ f[n + 1] = IF s[n + 1] \in S THEN Append(f[(n + 1) - 1], s[n + 1]) ELSE f[(n + 1) - 1]
        /\ g[n + 1] = IF s[n + 1] \in S THEN Append(g[(n + 1) - 1], s[n + 1]) ELSE g[(n + 1) - 1]
    <3> HIDE DEF N
    <3> QED
      BY <2>1, SiftsStep
  <2> QED
    BY <2>1, <2>2
<1> HIDE DEF N
<1>3. N = Nat
  <2>1. N \in SUBSET Nat
    BY DEF N
  <2> QED
    BY <1>1, <1>2, <2>1, NaturalsOf
<1>4. \A i \in 0 .. Len(s) : f[i] = g[i]
  BY <1>3, LenProperties DEF N
<1> QED
  BY <1>4 DEF Sifts

LEMMA SiftIs ==
  ASSUME NEW T, NEW S, NEW s \in Seq(T), NEW f, Sifts(f, s, S)
  PROVE  Sift(s, S) = f[Len(s)]
<1> DEFINE c == CHOOSE g : Sifts(g, s, S)
<1>1. Sifts(c, s, S)
  OBVIOUS
<1>2. c = f
  BY <1>1, SiftsUnique
<1>3. Sift(s, S) = c[Len(s)]
  BY Zenon DEF Sift, Sifts
<1> QED
  BY <1>2, <1>3

-----------------------------------------------------------------------------
(* What Sift computes *)

LEMMA SiftEmpty ==
  ASSUME NEW S
  PROVE  Sift(<<>>, S) = <<>>
<1>1. <<>> \in Seq({}) /\ Len(<<>>) = 0
  BY EmptySeq
<1>2. PICK f : Sifts(f, <<>>, S)
  BY <1>1, SiftsExists
<1>3. f[0] = <<>>
  BY <1>1, <1>2 DEF Sifts
<1>4. Sift(<<>>, S) = f[Len(<<>>)]
  BY <1>1, <1>2, SiftIs, Zenon
<1> QED
  BY <1>1, <1>3, <1>4

LEMMA SiftAppend ==
  ASSUME NEW T, NEW S, NEW s \in Seq(T), NEW e \in T
  PROVE  Sift(Append(s, e), S) = IF e \in S THEN Append(Sift(s, S), e) ELSE Sift(s, S)
<1>1. PICK f : Sifts(f, s, S)
  BY SiftsExists
<1> DEFINE last == f[Len(s)]
           g == [i \in 0 .. Len(s) + 1 |->
                   IF i <= Len(s) THEN f[i] ELSE IF e \in S THEN Append(last, e) ELSE last]
<1>2. Append(s, e) \in Seq(T) /\ Len(Append(s, e)) = Len(s) + 1 /\ Len(s) \in Nat
  BY AppendProperties, LenProperties
<1>3. Sifts(g, Append(s, e), S)
  BY <1>1, SiftsOneMore
<1>4. Sift(s, S) = last
  BY <1>1, SiftIs
<1>5. Sift(Append(s, e), S) = g[Len(s) + 1]
  BY <1>2, <1>3, SiftIs
<1>6. g[Len(s) + 1] = IF e \in S THEN Append(last, e) ELSE last
  BY <1>2
<1> QED
  BY <1>4, <1>5, <1>6

-----------------------------------------------------------------------------
(* What follows by induction *)

LEMMA SiftIsSeq ==
  ASSUME NEW T, NEW S
  PROVE  \A s \in Seq(T) : Sift(s, S) \in Seq(T) /\ Len(Sift(s, S)) <= Len(s)
<1> DEFINE Q == {s \in Seq(T) : Sift(s, S) \in Seq(T) /\ Len(Sift(s, S)) <= Len(s)}
<1>1. <<>> \in Q
  <2>1. <<>> \in Seq(T) /\ Len(<<>>) = 0 /\ Sift(<<>>, S) = <<>>
    BY EmptySeq, SiftEmpty
  <2>2. Sift(<<>>, S) \in Seq(T) /\ Len(Sift(<<>>, S)) <= Len(<<>>)
    <3>1. Sift(<<>>, S) \in Seq(T) /\ Len(Sift(<<>>, S)) = Len(<<>>)
      BY <2>1, Zenon
    <3> QED
      BY <2>1, <3>1
  <2> QED
    BY <2>1, <2>2, Zenon
<1>2. ASSUME NEW s \in Q, NEW e \in T PROVE Append(s, e) \in Q
  <2>1. s \in Seq(T) /\ Sift(s, S) \in Seq(T) /\ Len(Sift(s, S)) <= Len(s)
    OBVIOUS
  <2>2. Sift(Append(s, e), S) = IF e \in S THEN Append(Sift(s, S), e) ELSE Sift(s, S)
    BY <2>1, SiftAppend
  <2> QED
    BY <2>1, <2>2, AppendProperties, LenProperties
<1> HIDE DEF Q
<1>3. Q = Seq(T)
  BY <1>1, <1>2, SequencesOf DEF Q
<1> QED
  BY <1>3 DEF Q

\* The elements of the result.
LEMMA SiftElements ==
  ASSUME NEW T, NEW S
  PROVE  \A s \in Seq(T) : \A x :
           (\E i \in 1 .. Len(Sift(s, S)) : Sift(s, S)[i] = x)
             <=> x \in S /\ \E i \in 1 .. Len(s) : s[i] = x
<1> DEFINE In(s, x) == \E i \in 1 .. Len(s) : s[i] = x
           Q == {s \in Seq(T) : \A x : In(Sift(s, S), x) <=> x \in S /\ In(s, x)}
<1>1. <<>> \in Q
  BY EmptySeq, SiftEmpty
<1>2. ASSUME NEW s \in Seq(T), NEW e \in T, NEW x
      PROVE  In(Append(s, e), x) <=> x = e \/ In(s, x)
  BY AppendProperties, LenProperties
<1>3. ASSUME NEW s \in Q, NEW e \in T PROVE Append(s, e) \in Q
  <2>1. s \in Seq(T) /\ Append(s, e) \in Seq(T) /\ Sift(s, S) \in Seq(T)
    BY AppendProperties, SiftIsSeq
  <2>2. Sift(Append(s, e), S) = IF e \in S THEN Append(Sift(s, S), e) ELSE Sift(s, S)
    BY <2>1, SiftAppend
  <2>3. \A x : In(Sift(s, S), x) <=> x \in S /\ In(s, x)
    OBVIOUS
  <2>4. \A x : /\ In(Append(s, e), x) <=> x = e \/ In(s, x)
               /\ In(Append(Sift(s, S), e), x) <=> x = e \/ In(Sift(s, S), x)
    BY <1>2, <2>1
  <2>5. \A x : In(Sift(Append(s, e), S), x) <=> x \in S /\ In(Append(s, e), x)
    <3> HIDE DEF In
    <3> QED
      BY <2>2, <2>3, <2>4
  <2> QED
    BY <2>1, <2>5
<1> HIDE DEF Q
<1>4. Q = Seq(T)
  BY <1>1, <1>3, SequencesOf DEF Q
<1> QED
  BY <1>4 DEF Q

\* What is first and to stay is first afterwards.
LEMMA SiftTail ==
  ASSUME NEW T, NEW S
  PROVE  \A s \in Seq(T) : s # <<>> =>
           IF Head(s) \in S
           THEN /\ Sift(s, S) # <<>>
                /\ Head(Sift(s, S)) = Head(s)
                /\ Tail(Sift(s, S)) = Sift(Tail(s), S)
           ELSE Sift(s, S) = Sift(Tail(s), S)
<1> DEFINE Unfolds(s) == IF Head(s) \in S
                         THEN /\ Sift(s, S) # <<>>
                              /\ Head(Sift(s, S)) = Head(s)
                              /\ Tail(Sift(s, S)) = Sift(Tail(s), S)
                         ELSE Sift(s, S) = Sift(Tail(s), S)
           Q == {s \in Seq(T) : s # <<>> => Unfolds(s)}
<1>1. <<>> \in Q
  BY EmptySeq
<1>2. ASSUME NEW s \in Q, NEW e \in T PROVE Append(s, e) \in Q
  <2>1. s \in Seq(T) /\ Append(s, e) \in Seq(T) /\ Append(s, e) # <<>>
    BY AppendProperties
  <2>2. Sift(s, S) \in Seq(T)
    BY <2>1, SiftIsSeq
  <2>3. Sift(Append(s, e), S) = IF e \in S THEN Append(Sift(s, S), e) ELSE Sift(s, S)
    BY <2>1, SiftAppend
  <2>4. CASE s = <<>>
    <3>1. Head(Append(s, e)) = e /\ Tail(Append(s, e)) = <<>>
      BY <2>1, <2>4, HeadTailAppend
    <3>2. /\ Sift(s, S) = <<>> /\ Sift(<<>>, S) = <<>>
      BY <2>4, SiftEmpty
    <3>3. /\ Append(Sift(s, S), e) # <<>>
          /\ Head(Append(Sift(s, S), e)) = e
          /\ Tail(Append(Sift(s, S), e)) = <<>>
      BY <2>2, <3>2, HeadTailAppend, AppendProperties
    <3> QED
      BY <2>1, <2>3, <3>1, <3>2, <3>3
  <2>5. CASE s # <<>>
    <3>1. Head(Append(s, e)) = Head(s) /\ Tail(Append(s, e)) = Append(Tail(s), e)
      BY <2>1, <2>5, HeadTailAppend
    <3>2. Tail(s) \in Seq(T)
      BY <2>1, <2>5, HeadTailProperties
    <3>3. Sift(Append(Tail(s), e), S)
            = IF e \in S THEN Append(Sift(Tail(s), S), e) ELSE Sift(Tail(s), S)
      <4> HIDE DEF Q, Unfolds
      <4> DEFINE r == Tail(s)
      <4>1. r \in Seq(T)
        BY <3>2
      <4> HIDE DEF r
      <4>2. Sift(Append(r, e), S) = IF e \in S THEN Append(Sift(r, S), e) ELSE Sift(r, S)
        BY <4>1, SiftAppend
      <4> QED
        BY <4>2 DEF r
    <3>4. Unfolds(s)
      BY <2>5
    <3>5. /\ Append(Sift(s, S), e) # <<>>
          /\ Sift(s, S) # <<>> =>
               /\ Head(Append(Sift(s, S), e)) = Head(Sift(s, S))
               /\ Tail(Append(Sift(s, S), e)) = Append(Tail(Sift(s, S)), e)
      BY <2>2, HeadTailAppend, AppendProperties
    <3>6. Unfolds(Append(s, e))
      BY <2>3, <3>1, <3>3, <3>4, <3>5
    <3> QED
      BY <2>1, <3>6
  <2> QED
    BY <2>4, <2>5
<1> HIDE DEF Q
<1>3. Q = Seq(T)
  BY <1>1, <1>2, SequencesOf DEF Q
<1> QED
  BY <1>3 DEF Q

\* No element is repeated that was not.
LEMMA SiftInjective ==
  ASSUME NEW T, NEW S
  PROVE  \A s \in Seq(T) :
           (\A i, j \in 1 .. Len(s) : s[i] = s[j] => i = j)
             => \A i, j \in 1 .. Len(Sift(s, S)) : Sift(s, S)[i] = Sift(s, S)[j] => i = j
<1> DEFINE Distinct(s) == \A i, j \in 1 .. Len(s) : s[i] = s[j] => i = j
           In(s, x) == \E i \in 1 .. Len(s) : s[i] = x
           Q == {s \in Seq(T) : Distinct(s) => Distinct(Sift(s, S))}
<1>1. <<>> \in Q
  BY EmptySeq, SiftEmpty
<1>2. ASSUME NEW s \in Seq(T), NEW e \in T
      PROVE  Distinct(Append(s, e)) <=> Distinct(s) /\ ~In(s, e)
  BY AppendProperties, LenProperties
<1>3. ASSUME NEW s \in Q, NEW e \in T PROVE Append(s, e) \in Q
  <2>1. s \in Seq(T) /\ Append(s, e) \in Seq(T) /\ Sift(s, S) \in Seq(T)
    BY AppendProperties, SiftIsSeq
  <2>2. Sift(Append(s, e), S) = IF e \in S THEN Append(Sift(s, S), e) ELSE Sift(s, S)
    BY <2>1, SiftAppend
  <2>3. In(Sift(s, S), e) => In(s, e)
    BY <2>1, SiftElements
  <2>4. Distinct(s) => Distinct(Sift(s, S))
    OBVIOUS
  <2>5. /\ Distinct(Append(s, e)) <=> Distinct(s) /\ ~In(s, e)
        /\ Distinct(Append(Sift(s, S), e)) <=> Distinct(Sift(s, S)) /\ ~In(Sift(s, S), e)
    BY <1>2, <2>1
  <2>6. Distinct(Append(s, e)) => Distinct(Sift(Append(s, e), S))
    <3> HIDE DEF Distinct, In
    <3> QED
      BY <2>2, <2>3, <2>4, <2>5
  <2> QED
    BY <2>1, <2>6
<1> HIDE DEF Q
<1>4. Q = Seq(T)
  BY <1>1, <1>3, SequencesOf DEF Q
<1> QED
  BY <1>4 DEF Q

\* Sifting twice is sifting once.
LEMMA SiftTwice ==
  ASSUME NEW T, NEW S, NEW R
  PROVE  \A s \in Seq(T) : Sift(Sift(s, S), R) = Sift(s, S \cap R)
<1> DEFINE Q == {s \in Seq(T) : Sift(Sift(s, S), R) = Sift(s, S \cap R)}
<1>1. <<>> \in Q
  BY EmptySeq, SiftEmpty
<1>2. ASSUME NEW s \in Q, NEW e \in T PROVE Append(s, e) \in Q
  <2>1. s \in Seq(T) /\ Append(s, e) \in Seq(T) /\ Sift(s, S) \in Seq(T)
    BY AppendProperties, SiftIsSeq
  <2>2. Sift(Append(s, e), S) = IF e \in S THEN Append(Sift(s, S), e) ELSE Sift(s, S)
    BY <2>1, SiftAppend
  <2> DEFINE B == S \cap R
             r == Sift(s, S)
  <2>3. Sift(Append(s, e), B) = IF e \in B THEN Append(Sift(s, B), e) ELSE Sift(s, B)
    <3> HIDE DEF Q, B
    <3> QED
      BY <2>1, SiftAppend
  <2>4. Sift(Append(r, e), R) = IF e \in R THEN Append(Sift(r, R), e) ELSE Sift(r, R)
    <3>1. r \in Seq(T)
      BY <2>1
    <3> HIDE DEF Q, r
    <3> QED
      BY <3>1, SiftAppend
  <2>5. Sift(r, R) = Sift(s, B)
    OBVIOUS
  <2>6. Sift(Sift(Append(s, e), S), R) = Sift(Append(s, e), B)
    <3>1. e \in B <=> e \in S /\ e \in R
      OBVIOUS
    <3> HIDE DEF Q, B
    <3> QED
      BY <2>2, <2>3, <2>4, <2>5, <3>1
  <2> QED
    BY <2>1, <2>6
<1> HIDE DEF Q
<1>3. Q = Seq(T)
  BY <1>1, <1>2, SequencesOf DEF Q
<1> QED
  BY <1>3 DEF Q

\* Only what is said of the elements of the sequence matters.
LEMMA SiftSame ==
  ASSUME NEW T, NEW S, NEW R
  PROVE  \A s \in Seq(T) : (\A i \in 1 .. Len(s) : s[i] \in S <=> s[i] \in R)
                             => Sift(s, S) = Sift(s, R)
<1> DEFINE Agree(s) == \A i \in 1 .. Len(s) : s[i] \in S <=> s[i] \in R
           Q == {s \in Seq(T) : Agree(s) => Sift(s, S) = Sift(s, R)}
<1>1. <<>> \in Q
  BY EmptySeq, SiftEmpty
<1>2. ASSUME NEW s \in Q, NEW e \in T PROVE Append(s, e) \in Q
  <2>1. s \in Seq(T) /\ Append(s, e) \in Seq(T)
    BY AppendProperties
  <2>2. Agree(Append(s, e)) => Agree(s) /\ (e \in S <=> e \in R)
    BY <2>1, AppendProperties, LenProperties
  <2>3. /\ Sift(Append(s, e), S) = IF e \in S THEN Append(Sift(s, S), e) ELSE Sift(s, S)
        /\ Sift(Append(s, e), R) = IF e \in R THEN Append(Sift(s, R), e) ELSE Sift(s, R)
    BY <2>1, SiftAppend
  <2> QED
    BY <2>1, <2>2, <2>3
<1> HIDE DEF Q
<1>3. Q = Seq(T)
  BY <1>1, <1>2, SequencesOf DEF Q
<1> QED
  BY <1>3 DEF Q

\* A sequence of what is to stay stays as it is.
LEMMA SiftAll ==
  ASSUME NEW T, NEW S
  PROVE  \A s \in Seq(T) : (\A i \in 1 .. Len(s) : s[i] \in S) => Sift(s, S) = s
<1> DEFINE All(s) == \A i \in 1 .. Len(s) : s[i] \in S
           Q == {s \in Seq(T) : All(s) => Sift(s, S) = s}
<1>1. <<>> \in Q
  BY EmptySeq, SiftEmpty
<1>2. ASSUME NEW s \in Q, NEW e \in T PROVE Append(s, e) \in Q
  <2>1. s \in Seq(T) /\ Append(s, e) \in Seq(T)
    BY AppendProperties
  <2>2. All(Append(s, e)) => All(s) /\ e \in S
    BY <2>1, AppendProperties, LenProperties
  <2>3. Sift(Append(s, e), S) = IF e \in S THEN Append(Sift(s, S), e) ELSE Sift(s, S)
    BY <2>1, SiftAppend
  <2> QED
    BY <2>1, <2>2, <2>3
<1> HIDE DEF Q
<1>3. Q = Seq(T)
  BY <1>1, <1>2, SequencesOf DEF Q
<1> QED
  BY <1>3 DEF Q
=============================================================================
