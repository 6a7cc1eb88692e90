----------------------- MODULE DependencyReviewerProofs -----------------------
(***************************************************************************)
(* Theorems of DependencyReviewer, for any manifests, packages, advisories,   *)
(* answers and batch size.                                                     *)
(***************************************************************************)
EXTENDS DependencyReviewer, WellFoundedInduction, FiniteSetTheorems, TLAPS

-----------------------------------------------------------------------------
(* What the recursive functions compute.  That a recursion has a solution, and *)
(* what holds of it, is shown by the least number at which it would fail.       *)

\* A set of numbers that is not empty has a least one.
LEMMA LeastNumber ==
  ASSUME NEW S, S \subseteq Nat, S # {}
  PROVE  \E m \in S : \A n \in S : m <= n
  <1>1. PICK m \in S : \A n \in S : ~(<<n, m>> \in OpToRel(<, Nat))
      BY WFMin, NatLessThanWellFounded, Zenon
  <1>2. ASSUME NEW n \in S PROVE m <= n
    <2>1. m \in Nat /\ n \in Nat
        OBVIOUS
    <2>2. n < m => <<n, m>> \in OpToRel(<, Nat)
        BY <2>1 DEF OpToRel
    <2>3. ~(n < m)
        BY <1>1, <2>2, Zenon
    <2> QED BY <2>1, <2>3
  <1> QED BY <1>2

\* What is kept when one more element has been looked at.
Extended(kept, e, wanted) ==
  IF e \in wanted /\ ~Contains(kept, e) THEN Append(kept, e) ELSE kept

\* What is kept after each element.
Kept(s, wanted) ==
  LET kept[n \in 0 .. Len(s)] ==
        IF n = 0 THEN <<>>
        ELSE IF s[n] \in wanted /\ ~Contains(kept[n - 1], s[n])
             THEN Append(kept[n - 1], s[n]) ELSE kept[n - 1]
  IN kept

\* g holds what is kept after each of the first k elements.
KeepsUpTo(g, k, s, wanted) ==
  g = [n \in 0 .. k |-> IF n = 0 THEN <<>> ELSE Extended(g[n - 1], s[n], wanted)]

LEMMA KeptExists ==
  ASSUME NEW s, NEW wanted, NEW k \in Nat
  PROVE  \E g : KeepsUpTo(g, k, s, wanted)
  <1> DEFINE P(j) == \E g : g = [n \in 0 .. j |->
                       IF n = 0 THEN <<>> ELSE Extended(g[n - 1], s[n], wanted)]
             Bad == {j \in Nat : ~P(j)}
  <1> SUFFICES ASSUME Bad # {} PROVE FALSE
      BY DEF KeepsUpTo
  <1>1. PICK m \in Bad : \A j \in Bad : m <= j
    <2>1. Bad \subseteq Nat
        OBVIOUS
    <2> HIDE DEF Bad
    <2> QED BY <2>1, LeastNumber
  <1>2. m # 0
    <2> DEFINE g == [n \in 0 .. 0 |-> <<>>]
    <2>1. g = [n \in 0 .. 0 |-> IF n = 0 THEN <<>> ELSE Extended(g[n - 1], s[n], wanted)]
        OBVIOUS
    <2>2. P(0)
        BY <2>1
    <2> QED BY <2>2
  <1>3. m - 1 \in Nat /\ m - 1 \notin Bad
      BY <1>1, <1>2
  <1>4. PICK g : g = [n \in 0 .. m - 1 |->
                       IF n = 0 THEN <<>> ELSE Extended(g[n - 1], s[n], wanted)]
      BY <1>3
  <1> DEFINE h == [n \in 0 .. m |-> IF n = m THEN Extended(g[m - 1], s[m], wanted) ELSE g[n]]
  <1>5. ASSUME NEW n \in 0 .. m
        PROVE  h[n] = IF n = 0 THEN <<>> ELSE Extended(h[n - 1], s[n], wanted)
    <2>1. CASE n = m
      <3>1. h[m - 1] = g[m - 1] /\ h[m] = Extended(g[m - 1], s[m], wanted)
          BY <1>2, <1>3
      <3> HIDE DEF h
      <3> QED BY <1>2, <2>1, <3>1
    <2>2. CASE n # m
      <3>1. n \in 0 .. m - 1 /\ h[n] = g[n] /\ (n # 0 => h[n - 1] = g[n - 1])
          BY <1>2, <1>3, <2>2
      <3>2. g[n] = IF n = 0 THEN <<>> ELSE Extended(g[n - 1], s[n], wanted)
          BY <1>4, <3>1
      <3> HIDE DEF h
      <3> QED BY <3>1, <3>2
    <2> QED BY <2>1, <2>2
  <1>6. h = [n \in 0 .. m |-> IF n = 0 THEN <<>> ELSE Extended(h[n - 1], s[n], wanted)]
    <2>1. h = [n \in 0 .. m |-> h[n]]
        OBVIOUS
    <2> HIDE DEF h
    <2> QED BY <1>5, <2>1
  <1>7. P(m)
    <2> HIDE DEF h
    <2> QED BY <1>6
  <1> QED BY <1>7

LEMMA KeptStep ==
  ASSUME NEW s, NEW wanted, Len(s) \in Nat
  PROVE  /\ Kept(s, wanted)[0] = <<>>
         /\ \A n \in 1 .. Len(s) :
              Kept(s, wanted)[n] = Extended(Kept(s, wanted)[n - 1], s[n], wanted)
  <1>1. Kept(s, wanted) = [n \in 0 .. Len(s) |->
             IF n = 0 THEN <<>> ELSE Extended(Kept(s, wanted)[n - 1], s[n], wanted)]
    <2>1. \E g : KeepsUpTo(g, Len(s), s, wanted)
        BY KeptExists
    <2> QED BY <2>1, Zenon DEF KeepsUpTo, Kept, Extended
  <1> QED BY <1>1

\* The a-th element of s is the first that is e.
FirstAt(s, a, e) == a \in DOMAIN s /\ s[a] = e /\ \A k \in 1 .. a - 1 : s[k] # e

\* Every element has a first place.
LEMMA FirstPlace ==
  ASSUME NEW T, NEW s \in Seq(T), NEW e, Contains(s, e)
  PROVE  \E a \in DOMAIN s : FirstAt(s, a, e)
  <1> DEFINE At == {i \in DOMAIN s : s[i] = e}
  <1>1. At \subseteq Nat /\ At # {}
      BY DEF Contains
  <1>2. PICK a \in At : \A i \in At : a <= i
    <2> HIDE DEF At
    <2> QED BY <1>1, LeastNumber
  <1>3. a \in DOMAIN s /\ s[a] = e
      OBVIOUS
  <1>4. ASSUME NEW k \in 1 .. a - 1, s[k] = e PROVE FALSE
    <2>1. k \in At
        BY <1>3, <1>4
    <2> QED BY <1>2, <1>3, <1>4, <2>1
  <1> QED BY <1>3, <1>4 DEF FirstAt

\* What is kept of the first n elements of s.
KeptWell(s, wanted, n, r) ==
  /\ \A e : Contains(r, e) <=> e \in wanted /\ \E i \in 1 .. n : s[i] = e
  /\ \A i, j \in DOMAIN r : i < j =>
       \A a, b \in DOMAIN s : FirstAt(s, a, r[i]) /\ FirstAt(s, b, r[j]) => a < b

LEMMA ExtendedWell ==
  ASSUME NEW T, NEW s \in Seq(T), NEW wanted, NEW n \in 1 .. Len(s),
         NEW r \in Seq(T), KeptWell(s, wanted, n - 1, r)
  PROVE  /\ Extended(r, s[n], wanted) \in Seq(T)
         /\ KeptWell(s, wanted, n, Extended(r, s[n], wanted))
  <1>1. n \in Nat /\ n - 1 \in Nat /\ \A i : i \in 1 .. n <=> i \in 1 .. n - 1 \/ i = n
      OBVIOUS
  <1>2. CASE s[n] \in wanted /\ ~Contains(r, s[n])
    <2> DEFINE t == Append(r, s[n])
    <2>1. /\ Extended(r, s[n], wanted) = t /\ t \in Seq(T)
          /\ Len(t) = Len(r) + 1 /\ Len(r) \in Nat /\ t[Len(r) + 1] = s[n]
          /\ DOMAIN t = 1 .. Len(t) /\ DOMAIN r = 1 .. Len(r)
          /\ \A i \in DOMAIN r : t[i] = r[i]
        BY <1>2 DEF Extended
    <2> HIDE DEF t
    <2>2. \A e : Contains(t, e) <=> Contains(r, e) \/ e = s[n]
      <3>1. \A i \in 1 .. Len(t) : (i \in 1 .. Len(r) /\ t[i] = r[i]) \/ t[i] = s[n]
          BY <2>1
      <3>2. \A i \in 1 .. Len(r) : i \in 1 .. Len(t) /\ t[i] = r[i]
          BY <2>1
      <3>3. Len(r) + 1 \in 1 .. Len(t)
          BY <2>1
      <3> QED BY <2>1, <3>1, <3>2, <3>3 DEF Contains
    <2>3. \A e : Contains(t, e) <=> e \in wanted /\ \E i \in 1 .. n : s[i] = e
        BY <1>1, <1>2, <2>2 DEF KeptWell
    <2>4. ASSUME NEW i \in DOMAIN t, NEW j \in DOMAIN t, i < j,
                 NEW a \in DOMAIN s, NEW b \in DOMAIN s, FirstAt(s, a, t[i]), FirstAt(s, b, t[j])
          PROVE  a < b
      <3>1. i \in DOMAIN r /\ t[i] = r[i]
          BY <2>1, <2>4
      <3>2. CASE j \in DOMAIN r
          BY <2>1, <2>4, <3>1, <3>2 DEF KeptWell
      <3>3. CASE j \notin DOMAIN r
        <4>1. t[j] = s[n]
            BY <2>1, <3>3
        <4>2. Contains(r, r[i])
            BY <2>1, <3>1 DEF Contains
        <4>3. PICK k \in 1 .. n - 1 : s[k] = r[i]
            BY <4>2 DEF KeptWell
        <4>4. a <= k
            BY <2>4, <3>1, <4>3 DEF FirstAt
        <4>5. b >= n
          <5>1. ~(\E l \in 1 .. n - 1 : s[l] = s[n])
              BY <1>2 DEF KeptWell
          <5> QED BY <1>1, <2>4, <4>1, <5>1 DEF FirstAt
        <4> QED BY <1>1, <4>3, <4>4, <4>5
      <3> QED BY <3>2, <3>3
    <2>5. KeptWell(s, wanted, n, t)
        BY <2>3, <2>4 DEF KeptWell
    <2> QED BY <2>1, <2>5
  <1>3. CASE ~(s[n] \in wanted /\ ~Contains(r, s[n]))
    <2>1. Extended(r, s[n], wanted) = r
        BY <1>3 DEF Extended
    <2>2. \A e : Contains(r, e) <=> e \in wanted /\ \E i \in 1 .. n : s[i] = e
        BY <1>1, <1>3 DEF KeptWell
    <2> QED BY <2>1, <2>2 DEF KeptWell
  <1> QED BY <1>2, <1>3

\* Distinct keeps what is wanted, once, in the order of the first places.
LEMMA DistinctKeeps ==
  ASSUME NEW T, NEW s \in Seq(T), NEW wanted
  PROVE  /\ Distinct(s, wanted) \in Seq(T)
         /\ KeptWell(s, wanted, Len(s), Distinct(s, wanted))
  <1> DEFINE K == Kept(s, wanted)
             Well(n) == K[n] \in Seq(T) /\ KeptWell(s, wanted, n, K[n])
             Bad == {n \in 0 .. Len(s) : ~Well(n)}
  <1>0. Len(s) \in Nat
      OBVIOUS
  <1>1. K[0] = <<>> /\ \A n \in 1 .. Len(s) : K[n] = Extended(K[n - 1], s[n], wanted)
      BY <1>0, KeptStep
  <1>2. Distinct(s, wanted) = K[Len(s)]
      BY DEF Distinct, Kept
  <1> HIDE DEF K
  <1>3. Well(0)
    <2>1. <<>> \in Seq(T) /\ DOMAIN <<>> = {} /\ \A e : ~Contains(<<>>, e)
        BY DEF Contains
    <2>2. KeptWell(s, wanted, 0, <<>>)
        BY <2>1 DEF KeptWell
    <2> QED BY <1>1, <2>1, <2>2
  <1>4. \A n \in 1 .. Len(s) : Well(n - 1) => Well(n)
    <2> SUFFICES ASSUME NEW n \in 1 .. Len(s), Well(n - 1) PROVE Well(n)
        OBVIOUS
    <2>1. K[n] = Extended(K[n - 1], s[n], wanted)
        BY <1>1
    <2>2. K[n - 1] \in Seq(T) /\ KeptWell(s, wanted, n - 1, K[n - 1])
        OBVIOUS
    <2>3. \A r : r \in Seq(T) /\ KeptWell(s, wanted, n - 1, r) =>
                   /\ Extended(r, s[n], wanted) \in Seq(T)
                   /\ KeptWell(s, wanted, n, Extended(r, s[n], wanted))
        BY ExtendedWell
    <2> QED BY <2>1, <2>2, <2>3
  <1> HIDE DEF Well
  <1>5. Bad = {}
    <2> SUFFICES ASSUME Bad # {} PROVE FALSE
        OBVIOUS
    <2>1. PICK m \in Bad : \A n \in Bad : m <= n
      <3>1. Bad \subseteq Nat
          BY <1>0
      <3> HIDE DEF Bad
      <3> QED BY <3>1, LeastNumber
    <2>2. m \in 1 .. Len(s) /\ m - 1 \in 0 .. Len(s) /\ m - 1 \notin Bad
        BY <1>0, <1>3, <2>1
    <2> QED BY <1>4, <2>1, <2>2
  <1>6. Well(Len(s))
      BY <1>0, <1>5
  <1> QED BY <1>2, <1>6 DEF Well

\* r holds the elements of the first n sequences of ss, each once: its k-th is
\* element col[k] of sequence row[k], in that order.
Placed(ss, n, r, row, col) ==
  /\ row \in [DOMAIN r -> 1 .. n] /\ col \in [DOMAIN r -> Nat]
  /\ \A k \in DOMAIN r : col[k] \in DOMAIN ss[row[k]] /\ r[k] = ss[row[k]][col[k]]
  /\ \A i \in 1 .. n : \A j \in DOMAIN ss[i] : \E k \in DOMAIN r : row[k] = i /\ col[k] = j
  /\ \A k, l \in DOMAIN r : k < l => row[k] < row[l] \/ (row[k] = row[l] /\ col[k] < col[l])

Flat(ss, n, r) == \E row, col : Placed(ss, n, r, row, col)

\* One more sequence at the end.
LEMMA FlatAppend ==
  ASSUME NEW T, NEW ss \in Seq(Seq(T)), NEW n \in 1 .. Len(ss), NEW r \in Seq(T),
         Flat(ss, n - 1, r)
  PROVE  r \o ss[n] \in Seq(T) /\ Flat(ss, n, r \o ss[n])
  <1> DEFINE t == r \o ss[n]
             m == Len(r)
  <1>1. PICK row, col : Placed(ss, n - 1, r, row, col)
      BY DEF Flat
  <1>2. /\ ss[n] \in Seq(T) /\ t \in Seq(T) /\ m \in Nat /\ Len(ss[n]) \in Nat /\ n \in Nat
        /\ DOMAIN r = 1 .. m /\ DOMAIN ss[n] = 1 .. Len(ss[n])
        /\ DOMAIN t = 1 .. m + Len(ss[n])
        /\ \A k \in 1 .. m : k \in DOMAIN t /\ t[k] = r[k]
        /\ \A j \in 1 .. Len(ss[n]) : m + j \in DOMAIN t /\ t[m + j] = ss[n][j]
    <2>1. ss[n] \in Seq(T)
        OBVIOUS
    <2> QED BY <2>1
  <1>3. \A k \in DOMAIN t : k \in 1 .. m \/ (k > m /\ k - m \in 1 .. Len(ss[n]) /\ t[k] = ss[n][k - m])
    <2> SUFFICES ASSUME NEW k \in DOMAIN t, k \notin 1 .. m
                 PROVE  k > m /\ k - m \in 1 .. Len(ss[n]) /\ t[k] = ss[n][k - m]
        OBVIOUS
    <2>1. k \in Nat /\ k > m /\ k - m \in 1 .. Len(ss[n])
        BY <1>2
    <2>2. m + (k - m) = k
        BY <1>2, <2>1
    <2> HIDE DEF t, m
    <2> QED BY <1>2, <2>1, <2>2
  <1> HIDE DEF t, m
  <1> DEFINE row2 == [k \in DOMAIN t |-> IF k <= m THEN row[k] ELSE n]
             col2 == [k \in DOMAIN t |-> IF k <= m THEN col[k] ELSE k - m]
  <1>4. \A k \in 1 .. m : k \in DOMAIN t /\ row2[k] = row[k] /\ col2[k] = col[k]
                          /\ row[k] \in 1 .. n - 1 /\ col[k] \in Nat
      BY <1>1, <1>2 DEF Placed
  <1>5. \A k \in DOMAIN t : k > m => row2[k] = n /\ col2[k] = k - m
      BY <1>2
  <1>6. row2 \in [DOMAIN t -> 1 .. n] /\ col2 \in [DOMAIN t -> Nat]
    <2>1. \A k \in DOMAIN t : row2[k] \in 1 .. n /\ col2[k] \in Nat
      <3> SUFFICES ASSUME NEW k \in DOMAIN t PROVE row2[k] \in 1 .. n /\ col2[k] \in Nat
          OBVIOUS
      <3>1. CASE k \in 1 .. m
        <4>1. row2[k] \in 1 .. n - 1 /\ col2[k] \in Nat
            BY <1>4, <3>1
        <4>2. n \in Nat
            BY <1>2
        <4> HIDE DEF row2, col2
        <4> QED BY <4>1, <4>2
      <3>2. CASE k \notin 1 .. m
        <4>1. k > m /\ k - m \in 1 .. Len(ss[n])
            BY <1>3, <3>2
        <4> HIDE DEF row2, col2
        <4> QED BY <1>2, <1>5, <4>1
      <3> QED BY <3>1, <3>2
    <2> QED BY <2>1
  <1> HIDE DEF row2, col2
  <1>7. \A k \in DOMAIN t : col2[k] \in DOMAIN ss[row2[k]] /\ t[k] = ss[row2[k]][col2[k]]
    <2> SUFFICES ASSUME NEW k \in DOMAIN t
                 PROVE  col2[k] \in DOMAIN ss[row2[k]] /\ t[k] = ss[row2[k]][col2[k]]
        OBVIOUS
    <2>1. CASE k \in 1 .. m
        BY <1>1, <1>2, <1>4, <2>1 DEF Placed
    <2>2. CASE k \notin 1 .. m
      <3>1. k > m /\ k - m \in 1 .. Len(ss[n]) /\ t[k] = ss[n][k - m]
          BY <1>3, <2>2
      <3>2. row2[k] = n /\ col2[k] = k - m
          BY <1>5, <3>1
      <3> QED BY <1>2, <3>1, <3>2
    <2> QED BY <2>1, <2>2
  <1>8. \A i \in 1 .. n : \A j \in DOMAIN ss[i] : \E k \in DOMAIN t : row2[k] = i /\ col2[k] = j
    <2> SUFFICES ASSUME NEW i \in 1 .. n, NEW j \in DOMAIN ss[i]
                 PROVE  \E k \in DOMAIN t : row2[k] = i /\ col2[k] = j
        OBVIOUS
    <2>1. CASE i = n
      <3>1. j \in 1 .. Len(ss[n]) /\ m + j \in DOMAIN t /\ m + j > m /\ (m + j) - m = j
          BY <1>2, <2>1
      <3> QED BY <1>5, <2>1, <3>1
    <2>2. CASE i # n
      <3>1. i \in 1 .. n - 1
          BY <1>2, <2>2
      <3>2. PICK k \in DOMAIN r : row[k] = i /\ col[k] = j
          BY <1>1, <3>1 DEF Placed
      <3> QED BY <1>2, <1>4, <3>2
    <2> QED BY <2>1, <2>2
  <1>9. \A k, l \in DOMAIN t : k < l =>
          row2[k] < row2[l] \/ (row2[k] = row2[l] /\ col2[k] < col2[l])
    <2> SUFFICES ASSUME NEW k \in DOMAIN t, NEW l \in DOMAIN t, k < l
                 PROVE  row2[k] < row2[l] \/ (row2[k] = row2[l] /\ col2[k] < col2[l])
        OBVIOUS
    <2>1. k \in Nat /\ l \in Nat /\ m \in Nat /\ n \in Nat
        BY <1>2
    <2>2. CASE k \in 1 .. m /\ l \in 1 .. m
      <3>1. row[k] < row[l] \/ (row[k] = row[l] /\ col[k] < col[l])
          BY <1>1, <1>2, <2>2 DEF Placed
      <3> QED BY <1>4, <2>2, <3>1
    <2>3. CASE k \in 1 .. m /\ l \notin 1 .. m
      <3>1. row2[k] \in 1 .. n - 1
          BY <1>4, <2>3
      <3>2. l > m
          BY <2>1, <2>3
      <3>3. row2[l] = n
          BY <1>5, <3>2
      <3> QED BY <2>1, <3>1, <3>3
    <2>4. CASE k \notin 1 .. m
      <3>1. k \in 1 .. m \/ k > m
          BY <1>3
      <3>2. k > m /\ l > m
          BY <2>1, <2>4, <3>1
      <3>3. row2[k] = n /\ row2[l] = n /\ col2[k] = k - m /\ col2[l] = l - m
          BY <1>5, <3>2
      <3> QED BY <2>1, <3>3
        <2> QED BY <2>2, <2>3, <2>4
  <1>10. Placed(ss, n, t, row2, col2)
      BY <1>6, <1>7, <1>8, <1>9 DEF Placed
  <1> QED BY <1>2, <1>10 DEF Flat, t

\* g holds the first k sequences of ss, joined one after the other.
JoinsUpTo(g, k, ss) ==
  g = [i \in 1 .. k |-> IF i = 1 THEN ss[i] ELSE g[i - 1] \o ss[i]]

\* The function that FlattenSeq defines.
Joined(ss) ==
  LET flatten[i \in 1 .. Len(ss)] == IF i = 1 THEN ss[i] ELSE flatten[i - 1] \o ss[i]
  IN flatten

LEMMA JoinExists ==
  ASSUME NEW ss, NEW k \in Nat
  PROVE  \E g : JoinsUpTo(g, k, ss)
  <1> DEFINE P(j) == \E g : g = [i \in 1 .. j |->
                       IF i = 1 THEN ss[i] ELSE g[i - 1] \o ss[i]]
             Bad == {j \in Nat : ~P(j)}
  <1> SUFFICES ASSUME Bad # {} PROVE FALSE
      BY DEF JoinsUpTo
  <1>1. PICK m \in Bad : \A j \in Bad : m <= j
    <2>1. Bad \subseteq Nat
        OBVIOUS
    <2> HIDE DEF Bad
    <2> QED BY <2>1, LeastNumber
  <1>2. m # 0
    <2> DEFINE g == [i \in 1 .. 0 |-> <<>>]
    <2>1. g = [i \in 1 .. 0 |-> IF i = 1 THEN ss[i] ELSE g[i - 1] \o ss[i]]
        OBVIOUS
    <2>2. P(0)
        BY <2>1
    <2> QED BY <2>2
  <1>3. m - 1 \in Nat /\ m - 1 \notin Bad
    <2> HIDE DEF P
    <2>1. m \in Nat /\ m - 1 \in Nat /\ ~(m <= m - 1)
        BY <1>2
    <2> QED BY <1>1, <2>1
  <1>4. PICK g : g = [i \in 1 .. m - 1 |-> IF i = 1 THEN ss[i] ELSE g[i - 1] \o ss[i]]
      BY <1>3
  <1> DEFINE h == [i \in 1 .. m |->
                     IF i = m THEN (IF m = 1 THEN ss[m] ELSE g[m - 1] \o ss[m]) ELSE g[i]]
  <1>5. ASSUME NEW i \in 1 .. m
        PROVE  h[i] = IF i = 1 THEN ss[i] ELSE h[i - 1] \o ss[i]
    <2>1. CASE i = m
      <3>1. /\ h[m] = IF m = 1 THEN ss[m] ELSE g[m - 1] \o ss[m]
            /\ m # 1 => h[m - 1] = g[m - 1]
          BY <1>2, <1>3
      <3> HIDE DEF h
      <3> QED BY <2>1, <3>1
    <2>2. CASE i # m
      <3>1. i \in 1 .. m - 1 /\ h[i] = g[i] /\ (i # 1 => h[i - 1] = g[i - 1])
          BY <1>2, <1>3, <2>2
      <3>2. g[i] = IF i = 1 THEN ss[i] ELSE g[i - 1] \o ss[i]
          BY <1>4, <3>1
      <3> HIDE DEF h
      <3> QED BY <3>1, <3>2
    <2> QED BY <2>1, <2>2
  <1>6. h = [i \in 1 .. m |-> IF i = 1 THEN ss[i] ELSE h[i - 1] \o ss[i]]
    <2>1. h = [i \in 1 .. m |-> h[i]]
        OBVIOUS
    <2> HIDE DEF h
    <2> QED BY <1>5, <2>1
  <1>7. P(m)
    <2> HIDE DEF h
    <2> QED BY <1>6
  <1> QED BY <1>7

LEMMA JoinStep ==
  ASSUME NEW ss, Len(ss) \in Nat
  PROVE  \A i \in 1 .. Len(ss) :
           Joined(ss)[i] = IF i = 1 THEN ss[i] ELSE Joined(ss)[i - 1] \o ss[i]
  <1>1. Joined(ss) = [i \in 1 .. Len(ss) |->
                        IF i = 1 THEN ss[i] ELSE Joined(ss)[i - 1] \o ss[i]]
    <2>1. \E g : JoinsUpTo(g, Len(ss), ss)
        BY JoinExists
    <2> QED BY <2>1, Zenon DEF JoinsUpTo, Joined
  <1> QED BY <1>1

\* FlattenSeq keeps every element of every sequence in its place.
LEMMA FlattenKeeps ==
  ASSUME NEW T, NEW ss \in Seq(Seq(T))
  PROVE  FlattenSeq(ss) \in Seq(T) /\ Flat(ss, Len(ss), FlattenSeq(ss))
  <1>0. Len(ss) \in Nat /\ ss \in [1 .. Len(ss) -> Seq(T)]
      OBVIOUS
  <1>1. Flat(ss, 0, <<>>) /\ <<>> \in Seq(T)
    <2> DEFINE none == [k \in {} |-> 0]
    <2>1. DOMAIN <<>> = {} /\ <<>> \in Seq(T)
        OBVIOUS
    <2>2. none \in [{} -> 1 .. 0] /\ none \in [{} -> Nat]
        OBVIOUS
    <2> HIDE DEF none
    <2>3. Placed(ss, 0, <<>>, none, none)
        BY <2>1, <2>2 DEF Placed
    <2> QED BY <2>1, <2>3 DEF Flat
  <1>2. CASE Len(ss) = 0
    <2>1. ss = <<>>
        BY <1>2
    <2>2. FlattenSeq(ss) = <<>>
        BY <1>2, <2>1 DEF FlattenSeq
    <2> QED BY <1>1, <1>2, <2>2
  <1>3. CASE Len(ss) # 0
    <2> DEFINE J == Joined(ss)
               Well(i) == J[i] \in Seq(T) /\ Flat(ss, i, J[i])
               Bad == {i \in 1 .. Len(ss) : ~Well(i)}
    <2>1. FlattenSeq(ss) = J[Len(ss)]
        BY <1>3 DEF FlattenSeq, Joined
    <2>2. \A i \in 1 .. Len(ss) : J[i] = IF i = 1 THEN ss[i] ELSE J[i - 1] \o ss[i]
        BY <1>0, JoinStep
    <2> HIDE DEF J
    <2>3. \A i \in 1 .. Len(ss) : \A r \in Seq(T) :
            Flat(ss, i - 1, r) => r \o ss[i] \in Seq(T) /\ Flat(ss, i, r \o ss[i])
        BY FlatAppend
    <2>4. 1 \in 1 .. Len(ss) /\ Well(1)
      <3>1. 1 \in 1 .. Len(ss) /\ 1 - 1 = 0
          BY <1>0, <1>3
      <3>2. ss[1] \in Seq(T) /\ <<>> \o ss[1] = ss[1]
          BY <1>0, <3>1
      <3>3. J[1] = ss[1]
          BY <2>2, <3>1
      <3> QED BY <1>1, <2>3, <3>1, <3>2, <3>3
    <2>5. \A i \in 2 .. Len(ss) : Well(i - 1) => Well(i)
      <3> SUFFICES ASSUME NEW i \in 2 .. Len(ss), Well(i - 1) PROVE Well(i)
          OBVIOUS
      <3>1. i \in 1 .. Len(ss) /\ i # 1
          BY <1>0
      <3>2. J[i] = J[i - 1] \o ss[i]
          BY <2>2, <3>1
      <3>3. J[i - 1] \in Seq(T) /\ Flat(ss, i - 1, J[i - 1])
          OBVIOUS
      <3> QED BY <2>3, <3>1, <3>2, <3>3
    <2> HIDE DEF Well
    <2>6. Bad = {}
      <3> SUFFICES ASSUME Bad # {} PROVE FALSE
          OBVIOUS
      <3>1. PICK m \in Bad : \A i \in Bad : m <= i
        <4>1. Bad \subseteq Nat
            BY <1>0
        <4> HIDE DEF Bad
        <4> QED BY <4>1, LeastNumber
      <3>2. m \in 2 .. Len(ss) /\ m - 1 \in 1 .. Len(ss) /\ m - 1 \notin Bad
          BY <1>0, <2>4, <3>1
      <3> QED BY <2>5, <3>1, <3>2
    <2>7. Well(Len(ss))
        BY <1>0, <1>3, <2>6
    <2> QED BY <2>1, <2>7 DEF Well
  <1> QED BY <1>2, <1>3

\* Place is the first place.
LEMMA PlaceIsFirst ==
  ASSUME NEW T, NEW s \in Seq(T), NEW e, Contains(s, e)
  PROVE  Place(s, e) \in DOMAIN s /\ FirstAt(s, Place(s, e), e)
  <1>1. \E a : a \in DOMAIN s /\ (s[a] = e /\ \A j \in 1 .. a - 1 : s[j] # e)
      BY FirstPlace, Zenon DEF FirstAt
  <1>2. Place(s, e) \in DOMAIN s /\ (s[Place(s, e)] = e /\ \A j \in 1 .. Place(s, e) - 1 : s[j] # e)
      BY <1>1, Zenon DEF Place
  <1> QED BY <1>2 DEF FirstAt

\* What is kept, is kept once and in the order of the first places.
LEMMA KeptOrder ==
  ASSUME NEW T, NEW s \in Seq(T), NEW wanted, NEW r \in Seq(T),
         KeptWell(s, wanted, Len(s), r), NEW i \in DOMAIN r, NEW j \in DOMAIN r, i < j
  PROVE  r[i] # r[j] /\ Place(s, r[i]) < Place(s, r[j])
  <1>1. \A k \in DOMAIN r : Contains(r, r[k])
      BY DEF Contains
  <1>2. \A k \in DOMAIN r : Contains(s, r[k])
      BY <1>1 DEF KeptWell, Contains
  <1>3. \A k \in DOMAIN r : Place(s, r[k]) \in DOMAIN s /\ FirstAt(s, Place(s, r[k]), r[k])
      BY <1>2, PlaceIsFirst
  <1>4. Place(s, r[i]) < Place(s, r[j])
      BY <1>3 DEF KeptWell
  <1>5. r[i] # r[j]
    <2>1. Place(s, r[i]) \in Nat
        BY <1>3
    <2>2. ~(Place(s, r[i]) < Place(s, r[i]))
        BY <2>1
    <2> QED BY <1>4, <2>2
  <1> QED BY <1>4, <1>5

-----------------------------------------------------------------------------
(* The deps of a scan.                                                      *)

\* The readable manifests that pin p.
Pinning(outcome, p) == {i \in Readable(outcome) : Contains(outcome[i], p)}

\* What the parsers may return.
IsOutcome(outcome) ==
  /\ outcome \in [DOMAIN matched -> Contents \cup {Unreadable, <<>>}]
  /\ \A i \in DOMAIN matched : outcome[i] \in Outcomes(matched[i])

LEMMA ReadableContents ==
  ASSUME matched \in Seq(Kinds), NEW outcome, IsOutcome(outcome)
  PROVE  /\ Readable(outcome) \subseteq DOMAIN matched
         /\ DOMAIN matched = 1 .. Len(matched) /\ Len(matched) \in Nat
         /\ \A i \in Readable(outcome) : outcome[i] \in Contents /\ outcome[i] \in Seq(Packages)
         /\ \A i \in DOMAIN matched : i \notin Readable(outcome) =>
              outcome[i] = Unreadable \/ outcome[i] = <<>>
  BY InputsAssumption DEF IsOutcome, Readable, Outcomes

\* The manifest that is cited is the first one.
LEMMA SourceIsFirst ==
  ASSUME matched \in Seq(Kinds), NEW outcome, IsOutcome(outcome),
         NEW p, Pinning(outcome, p) # {}
  PROVE  /\ FirstSource(outcome, p) \in Pinning(outcome, p)
         /\ \A j \in Pinning(outcome, p) : FirstSource(outcome, p) <= j
  <1>1. Pinning(outcome, p) \subseteq Nat
      BY ReadableContents DEF Pinning
  <1>2. \E m \in Pinning(outcome, p) : \A j \in Pinning(outcome, p) : m <= j
      BY <1>1, LeastNumber
  <1>3. \E i \in Readable(outcome) : Contains(outcome[i], p)
          /\ \A j \in Readable(outcome) : Contains(outcome[j], p) => i <= j
      BY <1>2 DEF Pinning
  <1>4. /\ FirstSource(outcome, p) \in Readable(outcome)
        /\ Contains(outcome[FirstSource(outcome, p)], p)
        /\ \A j \in Readable(outcome) : Contains(outcome[j], p) => FirstSource(outcome, p) <= j
      BY <1>3, Zenon DEF FirstSource
  <1> QED BY <1>4 DEF Pinning

\* The deps that every readable manifest adds.
Additions(outcome) ==
  [i \in DOMAIN outcome |-> IF i \in Readable(outcome) THEN outcome[i] ELSE <<>>]

\* p comes before q in the manifests.
ComesBefore(outcome, p, q) ==
  LET f == FirstSource(outcome, p)
      g == FirstSource(outcome, q)
  IN /\ p # q
     /\ f < g \/ (f = g /\ Place(outcome[f], p) < Place(outcome[f], q))

\* The first place of p in the joined manifests is that of the manifest cited.
LEMMA FirstOfJoined ==
  ASSUME matched \in Seq(Kinds), NEW outcome, IsOutcome(outcome),
         NEW L \in Seq(Packages), NEW row, NEW col,
         Placed(Additions(outcome), Len(matched), L, row, col),
         NEW p, NEW a, FirstAt(L, a, p)
  PROVE  /\ Pinning(outcome, p) # {}
         /\ row[a] = FirstSource(outcome, p)
         /\ col[a] = Place(outcome[row[a]], p)
  <1> DEFINE A == Additions(outcome)
  <1>0. /\ DOMAIN outcome = DOMAIN matched
        /\ \A i \in DOMAIN matched :
             A[i] = IF i \in Readable(outcome) THEN outcome[i] ELSE <<>>
      BY DEF Additions, IsOutcome
  <1>1. /\ DOMAIN matched = 1 .. Len(matched) /\ Len(matched) \in Nat
        /\ Readable(outcome) \subseteq DOMAIN matched
        /\ \A i \in Readable(outcome) : outcome[i] \in Seq(Packages)
      BY ReadableContents
  <1>2. /\ row \in [DOMAIN L -> DOMAIN matched] /\ col \in [DOMAIN L -> Nat]
        /\ \A k \in DOMAIN L : col[k] \in DOMAIN A[row[k]] /\ L[k] = A[row[k]][col[k]]
        /\ \A i \in DOMAIN matched : \A j \in DOMAIN A[i] :
             \E k \in DOMAIN L : row[k] = i /\ col[k] = j
        /\ \A k, l \in DOMAIN L :
             k < l => row[k] < row[l] \/ (row[k] = row[l] /\ col[k] < col[l])
      BY <1>1 DEF Placed
  <1> HIDE DEF A
  <1>3. a \in DOMAIN L /\ L[a] = p /\ \A k \in 1 .. a - 1 : L[k] # p
      BY DEF FirstAt
  <1>4. row[a] \in Readable(outcome)
    <2>1. DOMAIN <<>> = {}
        OBVIOUS
    <2>2. row[a] \in DOMAIN matched /\ col[a] \in DOMAIN A[row[a]]
        BY <1>2, <1>3
    <2> QED BY <1>0, <2>1, <2>2
  <1>5. col[a] \in DOMAIN outcome[row[a]] /\ outcome[row[a]][col[a]] = p
      BY <1>0, <1>1, <1>2, <1>3, <1>4
  <1>6. row[a] \in Pinning(outcome, p)
      BY <1>1, <1>4, <1>5 DEF Pinning, Contains
  <1> DEFINE f == FirstSource(outcome, p)
             c == Place(outcome[f], p)
  <1>7. f \in Pinning(outcome, p) /\ f <= row[a]
      BY <1>6, SourceIsFirst
  <1>8. f \in Readable(outcome) /\ Contains(outcome[f], p) /\ outcome[f] \in Seq(Packages)
      BY <1>1, <1>7 DEF Pinning
  <1> HIDE DEF f
  <1>9. c \in DOMAIN outcome[f] /\ outcome[f][c] = p /\ \A j \in 1 .. c - 1 : outcome[f][j] # p
      BY <1>8, PlaceIsFirst DEF FirstAt
  <1> HIDE DEF c
  <1>10. PICK k \in DOMAIN L : row[k] = f /\ col[k] = c
    <2>1. f \in DOMAIN matched /\ A[f] = outcome[f]
        BY <1>0, <1>1, <1>8
    <2> QED BY <1>2, <1>9, <2>1
  <1>11. L[k] = p
      BY <1>0, <1>1, <1>2, <1>8, <1>9, <1>10
  <1>12. ~(k < a)
      BY <1>3, <1>11
  <1>13. ~(a < k)
    <2> SUFFICES ASSUME a < k PROVE FALSE
        OBVIOUS
    <2>1. row[a] < f \/ (row[a] = f /\ col[a] < c)
        BY <1>2, <1>3, <1>10
    <2>2. row[a] \in Nat /\ f \in Nat
        BY <1>1, <1>4, <1>8
    <2>3. row[a] = f /\ col[a] < c
        BY <1>7, <2>1, <2>2
    <2>4. col[a] \in 1 .. c - 1
        BY <1>5, <1>8, <1>9, <2>3
    <2> QED BY <1>5, <1>9, <2>3, <2>4
  <1>14. a = k
      BY <1>3, <1>12, <1>13
  <1> QED BY <1>6, <1>10, <1>14 DEF f, c

\* The deps are the packages some readable manifest pins, in their order.
LEMMA DepsWell ==
  ASSUME matched \in Seq(Kinds), NEW outcome, IsOutcome(outcome)
  PROVE  /\ Found(outcome) \in Seq(Packages)
         /\ \A p : Contains(Found(outcome), p) <=> Pinning(outcome, p) # {}
         /\ \A i, j \in DOMAIN Found(outcome) :
              i < j => ComesBefore(outcome, Found(outcome)[i], Found(outcome)[j])
  <1> DEFINE A == Additions(outcome)
             L == FlattenSeq(A)
             d == Found(outcome)
  <1>1. /\ DOMAIN matched = 1 .. Len(matched) /\ Len(matched) \in Nat
        /\ Readable(outcome) \subseteq DOMAIN matched
        /\ \A i \in Readable(outcome) : outcome[i] \in Seq(Packages)
      BY ReadableContents
  <1>2. DOMAIN outcome = DOMAIN matched
      BY DEF IsOutcome
  <1>3. A \in Seq(Seq(Packages)) /\ Len(A) = Len(matched)
      BY <1>1, <1>2 DEF Additions
  <1>4. L \in Seq(Packages) /\ Flat(A, Len(matched), L)
    <2> HIDE DEF A
    <2> QED BY <1>3, FlattenKeeps
  <1>5. d = Distinct(L, Packages)
      BY DEF Found, Additions
  <1> HIDE DEF L, d, A
  <1>6. d \in Seq(Packages) /\ KeptWell(L, Packages, Len(L), d)
      BY <1>4, <1>5, DistinctKeeps
  <1>7. PICK row, col : Placed(A, Len(matched), L, row, col)
      BY <1>4 DEF Flat
  <1>8. \A p : \A a : FirstAt(L, a, p) =>
          /\ Pinning(outcome, p) # {} /\ row[a] = FirstSource(outcome, p)
          /\ col[a] = Place(outcome[row[a]], p)
      BY <1>4, <1>7, FirstOfJoined DEF A
  <1>9. ASSUME NEW p PROVE Contains(d, p) <=> Contains(L, p)
    <2>1. Contains(d, p) <=> p \in Packages /\ \E i \in 1 .. Len(L) : L[i] = p
        BY <1>6 DEF KeptWell
    <2>2. Contains(L, p) <=> \E i \in 1 .. Len(L) : L[i] = p
        BY DEF Contains
    <2>3. \A i \in 1 .. Len(L) : L[i] \in Packages
        BY <1>4
    <2> QED BY <2>1, <2>2, <2>3
  <1>10. ASSUME NEW p PROVE Contains(L, p) <=> Pinning(outcome, p) # {}
    <2>1. ASSUME Contains(L, p) PROVE Pinning(outcome, p) # {}
        BY <1>4, <1>8, <2>1, FirstPlace
    <2>2. ASSUME NEW i \in Pinning(outcome, p) PROVE Contains(L, p)
      <3>1. i \in Readable(outcome) /\ i \in DOMAIN matched /\ Contains(outcome[i], p)
          BY <1>1 DEF Pinning
      <3>2. A[i] = outcome[i]
          BY <1>2, <3>1 DEF A, Additions
      <3>3. PICK j \in DOMAIN A[i] : A[i][j] = p
          BY <1>1, <3>1, <3>2 DEF Contains
      <3>4. PICK k \in DOMAIN L : row[k] = i /\ col[k] = j
          BY <1>1, <1>7, <3>1, <3>3 DEF Placed
      <3>5. L[k] = p
          BY <1>7, <3>3, <3>4 DEF Placed
      <3> QED BY <1>4, <3>5 DEF Contains
    <2> QED BY <2>1, <2>2
  <1>11. ASSUME NEW i \in DOMAIN d, NEW j \in DOMAIN d, i < j
         PROVE  ComesBefore(outcome, d[i], d[j])
    <2> DEFINE a == Place(L, d[i])
               b == Place(L, d[j])
    <2>1. d[i] # d[j] /\ a < b
        BY <1>4, <1>6, <1>11, KeptOrder
    <2>2. Contains(L, d[i]) /\ Contains(L, d[j])
      <3>1. d \in Seq(Packages)
          BY <1>6
      <3>2. Contains(d, d[i]) /\ Contains(d, d[j])
          BY <3>1 DEF Contains
      <3> QED BY <1>9, <3>2
    <2>3. /\ a \in DOMAIN L /\ FirstAt(L, a, d[i])
          /\ b \in DOMAIN L /\ FirstAt(L, b, d[j])
        BY <1>4, <2>2, PlaceIsFirst
    <2> HIDE DEF a, b
    <2>4. row[a] < row[b] \/ (row[a] = row[b] /\ col[a] < col[b])
        BY <1>7, <2>1, <2>3 DEF Placed
    <2>5. /\ row[a] = FirstSource(outcome, d[i]) /\ col[a] = Place(outcome[row[a]], d[i])
          /\ row[b] = FirstSource(outcome, d[j]) /\ col[b] = Place(outcome[row[b]], d[j])
        BY <1>8, <2>3
    <2> QED BY <2>1, <2>4, <2>5 DEF ComesBefore
  <1> QED BY <1>6, <1>9, <1>10, <1>11 DEF d

-----------------------------------------------------------------------------
(* The findings of a scan, and their severity.                              *)

Ids == dep_to_ids \in [Packages -> Seq(Advisories)]

LEMMA VulnsWell ==
  ASSUME Ids, NEW p \in Packages
  PROVE  /\ Vulns(p) \in Seq(Advisories) /\ dep_to_ids[p] \in Seq(Advisories)
         /\ KeptWell(dep_to_ids[p], details, Len(dep_to_ids[p]), Vulns(p))
  <1>1. dep_to_ids[p] \in Seq(Advisories)
      BY DEF Ids
  <1> QED BY <1>1, DistinctKeeps DEF Vulns

\* The finding for advisory j of dep i.
Entry(i, j) == <<deps[i], Vulns(deps[i])[j], dep_to_file[deps[i]]>>

\* The k-th element of found is the finding for advisory col[k] of dep row[k].
Draws(found, row, col) ==
  /\ row \in [DOMAIN found -> DOMAIN deps] /\ col \in [DOMAIN found -> Nat]
  /\ \A k \in DOMAIN found :
       col[k] \in DOMAIN Vulns(deps[row[k]]) /\ found[k] = Entry(row[k], col[k])
  /\ \A i \in DOMAIN deps : \A j \in DOMAIN Vulns(deps[i]) :
       \E k \in DOMAIN found : row[k] = i /\ col[k] = j
  /\ \A k, l \in DOMAIN found :
       k < l => row[k] < row[l] \/ (row[k] = row[l] /\ col[k] < col[l])

LEMMA RenderedWell ==
  ASSUME Ids, deps \in Seq(Packages), dep_to_file \in [ToSet(deps) -> DOMAIN matched]
  PROVE  /\ Rendered \in Seq(Packages \X Advisories \X DOMAIN matched)
         /\ \E row, col : Draws(Rendered, row, col)
  <1> DEFINE T == Packages \X Advisories \X DOMAIN matched
             ss == [i \in DOMAIN deps |-> [j \in DOMAIN Vulns(deps[i]) |-> Entry(i, j)]]
  <1>1. DOMAIN deps = 1 .. Len(deps) /\ Len(deps) \in Nat
      OBVIOUS
  <1>2. \A i \in DOMAIN deps : deps[i] \in Packages /\ Vulns(deps[i]) \in Seq(Advisories)
      BY VulnsWell
  <1>3. \A i \in DOMAIN deps : dep_to_file[deps[i]] \in DOMAIN matched
      BY DEF ToSet
  <1>4. \A i \in DOMAIN deps : \A j \in DOMAIN Vulns(deps[i]) : Entry(i, j) \in T
      BY <1>2, <1>3 DEF Entry
  <1>5. ASSUME NEW i \in DOMAIN deps
        PROVE  [j \in DOMAIN Vulns(deps[i]) |-> Entry(i, j)] \in Seq(T)
    <2>1. Vulns(deps[i]) \in Seq(Advisories)
        BY <1>2
    <2>2. /\ DOMAIN Vulns(deps[i]) = 1 .. Len(Vulns(deps[i]))
          /\ Len(Vulns(deps[i])) \in Nat
        BY <2>1
    <2>3. \A j \in 1 .. Len(Vulns(deps[i])) : Entry(i, j) \in T
        BY <1>4, <2>2
    <2> HIDE DEF T
    <2> QED BY <2>2, <2>3
  <1>6. ss \in Seq(Seq(T)) /\ Len(ss) = Len(deps) /\ DOMAIN ss = DOMAIN deps
    <2> HIDE DEF T
    <2> QED BY <1>1, <1>5
  <1>7. Rendered = FlattenSeq(ss)
      BY DEF Rendered, Entry
  <1>8. /\ \A i \in DOMAIN deps : DOMAIN ss[i] = DOMAIN Vulns(deps[i])
        /\ \A i \in DOMAIN deps : \A j \in DOMAIN Vulns(deps[i]) : ss[i][j] = Entry(i, j)
      OBVIOUS
  <1> HIDE DEF ss, T
  <1>9. Rendered \in Seq(T) /\ Flat(ss, Len(ss), Rendered)
      BY <1>6, <1>7, FlattenKeeps
  <1>10. PICK row, col : Placed(ss, Len(deps), Rendered, row, col)
      BY <1>6, <1>9 DEF Flat
  <1>11. row \in [DOMAIN Rendered -> DOMAIN deps] /\ col \in [DOMAIN Rendered -> Nat]
      BY <1>1, <1>10 DEF Placed
  <1>12. \A k \in DOMAIN Rendered :
           col[k] \in DOMAIN Vulns(deps[row[k]]) /\ Rendered[k] = Entry(row[k], col[k])
    <2>1. \A k \in DOMAIN Rendered : row[k] \in DOMAIN deps
        BY <1>11
    <2>2. \A k \in DOMAIN Rendered : col[k] \in DOMAIN ss[row[k]] /\ Rendered[k] = ss[row[k]][col[k]]
        BY <1>10 DEF Placed
    <2> QED BY <1>8, <2>1, <2>2
  <1>13. \A i \in DOMAIN deps : \A j \in DOMAIN Vulns(deps[i]) :
           \E k \in DOMAIN Rendered : row[k] = i /\ col[k] = j
      BY <1>1, <1>8, <1>10 DEF Placed
  <1>14. \A k, l \in DOMAIN Rendered :
           k < l => row[k] < row[l] \/ (row[k] = row[l] /\ col[k] < col[l])
      BY <1>10 DEF Placed
  <1>15. Draws(Rendered, row, col)
      BY <1>11, <1>12, <1>13, <1>14 DEF Draws
  <1> QED BY <1>9, <1>15 DEF T

\* An advisory that costs no review its pass.
Harmless(v) == Score[v] = NoScore \/ Score[v] < 70 \/ Score[v] > 100

LEMMA HarmIsSevere ==
  ASSUME NEW v, Score[v] \in Nat \cup {NoScore}, ~Harmless(v)
  PROVE  SeverityFromCvss(v) \in {"critical", "major"}
  <1>1. PICK x : x = Score[v]
      OBVIOUS
  <1>2. x \in Nat /\ x # NoScore /\ ~(x < 70) /\ ~(x > 100)
      BY <1>1 DEF Harmless
  <1>3. CASE x >= 90
    <2>1. x \in 90 .. 100 /\ x \notin 70 .. 89 /\ x \notin 0 .. 39
        BY <1>2, <1>3
    <2>2. SeverityFromCvss(v) = "critical"
        BY <1>1, <1>2, <2>1 DEF SeverityFromCvss
    <2> QED BY <2>2
  <1>4. CASE x < 90
    <2>1. x \in 70 .. 89 /\ x \notin 90 .. 100 /\ x \notin 0 .. 39
        BY <1>2, <1>4
    <2>2. SeverityFromCvss(v) = "major"
        BY <1>1, <1>2, <2>1 DEF SeverityFromCvss
    <2> QED BY <2>2
  <1> QED BY <1>2, <1>3, <1>4

\* The highest severity is critical or major as soon as one advisory is not harmless.
LEMMA SeverityIsHighest ==
  ASSUME findings \in Seq(Packages \X Advisories \X DOMAIN matched)
  PROVE  /\ OverallSeverity \in Severities
         /\ OverallSeverity \notin {"critical", "major"} =>
              \A i \in DOMAIN findings : Harmless(findings[i][2])
  <1> DEFINE buckets == {SeverityFromCvss(findings[i][2]) : i \in DOMAIN findings} \cup {"info"}
             top == CHOOSE r \in DOMAIN Ranked :
                      /\ Ranked[r] \in buckets
                      /\ \A s \in DOMAIN Ranked : Ranked[s] \in buckets => s <= r
  <1>1. /\ DOMAIN Ranked = {1, 2, 3, 4} /\ Ranked[1] = "info" /\ Ranked[2] = "minor"
        /\ Ranked[3] = "major" /\ Ranked[4] = "critical"
      BY DEF Ranked
  <1>2. OverallSeverity = Ranked[top]
      BY DEF OverallSeverity
  <1>3. "info" \in buckets
      OBVIOUS
  <1>4. ASSUME NEW i \in DOMAIN findings, ~Harmless(findings[i][2])
        PROVE  "critical" \in buckets \/ "major" \in buckets
    <2>1. Score[findings[i][2]] \in Nat \cup {NoScore}
        BY ScoreAssumption
    <2>2. SeverityFromCvss(findings[i][2]) \in {"critical", "major"}
        BY <1>4, <2>1, HarmIsSevere
    <2> QED BY <2>2
  <1> HIDE DEF buckets
  <1>5. \E r \in DOMAIN Ranked :
          Ranked[r] \in buckets /\ \A s \in DOMAIN Ranked : Ranked[s] \in buckets => s <= r
    <2>1. CASE Ranked[4] \in buckets
        BY <1>1, <2>1
    <2>2. CASE Ranked[4] \notin buckets /\ Ranked[3] \in buckets
        BY <1>1, <2>2
    <2>3. CASE Ranked[4] \notin buckets /\ Ranked[3] \notin buckets /\ Ranked[2] \in buckets
        BY <1>1, <2>3
    <2>4. CASE Ranked[4] \notin buckets /\ Ranked[3] \notin buckets /\ Ranked[2] \notin buckets
        BY <1>1, <1>3, <2>4
    <2> QED BY <2>1, <2>2, <2>3, <2>4
  <1>6. /\ top \in DOMAIN Ranked /\ Ranked[top] \in buckets
        /\ \A s \in DOMAIN Ranked : Ranked[s] \in buckets => s <= top
      BY <1>5, Zenon
  <1> HIDE DEF top
  <1>7. OverallSeverity \in Severities
      BY <1>2, <1>6 DEF Severities, ToSet
  <1>8. ASSUME NEW i \in DOMAIN findings, ~Harmless(findings[i][2])
        PROVE  OverallSeverity \in {"critical", "major"}
      BY <1>1, <1>2, <1>4, <1>6, <1>8
  <1> QED BY <1>7, <1>8

-----------------------------------------------------------------------------
(* The inductive invariant.                                                 *)

\* What the scan has set; before it, nothing.
ScanInv ==
  /\ parsed = <<>> => deps = <<>> /\ findings = <<>> /\ pc \notin {"query", "summarise"}
  /\ parsed # <<>> =>
       /\ pc # "start" /\ IsOutcome(parsed) /\ deps = Found(parsed)
       /\ dep_to_file = [p \in ToSet(deps) |-> FirstSource(parsed, p)]
       /\ unsupported = {i \in DOMAIN matched : matched[i] = "unsupported"}
       /\ notes \ {0} = {i \in DOMAIN matched : parsed[i] = Unreadable}

\* Nothing has been asked, or an answer is OSV's own; a dep that was asked for
\* is answered or recorded as unanswered.
QueryInv ==
  /\ pc = "start" => asked = 0 /\ notes = {}
  /\ \A p \in Packages : dep_to_ids[p] = <<>> \/ dep_to_ids[p] = database[p]
  /\ \A i \in 1 .. asked : deps[i] \in unanswered \/ dep_to_ids[deps[i]] = database[deps[i]]

\* Findings are rendered once, from all that was fetched.
FindInv ==
  /\ pc \in {"start", "query"} => findings = <<>>
  /\ findings # <<>> => findings = Rendered
  /\ pc \in {"summarise", "returned"} /\ deps # <<>> /\ 0 \notin notes =>
       findings = Rendered /\ AllLookedUp

\* What the review was made from.
ReviewInv ==
  /\ pc # "returned" => review = NoReview
  /\ PassedMeansHarmless
  /\ review.summary = "clean" =>
       pc = "returned" /\ parsed # <<>> /\ findings = <<>> /\ unsupported = {} /\ notes = {}

Inv == TypeOK /\ ScanInv /\ QueryInv /\ FindInv /\ ReviewInv

LEMMA IdsTyped ==
  ASSUME TypeOK
  PROVE  Ids
  <1>1. Answers \cup {<<>>} \subseteq Seq(Advisories)
    <2>1. <<>> \in Seq(Advisories)
        OBVIOUS
    <2>2. Answers \subseteq Seq(Advisories)
        BY InputsAssumption
    <2> QED BY <2>1, <2>2, Zenon
  <1>2. dep_to_ids \in [Packages -> Answers \cup {<<>>}]
      BY DEF TypeOK
  <1> QED BY <1>1, <1>2 DEF Ids

LEMMA InvInit ==
  ASSUME Init
  PROVE  Inv
  <1>1. matched \in Seq(Kinds) /\ Len(matched) <= MaxManifests
    <2>1. PICK n \in 0 .. MaxManifests : matched \in [1 .. n -> Kinds]
        BY DEF Init
    <2>2. n \in Nat /\ n <= MaxManifests
        BY <2>1, InputsAssumption
    <2> QED BY <2>1, <2>2
  <1>2. ToSet(<<>>) = {} /\ <<>> \in Seq(Packages)
        /\ <<>> \in Seq(Packages \X Advisories \X DOMAIN matched) /\ Len(<<>>) = 0
      BY DEF ToSet
  <1>3. NoReview.severity \in Severities
    <2>1. Ranked[1] = "info" /\ 1 \in DOMAIN Ranked
        BY DEF Ranked
    <2> QED BY <2>1 DEF NoReview, Severities, ToSet
  <1>4. /\ dep_to_file \in [ToSet(deps) -> DOMAIN matched] /\ asked \in 0 .. Len(deps)
        /\ deps \in Seq(Packages) /\ findings \in Seq(Packages \X Advisories \X DOMAIN matched)
    <2>1. deps = <<>> /\ asked = 0 /\ findings = <<>> /\ dep_to_file = [p \in {} |-> 0]
        BY DEF Init
    <2>2. [p \in {} |-> 0] \in [{} -> DOMAIN matched]
        OBVIOUS
    <2> QED BY <1>2, <2>1, <2>2
  <1>5. /\ database \in [Packages -> Answers] /\ snapshot \in BOOLEAN /\ pc = "start"
        /\ parsed = <<>> /\ unsupported = {} /\ notes = {} /\ details = {} /\ dropped = {}
        /\ unanswered = {} /\ dep_to_ids = [p \in Packages |-> <<>>]
      BY DEF Init
  <1>6. /\ review = NoReview /\ review.findings = <<>> /\ ~review.passed /\ findings = <<>>
        /\ review.passed \in BOOLEAN /\ review.summary = "no review" /\ review.severity = "info"
      BY DEF Init, NoReview
  <1>7. TypeOK
      BY <1>1, <1>3, <1>4, <1>5, <1>6 DEF TypeOK
  <1>8. ScanInv
      BY <1>5, <1>6 DEF Init, ScanInv
  <1>9. QueryInv
    <2>1. asked = 0
        BY DEF Init
    <2> QED BY <1>5, <2>1 DEF QueryInv
  <1>10. FindInv
      BY <1>5, <1>6 DEF FindInv
  <1>11. ReviewInv
      BY <1>5, <1>6 DEF ReviewInv, PassedMeansHarmless
  <1> QED BY <1>7, <1>8, <1>9, <1>10, <1>11 DEF Inv

\* The chunk that is sent next.
LEMMA BatchWell ==
  ASSUME TypeOK, ~AllAsked
  PROVE  /\ Len(Batch) \in Nat /\ Len(Batch) <= Len(deps) - asked
         /\ \A i \in 1 .. Len(Batch) : Batch[i] = deps[asked + i] /\ Batch[i] \in Packages
  <1>1. deps \in Seq(Packages) /\ Len(deps) \in Nat /\ asked \in Nat /\ asked < Len(deps)
      BY DEF TypeOK, AllAsked
  <1>2. BatchSize \in Nat /\ BatchSize >= 1
      BY BatchSizeAssumption
  <1>3. PICK m \in Nat : /\ Batch = SubSeq(deps, asked + 1, m)
                         /\ m <= Len(deps) /\ asked + 1 <= m
      BY <1>1, <1>2 DEF Batch, LastChunk
  <1>4. Len(Batch) = m - asked /\ \A i \in 1 .. m - asked : Batch[i] = deps[asked + i]
      BY <1>1, <1>3
  <1>5. \A i \in 1 .. m - asked : asked + i \in 1 .. Len(deps)
      BY <1>1, <1>3
  <1> QED BY <1>1, <1>3, <1>4, <1>5

\* The types: one step per action.
LEMMA TypedStep ==
  ASSUME Inv, [Next]_vars
  PROVE  TypeOK'
  <1> USE DEF Inv
  <1>1. CASE NothingToScan
    <2>1. {"info", "minor"} \subseteq Severities
      <3>1. /\ Ranked[1] = "info" /\ Ranked[2] = "minor" /\ 1 \in DOMAIN Ranked
            /\ 2 \in DOMAIN Ranked
          BY DEF Ranked
      <3> QED BY <3>1 DEF Severities, ToSet
    <2> QED BY <1>1, <2>1 DEF NothingToScan, TypeOK, AgentReview, NoReview, world, scan, lookups
  <1>2. CASE ParserRaises
      BY <1>2 DEF ParserRaises, TypeOK, world, scan, lookups
  <1>3. CASE ScanManifests
    <2>1. PICK outcome : /\ IsOutcome(outcome)
                         /\ parsed' = outcome /\ deps' = Found(outcome)
                         /\ dep_to_file' = [p \in ToSet(Found(outcome)) |-> FirstSource(outcome, p)]
                         /\ unsupported' = {i \in DOMAIN matched : matched[i] = "unsupported"}
                         /\ notes' = {i \in DOMAIN matched : outcome[i] = Unreadable}
                         /\ pc' = IF Found(outcome) = <<>> THEN "summarise" ELSE "query"
        BY <1>3 DEF ScanManifests, IsOutcome
    <2>2. matched \in Seq(Kinds) /\ UNCHANGED <<world, lookups, findings, review>> /\ pc = "start"
        BY <1>3 DEF ScanManifests, TypeOK
    <2>3. /\ Found(outcome) \in Seq(Packages)
          /\ \A p : Contains(Found(outcome), p) <=> Pinning(outcome, p) # {}
        BY <2>1, <2>2, DepsWell
    <2>4. ASSUME NEW p \in ToSet(Found(outcome))
          PROVE  FirstSource(outcome, p) \in DOMAIN matched
      <3>1. Contains(Found(outcome), p)
          BY <2>3 DEF ToSet, Contains
      <3>2. Pinning(outcome, p) # {}
          BY <2>3, <3>1
      <3>3. FirstSource(outcome, p) \in Pinning(outcome, p)
          BY <2>1, <2>2, <3>2, SourceIsFirst
      <3>4. Readable(outcome) \subseteq DOMAIN matched
          BY <2>1, <2>2, ReadableContents
      <3> QED BY <3>3, <3>4 DEF Pinning
    <2>5. deps' \in Seq(Packages) /\ Len(deps') \in Nat
        BY <2>1, <2>3
    <2>6. dep_to_file' \in [ToSet(deps') -> DOMAIN matched']
        BY <2>1, <2>2, <2>4 DEF world
    <2>7. asked' = 0 /\ asked' \in 0 .. Len(deps')
        BY <2>2, <2>5 DEF QueryInv, lookups
    <2>8. parsed' \in [DOMAIN matched' -> Contents \cup {Unreadable, <<>>}]
        BY <2>1, <2>2 DEF IsOutcome, world
    <2>9. unsupported' \subseteq DOMAIN matched' /\ notes' \subseteq DOMAIN matched' \cup {0}
          /\ pc' \in {"start", "query", "summarise", "returned", "raised"}
        BY <2>1, <2>2 DEF world
    <2> QED BY <2>2, <2>5, <2>6, <2>7, <2>8, <2>9 DEF TypeOK, world, lookups
  <1>4. CASE QueryBatch
    <2>1. /\ Len(Batch) \in Nat /\ Len(Batch) <= Len(deps) - asked
          /\ \A i \in 1 .. Len(Batch) : Batch[i] = deps[asked + i] /\ Batch[i] \in Packages
        BY <1>4, BatchWell DEF QueryBatch
    <2>2. PICK n \in 0 .. Len(Batch) :
            /\ dep_to_ids' = IdsAfter(n)
            /\ unanswered' = unanswered \cup {Batch[i] : i \in n + 1 .. Len(Batch)}
        BY <1>4 DEF QueryBatch
    <2>3. IdsAfter(n) \in [Packages -> Answers \cup {<<>>}]
        BY DEF IdsAfter, TypeOK
    <2>4. asked' \in 0 .. Len(deps)
        BY <1>4, <2>1 DEF QueryBatch, TypeOK
    <2>5. unanswered' \in SUBSET Packages
      <3>1. \A i \in n + 1 .. Len(Batch) : i \in 1 .. Len(Batch)
          BY <2>1, <2>2
      <3> QED BY <2>1, <2>2, <3>1 DEF TypeOK
    <2> QED BY <1>4, <2>2, <2>3, <2>4, <2>5 DEF QueryBatch, TypeOK, world, scan
  <1>5. CASE \E v \in Advisories : FetchDetail(v)
      BY <1>5 DEF FetchDetail, TypeOK, world, scan
  <1>6. CASE Outage
      BY <1>6 DEF Outage, TypeOK, world, lookups
  <1>7. CASE RenderFindings
    <2>1. Rendered \in Seq(Packages \X Advisories \X DOMAIN matched)
        BY IdsTyped, RenderedWell DEF TypeOK
    <2>2. findings' = Rendered /\ pc' = "summarise" /\ review = NoReview
          /\ UNCHANGED <<world, scan, lookups, review>>
        BY <1>7 DEF RenderFindings, ReviewInv
    <2> QED BY <2>1, <2>2 DEF TypeOK, NoReview, world, scan, lookups
  <1>8. CASE Summarise
    <2>1. OverallSeverity \in Severities
        BY SeverityIsHighest DEF TypeOK
    <2>2. PICK summary \in Summaries : review' = AgentReview(summary, OverallSeverity)
        BY <1>8 DEF Summarise
    <2>3. /\ review'.findings = findings /\ review'.severity = OverallSeverity
          /\ review'.passed \in BOOLEAN
        BY <2>2 DEF AgentReview
    <2>4. pc' = "returned" /\ UNCHANGED <<world, scan, lookups, findings>>
        BY <1>8 DEF Summarise
    <2> QED BY <2>1, <2>3, <2>4 DEF TypeOK, world, scan, lookups
  <1>9. CASE PassRaises
      BY <1>9 DEF PassRaises, TypeOK, world, scan, lookups
  <1>10. CASE UNCHANGED vars
      BY <1>10 DEF vars, TypeOK, world, scan, lookups
  <1> QED BY <1>1, <1>2, <1>3, <1>4, <1>5, <1>6, <1>7, <1>8, <1>9, <1>10 DEF Next, Progress

LEMMA ScanStep ==
  ASSUME Inv, [Next]_vars
  PROVE  ScanInv'
  <1> USE DEF Inv
  <1>1. CASE ScanManifests
    <2>1. PICK outcome : /\ IsOutcome(outcome)
                         /\ parsed' = outcome /\ deps' = Found(outcome)
                         /\ dep_to_file' = [p \in ToSet(Found(outcome)) |-> FirstSource(outcome, p)]
                         /\ unsupported' = {i \in DOMAIN matched : matched[i] = "unsupported"}
                         /\ notes' = {i \in DOMAIN matched : outcome[i] = Unreadable}
                         /\ pc' = IF Found(outcome) = <<>> THEN "summarise" ELSE "query"
        BY <1>1 DEF ScanManifests, IsOutcome
    <2>2. /\ matched \in Seq(Kinds) /\ matched # <<>> /\ matched' = matched
        BY <1>1 DEF ScanManifests, TypeOK, world
    <2>3. outcome # <<>>
      <3>1. DOMAIN outcome = DOMAIN matched
          BY <2>1 DEF IsOutcome
      <3>2. DOMAIN <<>> = {}
          OBVIOUS
      <3>3. Len(matched) \in Nat /\ Len(matched) # 0
          BY <2>2
      <3>4. 1 \in DOMAIN matched
          BY <2>2, <3>3
      <3> QED BY <3>1, <3>2, <3>4
    <2>4. pc' # "start" /\ parsed' # <<>>
        BY <2>1, <2>3
    <2>5. IsOutcome(parsed)'
        BY <2>1, <2>2 DEF IsOutcome
    <2>6. (deps = Found(parsed))'
        BY <2>1, <2>2 DEF Found, Readable
    <2>7. (dep_to_file = [p \in ToSet(deps) |-> FirstSource(parsed, p)])'
        BY <2>1, <2>2 DEF FirstSource, Readable
    <2>8. 0 \notin notes'
      <3>1. 0 \notin DOMAIN matched
          BY <2>2
      <3> QED BY <2>1, <3>1
    <2>9. (notes \ {0} = {i \in DOMAIN matched : parsed[i] = Unreadable})'
        BY <2>1, <2>2, <2>8
    <2>10. (unsupported = {i \in DOMAIN matched : matched[i] = "unsupported"})'
        BY <2>1, <2>2
    <2> QED BY <2>4, <2>5, <2>6, <2>7, <2>9, <2>10 DEF ScanInv
  <1>2. CASE UNCHANGED <<matched, parsed, deps, dep_to_file, unsupported>>
             /\ notes' \ {0} = notes \ {0}
             /\ (parsed = <<>> => findings' = <<>> /\ pc' \notin {"query", "summarise"})
             /\ (parsed # <<>> => pc' # "start")
    <2>1. (IsOutcome(parsed) <=> IsOutcome(parsed)')
        BY <1>2 DEF IsOutcome
    <2>2. Found(parsed)' = Found(parsed)
        BY <1>2 DEF Found, Readable
    <2>3. [p \in ToSet(deps) |-> FirstSource(parsed, p)]' = [p \in ToSet(deps) |-> FirstSource(parsed, p)]
        BY <1>2 DEF FirstSource, Readable
    <2> QED BY <1>2, <2>1, <2>2, <2>3 DEF ScanInv
  <1>3. CASE NothingToScan
      BY <1>2, <1>3 DEF NothingToScan, ScanInv, world, scan, lookups
  <1>4. CASE ParserRaises
      BY <1>2, <1>4 DEF ParserRaises, ScanInv, world, scan
  <1>5. CASE QueryBatch
      BY <1>2, <1>5 DEF QueryBatch, ScanInv, world, scan
  <1>6. CASE \E v \in Advisories : FetchDetail(v)
      BY <1>2, <1>6 DEF FetchDetail, ScanInv, world, scan
  <1>7. CASE Outage
      BY <1>2, <1>7 DEF Outage, ScanInv, world
  <1>8. CASE RenderFindings
      BY <1>2, <1>8 DEF RenderFindings, ScanInv, world, scan
  <1>9. CASE Summarise
      BY <1>2, <1>9 DEF Summarise, ScanInv, world, scan
  <1>10. CASE PassRaises
      BY <1>2, <1>10 DEF PassRaises, ScanInv, world, scan
  <1>11. CASE UNCHANGED vars
      BY <1>2, <1>11 DEF vars, ScanInv, world, scan
  <1> QED BY <1>1, <1>3, <1>4, <1>5, <1>6, <1>7, <1>8, <1>9, <1>10, <1>11 DEF Next, Progress

LEMMA QueryStep ==
  ASSUME Inv, [Next]_vars
  PROVE  QueryInv'
  <1> USE DEF Inv
  <1>1. CASE QueryBatch
    <2>1. /\ Len(Batch) \in Nat /\ Len(Batch) <= Len(deps) - asked
          /\ \A i \in 1 .. Len(Batch) : Batch[i] = deps[asked + i] /\ Batch[i] \in Packages
        BY <1>1, BatchWell DEF QueryBatch
    <2>2. PICK n \in 0 .. Len(Batch) :
            /\ dep_to_ids' = IdsAfter(n)
            /\ unanswered' = unanswered \cup {Batch[i] : i \in n + 1 .. Len(Batch)}
        BY <1>1 DEF QueryBatch
    <2>3. /\ asked' = asked + Len(Batch) /\ asked \in Nat /\ pc' = "query"
          /\ UNCHANGED <<database, deps>>
        BY <1>1 DEF QueryBatch, TypeOK, world, scan
    <2>4. \A p \in Packages :
            IdsAfter(n)[p] = IF \E i \in 1 .. n : Batch[i] = p THEN database[p] ELSE dep_to_ids[p]
        BY DEF IdsAfter
    <2>5. \A p \in Packages : dep_to_ids'[p] = <<>> \/ dep_to_ids'[p] = database'[p]
        BY <2>2, <2>3, <2>4 DEF QueryInv
    <2>6. ASSUME NEW i \in 1 .. asked'
          PROVE  deps[i] \in unanswered' \/ dep_to_ids'[deps[i]] = database[deps[i]]
      <3>1. CASE i <= asked
        <4>1. i \in 1 .. asked /\ i \in 1 .. Len(deps)
            BY <2>1, <2>3, <3>1 DEF TypeOK
        <4>2. deps[i] \in Packages
            BY <4>1 DEF TypeOK
        <4> QED BY <2>2, <2>4, <4>1, <4>2 DEF QueryInv
      <3>2. CASE i > asked
        <4>1. PICK j \in 1 .. Len(Batch) : i = asked + j
          <5>1. i - asked \in 1 .. Len(Batch) /\ i = asked + (i - asked)
              BY <2>1, <2>3, <3>2
          <5> QED BY <5>1
        <4>2. Batch[j] = deps[i] /\ Batch[j] \in Packages
            BY <2>1, <4>1
        <4>3. j \in 1 .. n \/ j \in n + 1 .. Len(Batch)
            BY <2>1, <2>2
        <4> QED BY <2>2, <2>4, <4>2, <4>3
      <3> QED BY <2>3, <3>1, <3>2
    <2> QED BY <2>3, <2>5, <2>6 DEF QueryInv
  <1>2. CASE ScanManifests
    <2>1. pc' # "start" /\ asked = 0 /\ asked' = 0 /\ UNCHANGED <<database, dep_to_ids>>
        BY <1>2 DEF ScanManifests, QueryInv, world, lookups
    <2> QED BY <2>1 DEF QueryInv
  <1>3. CASE UNCHANGED <<database, deps, asked, dep_to_ids, unanswered>>
             /\ (pc' = "start" => pc = "start" /\ notes' = notes)
      BY <1>3 DEF QueryInv
  <1>4. CASE NothingToScan
      BY <1>3, <1>4 DEF NothingToScan, world, scan, lookups
  <1>5. CASE ParserRaises
      BY <1>3, <1>5 DEF ParserRaises, world, scan, lookups
  <1>6. CASE \E v \in Advisories : FetchDetail(v)
      BY <1>3, <1>6 DEF FetchDetail, world, scan
  <1>7. CASE Outage
      BY <1>3, <1>7 DEF Outage, world, lookups
  <1>8. CASE RenderFindings
      BY <1>3, <1>8 DEF RenderFindings, world, scan, lookups
  <1>9. CASE Summarise
      BY <1>3, <1>9 DEF Summarise, world, scan, lookups
  <1>10. CASE PassRaises
      BY <1>3, <1>10 DEF PassRaises, world, scan, lookups
  <1>11. CASE UNCHANGED vars
      BY <1>3, <1>11 DEF vars, world, scan, lookups
  <1> QED BY <1>1, <1>2, <1>4, <1>5, <1>6, <1>7, <1>8, <1>9, <1>10, <1>11 DEF Next, Progress

LEMMA FindStep ==
  ASSUME Inv, [Next]_vars
  PROVE  FindInv'
  <1> USE DEF Inv
  <1>1. ASSUME UNCHANGED <<deps, dep_to_file, asked, dep_to_ids, details, dropped>>
        PROVE  Rendered' = Rendered /\ (AllLookedUp' <=> AllLookedUp)
    <2>1. \A p : Vulns(p)' = Vulns(p)
        BY <1>1 DEF Vulns
    <2>2. Rendered' = Rendered
        BY <1>1, <2>1 DEF Rendered
    <2>3. AllLookedUp' <=> AllLookedUp
        BY <1>1 DEF AllLookedUp, AllAsked, UniqueIds
    <2> QED BY <2>2, <2>3
  <1>2. CASE ScanManifests
    <2>1. findings' = <<>> /\ (pc' = "summarise" => deps' = <<>>) /\ pc' \in {"summarise", "query"}
        BY <1>2 DEF ScanManifests, FindInv
    <2> QED BY <2>1 DEF FindInv
  <1>3. CASE findings' = <<>> /\ pc' \in {"query", "raised"}
      BY <1>3 DEF FindInv
  <1>4. CASE QueryBatch
      BY <1>3, <1>4 DEF QueryBatch, FindInv
  <1>5. CASE \E v \in Advisories : FetchDetail(v)
      BY <1>3, <1>5 DEF FetchDetail, FindInv
  <1>6. CASE ParserRaises
      BY <1>3, <1>6 DEF ParserRaises, FindInv
  <1>7. CASE NothingToScan
    <2>1. findings' = <<>> /\ deps' = <<>> /\ pc' = "returned"
        BY <1>7 DEF NothingToScan, FindInv, ScanInv, scan
    <2> QED BY <2>1 DEF FindInv
  <1>8. CASE Outage
    <2>1. findings' = <<>> /\ 0 \in notes' /\ pc' = "summarise"
        BY <1>8 DEF Outage, FindInv
    <2> QED BY <2>1 DEF FindInv
  <1>9. CASE RenderFindings
    <2>1. Rendered' = Rendered /\ AllLookedUp'
        BY <1>1, <1>9 DEF RenderFindings, scan, lookups
    <2>2. findings' = Rendered /\ pc' = "summarise"
        BY <1>9 DEF RenderFindings
    <2> QED BY <2>1, <2>2 DEF FindInv
  <1>10. CASE Summarise
    <2>1. Rendered' = Rendered /\ (AllLookedUp' <=> AllLookedUp)
        BY <1>1, <1>10 DEF Summarise, scan, lookups
    <2>2. UNCHANGED <<findings, deps, notes>> /\ pc = "summarise" /\ pc' = "returned"
        BY <1>10 DEF Summarise, scan
    <2> QED BY <2>1, <2>2 DEF FindInv
  <1>11. CASE PassRaises
    <2>1. Rendered' = Rendered
        BY <1>1, <1>11 DEF PassRaises, scan, lookups
    <2>2. UNCHANGED findings /\ pc' = "raised"
        BY <1>11 DEF PassRaises
    <2> QED BY <2>1, <2>2 DEF FindInv
  <1>12. CASE UNCHANGED vars
    <2>1. Rendered' = Rendered /\ (AllLookedUp' <=> AllLookedUp)
        BY <1>1, <1>12 DEF vars, scan, lookups
    <2>2. UNCHANGED <<findings, deps, notes, pc>>
        BY <1>12 DEF vars, scan
    <2> QED BY <2>1, <2>2 DEF FindInv
  <1> QED BY <1>2, <1>4, <1>5, <1>6, <1>7, <1>8, <1>9, <1>10, <1>11, <1>12 DEF Next, Progress

LEMMA ReviewStep ==
  ASSUME Inv, [Next]_vars
  PROVE  ReviewInv'
  <1> USE DEF Inv
  <1>1. CASE Summarise
    <2>1. PICK summary \in Summaries : review' = AgentReview(summary, OverallSeverity)
        BY <1>1 DEF Summarise
    <2>2. /\ pc = "summarise" /\ pc' = "returned"
          /\ UNCHANGED <<parsed, findings, unsupported, notes>>
        BY <1>1 DEF Summarise, scan
    <2>3. review'.passed => OverallSeverity \notin {"critical", "major"}
        BY <2>1 DEF AgentReview
    <2>4. review'.passed => \A i \in DOMAIN findings : Harmless(findings[i][2])
        BY <2>3, SeverityIsHighest DEF TypeOK
    <2>5. PassedMeansHarmless'
        BY <2>2, <2>4 DEF PassedMeansHarmless, Harmless
    <2>6. review'.summary = "clean" => findings = <<>> /\ unsupported = {} /\ notes = {}
      <3>1. review'.summary = summary
          BY <2>1 DEF AgentReview
      <3> QED BY <2>1, <3>1 DEF Summaries, HasDisclosures
    <2>7. parsed # <<>>
        BY <2>2 DEF ScanInv
    <2> QED BY <2>2, <2>5, <2>6, <2>7 DEF ReviewInv
  <1>2. CASE NothingToScan
    <2>1. review'.summary # "clean" /\ pc' = "returned" /\ findings' = <<>>
        BY <1>2 DEF NothingToScan, AgentReview, NoReview, FindInv
    <2> QED BY <2>1 DEF ReviewInv, PassedMeansHarmless
  <1>3. CASE review = NoReview /\ UNCHANGED review /\ pc' # "returned"
    <2>1. ~review'.passed /\ review'.summary # "clean"
        BY <1>3 DEF NoReview
    <2> QED BY <1>3, <2>1 DEF ReviewInv, PassedMeansHarmless
  <1>4. CASE ParserRaises
      BY <1>3, <1>4 DEF ParserRaises, ReviewInv
  <1>5. CASE ScanManifests
      BY <1>3, <1>5 DEF ScanManifests, ReviewInv
  <1>6. CASE QueryBatch
      BY <1>3, <1>6 DEF QueryBatch, ReviewInv
  <1>7. CASE \E v \in Advisories : FetchDetail(v)
      BY <1>3, <1>7 DEF FetchDetail, ReviewInv
  <1>8. CASE Outage
      BY <1>3, <1>8 DEF Outage, ReviewInv
  <1>9. CASE RenderFindings
      BY <1>3, <1>9 DEF RenderFindings, ReviewInv
  <1>10. CASE PassRaises
      BY <1>3, <1>10 DEF PassRaises, ReviewInv
  <1>11. CASE UNCHANGED vars
      BY <1>11 DEF vars, scan, ReviewInv, PassedMeansHarmless
  <1> QED BY <1>1, <1>2, <1>4, <1>5, <1>6, <1>7, <1>8, <1>9, <1>10, <1>11 DEF Next, Progress

LEMMA Always == Spec => []Inv
  <1>1. Inv /\ [Next]_vars => Inv'
      BY TypedStep, ScanStep, QueryStep, FindStep, ReviewStep DEF Inv
  <1> QED BY InvInit, <1>1, PTL DEF Spec

\* Every variable keeps its type (DependencyScanner, OSVClient and
\* DependencyReviewer), for any manifests, answers and batch size.
THEOREM TypeCorrect == Spec => []TypeOK
  <1>1. Inv => TypeOK
      BY DEF Inv
  <1> QED BY Always, <1>1, PTL

-----------------------------------------------------------------------------
(* The findings are exact and the verdict is earned.                        *)

\* The sources of a package are the readable manifests that pin it.
LEMMA SourcesArePinning ==
  ASSUME Inv, NEW p
  PROVE  Sources(p) = IF parsed = <<>> THEN {} ELSE Pinning(parsed, p)
  <1>1. CASE parsed = <<>>
      BY <1>1 DEF Sources
  <1>2. CASE parsed # <<>>
    <2>1. IsOutcome(parsed) /\ matched \in Seq(Kinds)
        BY <1>2 DEF Inv, ScanInv, TypeOK
    <2>2. /\ Readable(parsed) \subseteq DOMAIN matched /\ DOMAIN parsed = DOMAIN matched
          /\ \A i \in Readable(parsed) : parsed[i] \in Seq(Packages)
          /\ \A i \in DOMAIN matched : i \notin Readable(parsed) =>
               parsed[i] = Unreadable \/ parsed[i] = <<>>
        BY <2>1, ReadableContents DEF IsOutcome
    <2>3. ASSUME NEW i \in Sources(p) PROVE i \in Pinning(parsed, p)
      <3>1. i \in DOMAIN parsed /\ parsed[i] # Unreadable /\ p \in ToSet(parsed[i])
          BY DEF Sources
      <3>2. parsed[i] # <<>>
          BY <3>1 DEF ToSet
      <3>3. i \in Readable(parsed)
          BY <2>2, <3>1, <3>2
      <3>4. Contains(parsed[i], p)
          BY <2>2, <3>1, <3>3 DEF ToSet, Contains
      <3> QED BY <3>3, <3>4 DEF Pinning
    <2>4. ASSUME NEW i \in Pinning(parsed, p) PROVE i \in Sources(p)
      <3>1. i \in Readable(parsed) /\ Contains(parsed[i], p)
          BY DEF Pinning
      <3>2. p \in ToSet(parsed[i])
          BY <2>2, <3>1 DEF ToSet, Contains
      <3> QED BY <2>2, <3>1, <3>2 DEF Sources, Readable
    <2> QED BY <1>2, <2>3, <2>4
  <1> QED BY <1>1, <1>2

\* What is known of the deps.
LEMMA DepsKnown ==
  ASSUME Inv
  PROVE  /\ \A p : Contains(deps, p) <=> Sources(p) # {}
         /\ \A i, j \in DOMAIN deps : i < j => ComesBefore(parsed, deps[i], deps[j])
         /\ \A i \in DOMAIN deps :
              /\ dep_to_file[deps[i]] = FirstSource(parsed, deps[i])
              /\ dep_to_file[deps[i]] \in Sources(deps[i])
              /\ \A f \in Sources(deps[i]) : dep_to_file[deps[i]] <= f
  <1>1. CASE parsed = <<>>
    <2>1. deps = <<>> /\ \A p : Sources(p) = {}
        BY <1>1, SourcesArePinning DEF Inv, ScanInv
    <2> QED BY <2>1 DEF Contains
  <1>2. CASE parsed # <<>>
    <2>1. /\ IsOutcome(parsed) /\ matched \in Seq(Kinds) /\ deps = Found(parsed)
          /\ dep_to_file = [p \in ToSet(deps) |-> FirstSource(parsed, p)]
          /\ deps \in Seq(Packages)
        BY <1>2 DEF Inv, ScanInv, TypeOK
    <2>2. /\ \A p : Contains(deps, p) <=> Pinning(parsed, p) # {}
          /\ \A i, j \in DOMAIN deps : i < j => ComesBefore(parsed, deps[i], deps[j])
        BY <2>1, DepsWell
    <2>3. \A p : Sources(p) = Pinning(parsed, p)
        BY <1>2, SourcesArePinning
    <2>4. ASSUME NEW i \in DOMAIN deps
          PROVE  /\ dep_to_file[deps[i]] = FirstSource(parsed, deps[i])
                 /\ FirstSource(parsed, deps[i]) \in Sources(deps[i])
                 /\ \A f \in Sources(deps[i]) : FirstSource(parsed, deps[i]) <= f
      <3>1. deps[i] \in ToSet(deps)
          BY DEF ToSet
      <3>2. Contains(deps, deps[i])
          BY <2>1 DEF Contains
      <3>3. Pinning(parsed, deps[i]) # {}
          BY <2>2, <3>2
      <3> QED BY <2>1, <2>3, <3>1, <3>3, SourceIsFirst
    <2> QED BY <2>2, <2>3, <2>4
  <1> QED BY <1>1, <1>2

\* What is known of the advisories of a dep.
LEMMA VulnsKnown ==
  ASSUME Inv, NEW p \in Packages
  PROVE  /\ Vulns(p) \in Seq(Advisories)
         /\ \A v : Contains(Vulns(p), v) <=> v \in details /\ v \in ToSet(dep_to_ids[p])
         /\ ToSet(dep_to_ids[p]) \subseteq ToSet(database[p])
         /\ \A c, d \in DOMAIN Vulns(p) : c < d =>
              /\ Vulns(p)[c] # Vulns(p)[d]
              /\ Place(database[p], Vulns(p)[c]) < Place(database[p], Vulns(p)[d])
  <1>1. Ids
      BY IdsTyped DEF Inv
  <1>2. /\ Vulns(p) \in Seq(Advisories) /\ dep_to_ids[p] \in Seq(Advisories)
        /\ KeptWell(dep_to_ids[p], details, Len(dep_to_ids[p]), Vulns(p))
      BY <1>1, VulnsWell
  <1>3. dep_to_ids[p] = <<>> \/ dep_to_ids[p] = database[p]
      BY DEF Inv, QueryInv
  <1>4. ASSUME NEW v
        PROVE  Contains(Vulns(p), v) <=> v \in details /\ v \in ToSet(dep_to_ids[p])
    <2>1. v \in ToSet(dep_to_ids[p]) <=> \E i \in 1 .. Len(dep_to_ids[p]) : dep_to_ids[p][i] = v
        BY <1>2 DEF ToSet
    <2> QED BY <1>2, <2>1 DEF KeptWell
  <1>5. ToSet(dep_to_ids[p]) \subseteq ToSet(database[p])
      BY <1>3 DEF ToSet
  <1>6. ASSUME NEW c \in DOMAIN Vulns(p), NEW d \in DOMAIN Vulns(p), c < d
        PROVE  /\ Vulns(p)[c] # Vulns(p)[d]
               /\ Place(database[p], Vulns(p)[c]) < Place(database[p], Vulns(p)[d])
    <2>1. /\ Vulns(p)[c] # Vulns(p)[d]
          /\ Place(dep_to_ids[p], Vulns(p)[c]) < Place(dep_to_ids[p], Vulns(p)[d])
        BY <1>2, <1>6, KeptOrder
    <2>2. Contains(Vulns(p), Vulns(p)[c])
        BY <1>2 DEF Contains
    <2>3. dep_to_ids[p] # <<>>
      <3>1. ToSet(<<>>) = {}
          BY DEF ToSet
      <3> QED BY <1>4, <2>2, <3>1
    <2> QED BY <1>3, <2>1, <2>3
  <1> QED BY <1>2, <1>4, <1>5, <1>6

\* The dep and the advisory of each finding.
LEMMA FindingsKnown ==
  ASSUME Inv, findings = Rendered
  PROVE  \E row, col : Draws(findings, row, col)
  BY IdsTyped, RenderedWell DEF Inv, TypeOK

LEMMA Soundness ==
  ASSUME Inv
  PROVE  FindingsAreSound
  <1> SUFFICES ASSUME NEW k \in DOMAIN findings
               PROVE  /\ findings[k][2] \in ToSet(database[findings[k][1]])
                      /\ findings[k][3] \in Sources(findings[k][1])
                      /\ \A f \in Sources(findings[k][1]) : findings[k][3] <= f
      BY DEF FindingsAreSound
  <1>1. findings = Rendered
      BY DEF Inv, FindInv
  <1>2. PICK row, col : Draws(findings, row, col)
      BY <1>1, FindingsKnown
  <1>3. PICK p : p = deps[row[k]]
      OBVIOUS
  <1>4. /\ row[k] \in DOMAIN deps /\ p \in Packages
      BY <1>2, <1>3 DEF Draws, Inv, TypeOK
  <1>5. /\ findings[k][1] = p /\ findings[k][2] = Vulns(p)[col[k]]
        /\ findings[k][3] = dep_to_file[p] /\ col[k] \in DOMAIN Vulns(p)
      BY <1>2, <1>3 DEF Draws, Entry
  <1>6. Contains(Vulns(p), Vulns(p)[col[k]])
    <2>1. Vulns(p) \in Seq(Advisories)
        BY <1>4, VulnsKnown
    <2> QED BY <1>5, <2>1 DEF Contains
  <1>7. Vulns(p)[col[k]] \in ToSet(database[p])
      BY <1>4, <1>6, VulnsKnown
  <1>8. dep_to_file[p] \in Sources(p) /\ \A f \in Sources(p) : dep_to_file[p] <= f
      BY <1>3, <1>4, DepsKnown
  <1> QED BY <1>5, <1>7, <1>8

\* What a package whose answer came looks like when all has been looked up.
LEMMA AnsweredWhole ==
  ASSUME Inv, AllAsked, NEW p, Sources(p) # {}, p \notin unanswered
  PROVE  /\ p \in Packages /\ dep_to_ids[p] = database[p]
         /\ \E i \in DOMAIN deps : deps[i] = p
  <1>1. Contains(deps, p)
      BY DepsKnown
  <1>2. deps \in Seq(Packages) /\ asked \in 0 .. Len(deps) /\ Len(deps) \in Nat /\ asked >= Len(deps)
      BY DEF Inv, TypeOK, AllAsked
  <1>3. PICK i \in 1 .. Len(deps) : deps[i] = p
      BY <1>1 DEF Contains
  <1>4. i \in 1 .. asked /\ i \in DOMAIN deps /\ p \in Packages
      BY <1>2, <1>3
  <1> QED BY <1>3, <1>4 DEF Inv, QueryInv

LEMMA Completeness ==
  ASSUME Inv
  PROVE  FindingsAreComplete
  <1> SUFFICES ASSUME pc = "returned", 0 \notin notes,
                      NEW p \in Packages \ unanswered, NEW v \in ToSet(database[p]) \ dropped,
                      Sources(p) # {}
               PROVE  Cardinality({k \in DOMAIN findings : findings[k][1] = p /\ findings[k][2] = v}) = 1
      BY DEF FindingsAreComplete
  <1>1. Contains(deps, p)
      BY DepsKnown
  <1>2. deps # <<>>
      BY <1>1 DEF Contains
  <1>3. findings = Rendered /\ AllLookedUp
      BY <1>2 DEF Inv, FindInv
  <1>4. dep_to_ids[p] = database[p] /\ \E i \in DOMAIN deps : deps[i] = p
      BY <1>3, AnsweredWhole DEF AllLookedUp
  <1>5. v \in details
    <2>1. v \in UniqueIds
        BY <1>4 DEF UniqueIds
    <2> QED BY <1>3, <2>1 DEF AllLookedUp
  <1>6. PICK i \in DOMAIN deps : deps[i] = p
      BY <1>4
  <1>7. PICK j \in DOMAIN Vulns(p) : Vulns(p)[j] = v
    <2>1. Contains(Vulns(p), v) /\ Vulns(p) \in Seq(Advisories)
        BY <1>4, <1>5, VulnsKnown
    <2> QED BY <2>1 DEF Contains
  <1>8. PICK row, col : Draws(findings, row, col)
      BY <1>3, FindingsKnown
  <1>9. PICK k \in DOMAIN findings : row[k] = i /\ col[k] = j
      BY <1>6, <1>7, <1>8 DEF Draws
  <1>10. findings[k][1] = p /\ findings[k][2] = v
      BY <1>6, <1>7, <1>8, <1>9 DEF Draws, Entry
  <1>11. ASSUME NEW l \in DOMAIN findings, findings[l][1] = p, findings[l][2] = v
         PROVE  l = k
    <2>1. /\ row[l] \in DOMAIN deps /\ deps[row[l]] = p
          /\ col[l] \in DOMAIN Vulns(p) /\ Vulns(p)[col[l]] = v
        BY <1>8, <1>11 DEF Draws, Entry
    <2>2. row[l] \in Nat /\ i \in Nat /\ col[l] \in Nat /\ j \in Nat /\ l \in Nat /\ k \in Nat
      <3>1. DOMAIN deps \subseteq Nat /\ DOMAIN findings \subseteq Nat
          BY DEF Inv, TypeOK
      <3>2. DOMAIN Vulns(p) \subseteq Nat
        <4>1. Vulns(p) \in Seq(Advisories)
            BY VulnsKnown
        <4> QED BY <4>1
      <3> HIDE DEF Inv
      <3> QED BY <2>1, <3>1, <3>2
    <2>3. row[l] = i
      <3>1. \A a, b \in DOMAIN deps : a < b => deps[a] # deps[b]
          BY DepsKnown DEF ComesBefore
      <3> QED BY <1>6, <2>1, <2>2, <3>1
    <2>4. col[l] = j
      <3>1. \A c, d \in DOMAIN Vulns(p) : c < d => Vulns(p)[c] # Vulns(p)[d]
          BY VulnsKnown
      <3> QED BY <1>7, <2>1, <2>2, <3>1
    <2>5. ~(l < k) /\ ~(k < l)
        BY <1>8, <1>9, <2>2, <2>3, <2>4 DEF Draws
    <2> QED BY <2>2, <2>5
  <1>12. {n \in DOMAIN findings : findings[n][1] = p /\ findings[n][2] = v} = {k}
      BY <1>10, <1>11
  <1> QED BY <1>12, FS_Singleton

LEMMA Ordering ==
  ASSUME Inv
  PROVE  FindingsKeepOrder
  <1> SUFFICES ASSUME NEW i \in DOMAIN findings, NEW j \in DOMAIN findings, i < j,
                      NEW p, p = findings[i][1], NEW q, q = findings[j][1]
               PROVE  \/ findings[i][3] < findings[j][3]
                      \/ /\ findings[i][3] = findings[j][3] /\ p # q
                         /\ Place(parsed[findings[i][3]], p) < Place(parsed[findings[i][3]], q)
                      \/ /\ p = q
                         /\ Place(database[p], findings[i][2]) < Place(database[p], findings[j][2])
      BY DEF FindingsKeepOrder
  <1>1. findings = Rendered
      BY DEF Inv, FindInv
  <1>2. PICK row, col : Draws(findings, row, col)
      BY <1>1, FindingsKnown
  <1>3. /\ row[i] \in DOMAIN deps /\ row[j] \in DOMAIN deps
        /\ p = deps[row[i]] /\ findings[i][2] = Vulns(p)[col[i]]
        /\ findings[i][3] = dep_to_file[p] /\ col[i] \in DOMAIN Vulns(p)
        /\ q = deps[row[j]] /\ findings[j][2] = Vulns(q)[col[j]]
        /\ findings[j][3] = dep_to_file[q] /\ col[j] \in DOMAIN Vulns(q)
      BY <1>2 DEF Draws, Entry
  <1>4. row[i] < row[j] \/ (row[i] = row[j] /\ col[i] < col[j])
      BY <1>2 DEF Draws
  <1>5. CASE row[i] < row[j]
    <2>1. ComesBefore(parsed, p, q)
        BY <1>3, <1>5, DepsKnown
    <2>2. /\ findings[i][3] = FirstSource(parsed, p)
          /\ findings[j][3] = FirstSource(parsed, q)
        BY <1>3, DepsKnown
    <2> QED BY <2>1, <2>2 DEF ComesBefore
  <1>6. CASE row[i] = row[j] /\ col[i] < col[j]
    <2>1. p = q /\ p \in Packages
        BY <1>3, <1>6 DEF Inv, TypeOK
    <2>2. Place(database[p], Vulns(p)[col[i]]) < Place(database[p], Vulns(p)[col[j]])
        BY <1>3, <1>6, <2>1, VulnsKnown
    <2> QED BY <1>3, <2>1, <2>2
  <1> QED BY <1>4, <1>5, <1>6

LEMMA Cleanness ==
  ASSUME Inv
  PROVE  CleanMeansClean
  <1> SUFFICES ASSUME review.summary = "clean"
               PROVE  /\ \A i \in DOMAIN matched :
                           matched[i] = "unlisted" \/ (matched[i] = "parser" /\ parsed[i] # Unreadable)
                      /\ \A p \in Packages : Sources(p) # {} =>
                           p \in unanswered \/ ToSet(database[p]) \subseteq dropped
                      /\ asked = Len(deps)
      BY DEF CleanMeansClean
  <1>1. pc = "returned" /\ parsed # <<>> /\ findings = <<>> /\ unsupported = {} /\ notes = {}
      BY DEF Inv, ReviewInv
  <1>2. \A i \in DOMAIN matched : matched[i] # "unsupported" /\ parsed[i] # Unreadable
      BY <1>1 DEF Inv, ScanInv
  <1>6. \A i \in DOMAIN matched :
          matched[i] = "unlisted" \/ (matched[i] = "parser" /\ parsed[i] # Unreadable)
    <2>1. matched \in Seq(Kinds)
        BY DEF Inv, TypeOK
    <2>2. \A i \in DOMAIN matched : matched[i] \in Kinds
        BY <2>1
    <2> QED BY <1>2, <2>2 DEF Kinds
  <1>3. deps \in Seq(Packages) /\ asked \in 0 .. Len(deps) /\ Len(deps) \in Nat
      BY DEF Inv, TypeOK
  <1>4. asked = Len(deps)
    <2>1. CASE deps = <<>>
        BY <1>3, <2>1
    <2>2. CASE deps # <<>>
        BY <1>1, <1>3, <2>2 DEF Inv, FindInv, AllLookedUp, AllAsked
    <2> QED BY <2>1, <2>2
  <1>5. ASSUME NEW p \in Packages, Sources(p) # {}, p \notin unanswered
        PROVE  ToSet(database[p]) \subseteq dropped
    <2>1. Contains(deps, p)
        BY <1>5, DepsKnown
    <2>2. deps # <<>>
        BY <2>1 DEF Contains
    <2>3. findings = Rendered /\ AllLookedUp
        BY <1>1, <2>2 DEF Inv, FindInv
    <2>4. PICK i \in DOMAIN deps : deps[i] = p
        BY <1>5, <2>3, AnsweredWhole DEF AllLookedUp
    <2>5. dep_to_ids[p] = database[p]
        BY <1>5, <2>3, AnsweredWhole DEF AllLookedUp
    <2>6. PICK row, col : Draws(findings, row, col)
        BY <2>3, FindingsKnown
    <2>7. DOMAIN findings = {}
        BY <1>1
    <2>8. DOMAIN Vulns(p) = {}
        BY <2>4, <2>6, <2>7 DEF Draws
    <2>9. ASSUME NEW v \in ToSet(database[p]) PROVE v \in dropped
      <3>1. v \in details \cup dropped
        <4>1. v \in UniqueIds
            BY <2>5 DEF UniqueIds
        <4> QED BY <2>3, <4>1 DEF AllLookedUp
      <3>2. v \notin details
        <4>1. Vulns(p) \in Seq(Advisories) /\ ~Contains(Vulns(p), v)
          <5>1. Vulns(p) \in Seq(Advisories)
              BY VulnsKnown
          <5> QED BY <2>8, <5>1 DEF Contains
        <4> QED BY <2>5, <4>1, VulnsKnown
      <3> QED BY <3>1, <3>2
    <2> QED BY <2>9
  <1> QED BY <1>4, <1>5, <1>6

\* Findings are OSV's own and cite the first manifest that pins the package,
\* none that was answered is missing or doubled, and their order is that of the
\* manifests and of OSV's lists (DependencyScanner, OSVClient.query,
\* _render_findings), for any manifests, answers, short responses, failed lookups
\* and batch size.
THEOREM FindingsExact == Spec => []FindingsAreExact
  <1>1. Inv => FindingsAreExact
      BY Soundness, Completeness, Ordering DEF FindingsAreExact
  <1> QED BY Always, <1>1, PTL

\* "No known vulnerabilities" and a passed review mean what CleanMeansClean and
\* PassedMeansHarmless say and no more (_overall_severity, the summary branches of
\* DependencyReviewer._summarise), for any scores too: manifests of kinds the scanner
\* does not list, packages OSV did not answer for and advisories whose lookup failed
\* may stand behind a clean bill, but nothing else.
THEOREM VerdictEarned == Spec => []VerdictIsEarned
  <1>1. Inv => VerdictIsEarned
      BY Cleanness DEF Inv, ReviewInv, VerdictIsEarned
  <1> QED BY Always, <1>1, PTL
=============================================================================
