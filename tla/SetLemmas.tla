------------------------------ MODULE SetLemmas ------------------------------
(***************************************************************************)
(* Facts about finite sets of numbers, and inductions over them, that the  *)
(* proofs use and the library does not have.                               *)
(***************************************************************************)
EXTENDS Integers, Sequences, FiniteSets, FiniteSetTheorems, TLAPS

\* A finite set of natural numbers that is not empty has a greatest element
\* (the CHOOSE of a lookup, an outermost scope or a last declaration exists).
LEMMA MaxExists ==
  ASSUME NEW S \in SUBSET Nat, IsFiniteSet(S), S # {}
  PROVE  \E m \in S : \A n \in S : n <= m
<1> DEFINE Up(k) == {n \in S : n >= k}
           T == {U \in SUBSET S : \E k \in S : U = Up(k)}
           R == StrictSubsetOrdering(S)
<1>1. IsWellFoundedOn(R, SUBSET S)
  BY FS_StrictSubsetOrderingWellFounded, FS_FiniteSubsetsOfFinite
<1>2. T \subseteq SUBSET S /\ T # {}
  <2>1. PICK k \in S : TRUE
    OBVIOUS
  <2>2. Up(k) \in SUBSET S
    OBVIOUS
  <2> QED BY <2>1, <2>2
<1>3. PICK U \in T : \A V \in T : <<V, U>> \notin R
  <2> HIDE DEF R, T
  <2> QED BY <1>1, <1>2, WFMin, Zenon
<1>4. PICK m \in S : U = Up(m)
  BY <1>3
<1>5. ASSUME NEW n \in S, ~(n <= m)
      PROVE  FALSE
  <2>1. m \in Nat /\ n \in Nat /\ n > m
    BY <1>5
  <2>2. m \in Up(m) /\ m \notin Up(n)
    BY <2>1
  <2>3. \A k \in Up(n) : k \in Up(m)
    <3> SUFFICES ASSUME NEW k \in S, k >= n
                 PROVE  k >= m
      OBVIOUS
    <3>1. k \in Nat
      OBVIOUS
    <3> QED BY <2>1, <3>1
  <2>4. <<Up(n), U>> \in R
    <3>1. Up(n) \in SUBSET S /\ U \in SUBSET S
      BY <1>4
    <3>2. Up(n) \subseteq U /\ Up(n) # U
      <4> HIDE DEF Up
      <4> QED BY <2>2, <2>3, <1>4
    <3> QED BY <3>1, <3>2 DEF StrictSubsetOrdering
  <2>5. Up(n) \in T
    BY <1>5
  <2> QED BY <2>4, <2>5, <1>3
<1> QED BY <1>5

\* The greatest position of a nonempty set of positions, as CHOOSE writes it.
LEMMA GreatestPosition ==
  ASSUME NEW n \in Nat, NEW S \in SUBSET (1..n), S # {}
  PROVE  /\ (CHOOSE m \in S : \A k \in S : k <= m) \in S
         /\ \A k \in S : k <= (CHOOSE m \in S : \A k1 \in S : k1 <= m)
<1>1. S \in SUBSET Nat
  OBVIOUS
<1>2. \A k \in S : k <= n
  OBVIOUS
<1>3. IsFiniteSet(S)
  BY <1>1, <1>2, FS_BoundedSetOfNaturals
<1>4. \E m \in S : \A k \in S : k <= m
  BY <1>1, <1>3, MaxExists
<1> QED BY <1>4

\* The least position of a nonempty set of positions, as CHOOSE writes it.
LEMMA LeastPosition ==
  ASSUME NEW n \in Nat, NEW S \in SUBSET (1..n), S # {}
  PROVE  /\ (CHOOSE m \in S : \A k \in S : m <= k) \in S
         /\ \A k \in S : (CHOOSE m \in S : \A k1 \in S : m <= k1) <= k
<1> DEFINE T == {n - k : k \in S}
<1>1. T \in SUBSET Nat /\ T # {} /\ \A t \in T : t <= n
  <2>1. \A k \in S : n - k \in Nat /\ n - k <= n
    <3> SUFFICES ASSUME NEW k \in S
                 PROVE  n - k \in Nat /\ n - k <= n
      OBVIOUS
    <3>1. k \in 1..n
      OBVIOUS
    <3> QED BY <3>1
  <2>2. T \in SUBSET Nat /\ \A t \in T : t <= n
    BY <2>1
  <2>3. PICK k \in S : TRUE
    OBVIOUS
  <2>4. n - k \in T
    BY <2>3
  <2> QED BY <2>2, <2>4
<1>2. IsFiniteSet(T)
  BY <1>1, FS_BoundedSetOfNaturals
<1>3. PICK t \in T : \A u \in T : u <= t
  BY <1>1, <1>2, MaxExists
<1>4. PICK m \in S : t = n - m
  OBVIOUS
<1>5. ASSUME NEW k \in S
      PROVE  m <= k
  <2>1. n - k \in T
    OBVIOUS
  <2>2. n - k <= n - m
    BY <1>3, <1>4, <2>1
  <2> QED BY <2>2
<1>6. \E m1 \in S : \A k \in S : m1 <= k
  BY <1>5
<1> QED BY <1>6

\* What holds at 0 and goes on from each number to the next holds up to n: an
\* induction over a set, where an operator cannot be a parameter.
LEMMA UpTo ==
  ASSUME NEW n \in Nat, NEW P, 0 \in P, \A k \in 0..(n - 1) : k \in P => k + 1 \in P
  PROVE  \A k \in 0..n : k \in P
<1>. DEFINE Bad == {k \in 1..n : k \notin P}
<1>1. Bad = {}
  <2>. SUFFICES ASSUME Bad # {} PROVE FALSE OBVIOUS
  <2>1. Bad \in SUBSET (1..n) OBVIOUS
  <2>2. PICK m \in Bad : \A k \in Bad : m <= k
    <3>. HIDE DEF Bad
    <3>. QED BY <2>1, LeastPosition
  <2>3. m \in 1..n /\ m \notin P OBVIOUS
  <2>4. m - 1 \in 0..(n - 1) /\ (m - 1) + 1 = m /\ ~(m <= m - 1) BY <2>3
  <2>5. m - 1 = 0 \/ m - 1 \in 1..n BY <2>3
  <2>6. m - 1 \notin Bad BY <2>2, <2>4
  <2>7. m - 1 \in P BY <2>5, <2>6
  <2>. QED BY <2>3, <2>4, <2>7
<1>2. ASSUME NEW k \in 0..n PROVE k = 0 \/ k \in 1..n BY <1>2
<1>. QED BY <1>1, <1>2

\* A fold over the numbers up to n, with a step for each of them, exists.
LEMMA FoldExists ==
  ASSUME NEW D, NEW base \in D, NEW n \in Nat, NEW step \in [1..n -> [D -> D]]
  PROVE  \E h \in [0..n -> D] : h[0] = base /\ \A k \in 1..n : h[k] = step[k][h[k - 1]]
<1>. DEFINE Folds(h, m) == /\ h \in [0..m -> D] /\ h[0] = base
                           /\ \A k \in 1..m : h[k] = step[k][h[k - 1]]
            P == {m \in 0..n : \E h : Folds(h, m)}
<1>1. 0 \in P
  <2>. DEFINE h == [k \in 0..0 |-> base]
  <2>1. h \in [0..0 -> D] /\ h[0] = base /\ 1..0 = {} OBVIOUS
  <2>2. Folds(h, 0) BY <2>1
  <2>3. 0 \in 0..n OBVIOUS
  <2>. HIDE DEF Folds
  <2>. QED BY <2>2, <2>3
<1>2. ASSUME NEW m \in 0..(n - 1), m \in P PROVE m + 1 \in P
  <2>1. PICK h : Folds(h, m) BY <1>2
  <2>. DEFINE next == step[m + 1][h[m]]
              i == [k \in 0..(m + 1) |-> IF k = m + 1 THEN next ELSE h[k]]
  <2>2. m \in 0..m /\ m + 1 \in 1..n /\ m + 1 \in 0..n OBVIOUS
  <2>3. h[m] \in D BY <2>1, <2>2
  <2>4. next \in D
    <3>1. step[m + 1] \in [D -> D] BY <2>2
    <3>. QED BY <2>3, <3>1
  <2>. HIDE DEF next
  <2>5. \A k \in 0..(m + 1) : k = m + 1 \/ (k \in 0..m /\ k # m + 1) OBVIOUS
  <2>6. i \in [0..(m + 1) -> D]
    <3>1. \A k \in 0..(m + 1) : i[k] \in D BY <2>1, <2>4, <2>5
    <3>. QED BY <3>1
  <2>7. i[0] = base BY <2>1
  <2>8. ASSUME NEW k \in 1..(m + 1) PROVE i[k] = step[k][i[k - 1]]
    <3>1. k - 1 \in 0..(m + 1) /\ k - 1 # m + 1 /\ k \in 0..(m + 1) OBVIOUS
    <3>2. i[k - 1] = h[k - 1] BY <3>1
    <3>3. CASE k = m + 1
      <4>1. i[k] = next /\ k - 1 = m BY <3>3
      <4>. QED BY <3>2, <3>3, <4>1 DEF next
    <3>4. CASE k # m + 1
      <4>1. k \in 1..m /\ i[k] = h[k] BY <3>4
      <4>. QED BY <2>1, <3>2, <4>1
    <3>. QED BY <3>3, <3>4
  <2>. HIDE DEF i
  <2>9. Folds(i, m + 1) BY <2>6, <2>7, <2>8
  <2>. HIDE DEF Folds
  <2>. QED BY <2>2, <2>9
<1>3. n \in P
  <2>1. n \in 0..n OBVIOUS
  <2>. HIDE DEF P
  <2>. QED BY <1>1, <1>2, <2>1, UpTo
<1>. QED BY <1>3

\* How often a value occurs in a sequence.
Occurrences(s, v) == Cardinality({i \in DOMAIN s : s[i] = v})

\* The positions of a value in a sequence are finitely many.
LEMMA OccurrencesFinite ==
  ASSUME NEW T, NEW s \in Seq(T), NEW v
  PROVE  /\ IsFiniteSet({i \in DOMAIN s : s[i] = v})
         /\ Occurrences(s, v) \in Nat
<1>1. IsFiniteSet(1..Len(s))
  BY FS_Interval
<1>2. {i \in DOMAIN s : s[i] = v} \in SUBSET (1..Len(s))
  OBVIOUS
<1>3. IsFiniteSet({i \in DOMAIN s : s[i] = v})
  BY <1>1, <1>2, FS_Subset
<1> QED BY <1>3, FS_CardinalityType DEF Occurrences

\* Appending a value adds one to its occurrences and to no other's.
LEMMA OccurrencesAppend ==
  ASSUME NEW T, NEW s \in Seq(T), NEW e \in T, NEW v
  PROVE  Occurrences(Append(s, e), v) = Occurrences(s, v) + (IF e = v THEN 1 ELSE 0)
<1> DEFINE old == {i \in DOMAIN s : s[i] = v}
           n == Len(s) + 1
           new == {i \in DOMAIN Append(s, e) : Append(s, e)[i] = v}
<1>1. IsFiniteSet(old) /\ Cardinality(old) \in Nat
  BY OccurrencesFinite DEF Occurrences
<1>2. n \notin old
  OBVIOUS
<1>3. /\ Occurrences(s, v) = Cardinality(old)
      /\ Occurrences(Append(s, e), v) = Cardinality(new)
  BY DEF Occurrences
<1>4. CASE e = v
  <2>1. new = old \cup {n}
    BY <1>4
  <2>2. Cardinality(old \cup {n}) = Cardinality(old) + 1
    <3> HIDE DEF old, n
    <3> QED BY <1>1, <1>2, FS_AddElement
  <2> HIDE DEF old, n, new
  <2> QED BY <1>3, <1>4, <2>1, <2>2
<1>5. CASE e # v
  <2>1. new = old
    BY <1>5
  <2> HIDE DEF old, n, new
  <2> QED BY <1>1, <1>3, <1>5, <2>1
<1> QED BY <1>4, <1>5

\* Dropping the last element takes one from its occurrences.
LEMMA OccurrencesFront ==
  ASSUME NEW T, NEW s \in Seq(T), s # <<>>, NEW v
  PROVE  /\ SubSeq(s, 1, Len(s) - 1) \in Seq(T)
         /\ Occurrences(s, v) = Occurrences(SubSeq(s, 1, Len(s) - 1), v)
                                  + (IF s[Len(s)] = v THEN 1 ELSE 0)
<1> DEFINE f == SubSeq(s, 1, Len(s) - 1)
<1>1. Len(s) \in Nat \ {0}
  OBVIOUS
<1>2. f \in Seq(T)
  BY <1>1
<1>3. s[Len(s)] \in T
  BY <1>1
<1>4. Append(f, s[Len(s)]) = s
  BY <1>1
<1>5. Occurrences(Append(f, s[Len(s)]), v)
        = Occurrences(f, v) + (IF s[Len(s)] = v THEN 1 ELSE 0)
  <2> HIDE DEF f
  <2> QED BY <1>2, <1>3, OccurrencesAppend
<1> QED BY <1>2, <1>4, <1>5

\* Finitely many numbers have a bound.
LEMMA BoundExists ==
  ASSUME NEW n \in Nat, NEW r \in [1..n -> Nat]
  PROVE  \E m \in Nat : \A i \in 1..n : r[i] <= m
<1>. DEFINE P == {k \in 0..n : \E m \in Nat : \A i \in 1..k : r[i] <= m}
<1>1. 0 \in P
  <2>1. 0 \in 0..n /\ 1..0 = {} OBVIOUS
  <2>. QED BY <2>1
<1>2. ASSUME NEW k \in 0..(n - 1), k \in P PROVE k + 1 \in P
  <2>1. PICK m \in Nat : \A i \in 1..k : r[i] <= m BY <1>2
  <2>2. k + 1 \in 1..n /\ k + 1 \in 0..n OBVIOUS
  <2>3. r[k + 1] \in Nat BY <2>2
  <2>4. PICK q \in Nat : m <= q /\ r[k + 1] <= q
    <3>1. CASE m <= r[k + 1] BY <2>3, <3>1
    <3>2. CASE ~(m <= r[k + 1]) BY <2>3, <3>2
    <3>. QED BY <3>1, <3>2
  <2>5. \A i \in 1..(k + 1) : r[i] <= q
    <3>. SUFFICES ASSUME NEW i \in 1..(k + 1) PROVE r[i] <= q OBVIOUS
    <3>1. i = k + 1 \/ i \in 1..k OBVIOUS
    <3>2. i \in 1..n /\ r[i] \in Nat
      <4>1. i \in 1..n BY <2>2
      <4>. QED BY <4>1
    <3>. QED BY <2>1, <2>3, <2>4, <3>1, <3>2
  <2>. QED BY <2>2, <2>5
<1>3. n \in 0..n OBVIOUS
<1>4. n \in P
  <2>. HIDE DEF P
  <2>. QED BY <1>1, <1>2, <1>3, UpTo
<1>. QED BY <1>4

\* Of finitely many numbers some have the greatest rank.
LEMMA GreatestRank ==
  ASSUME NEW n \in Nat, NEW r \in [1..n -> Nat], NEW S \in SUBSET (1..n), S # {}
  PROVE  \E b \in S : \A c \in S : r[c] <= r[b]
<1>. DEFINE T == {r[b] : b \in S}
<1>1. PICK m \in Nat : \A i \in 1..n : r[i] <= m BY BoundExists
<1>2. T \in SUBSET Nat /\ T # {} /\ \A t \in T : t <= m BY <1>1
<1>3. PICK t \in T : \A u \in T : u <= t
  <2>. HIDE DEF T
  <2>1. IsFiniteSet(T) BY <1>2, FS_BoundedSetOfNaturals
  <2>. QED BY <1>2, <2>1, MaxExists
<1>4. PICK b \in S : t = r[b] OBVIOUS
<1>5. \A c \in S : r[c] \in T OBVIOUS
<1>. QED BY <1>3, <1>4, <1>5

\* h[k] is what k repetitions of phi make of base.
Iterates(h, F, base, l, phi) ==
  /\ h \in [0..l -> F] /\ h[0] = base
  /\ \A k \in 1..l : h[k] = phi[h[k - 1]]

\* A step may be repeated.
LEMMA IterationExists ==
  ASSUME NEW F, NEW base \in F, NEW l \in Nat, NEW phi \in [F -> F]
  PROVE  \E h : Iterates(h, F, base, l, phi)
<1>. DEFINE step == [k \in 1..l |-> phi]
<1>1. step \in [1..l -> [F -> F]] OBVIOUS
<1>2. \A k \in 1..l : step[k] = phi OBVIOUS
<1>. HIDE DEF step
<1>3. PICK h \in [0..l -> F] : h[0] = base /\ \A k \in 1..l : h[k] = step[k][h[k - 1]]
  BY <1>1, FoldExists
<1>4. \A k \in 1..l : h[k] = phi[h[k - 1]] BY <1>2, <1>3
<1>. QED BY <1>3, <1>4 DEF Iterates

\* What phi makes of a function at b depends on its values at greater ranks alone.
LooksAhead(n, D, F, phi, r) ==
  /\ n \in Nat /\ D # {} /\ F = [1..n -> D] /\ phi \in [F -> F] /\ r \in [1..n -> Nat]
  /\ \A f, g \in F : \A b \in 1..n :
       (\A c \in 1..n : r[b] < r[c] => f[c] = g[c]) => phi[f][b] = phi[g][b]

\* A definition that looks at greater ranks alone has a solution.
LEMMA RecursionExists ==
  ASSUME NEW n, NEW D, NEW F, NEW phi, NEW r, LooksAhead(n, D, F, phi, r)
  PROVE  \E f \in F : phi[f] = f
<1>0. /\ n \in Nat /\ D # {} /\ F = [1..n -> D] /\ phi \in [F -> F] /\ r \in [1..n -> Nat]
      /\ \A f, g \in F : \A b \in 1..n :
           (\A c \in 1..n : r[b] < r[c] => f[c] = g[c]) => phi[f][b] = phi[g][b]
  BY DEF LooksAhead
<1>. SUFFICES ASSUME n \in Nat, D # {}, F = [1..n -> D], phi \in [F -> F], r \in [1..n -> Nat],
                     \A f, g \in F : \A b \in 1..n :
                       (\A c \in 1..n : r[b] < r[c] => f[c] = g[c]) => phi[f][b] = phi[g][b]
              PROVE  \E f \in F : phi[f] = f
  BY <1>0
<1>1. PICK m \in Nat : \A b \in 1..n : r[b] <= m BY BoundExists
<1>2. PICK base \in F : TRUE
  <2>1. PICK d \in D : TRUE OBVIOUS
  <2>2. [b \in 1..n |-> d] \in F OBVIOUS
  <2>. QED BY <2>2
<1>3. PICK h \in [0..(m + 1) -> F] :
        h[0] = base /\ \A k \in 1..(m + 1) : h[k] = phi[h[k - 1]]
  <2>1. m + 1 \in Nat OBVIOUS
  <2>2. PICK h : Iterates(h, F, base, m + 1, phi) BY <2>1, IterationExists, Zenon
  <2>. QED BY <2>2 DEF Iterates
<1>. DEFINE P == {k \in 0..(m + 1) : \A b \in 1..n : r[b] + k > m => h[k][b] = phi[h[k]][b]}
<1>4. 0 \in P
  <2>1. 0 \in 0..(m + 1) OBVIOUS
  <2>2. \A b \in 1..n : ~(r[b] + 0 > m)
    <3>. TAKE b \in 1..n
    <3>1. r[b] \in Nat /\ r[b] <= m BY <1>1
    <3>. QED BY <3>1
  <2>. QED BY <2>1, <2>2
<1>5. ASSUME NEW k \in 0..m, k \in P PROVE k + 1 \in P
  <2>1. k \in 0..(m + 1) /\ k + 1 \in 1..(m + 1) /\ k + 1 \in 0..(m + 1) /\ (k + 1) - 1 = k
    OBVIOUS
  <2>2. h[k] \in F /\ h[k + 1] \in F /\ h[k + 1] = phi[h[k]] BY <1>3, <2>1
  <2>3. ASSUME NEW b \in 1..n, r[b] + (k + 1) > m PROVE h[k + 1][b] = phi[h[k + 1]][b]
    <3>1. ASSUME NEW c \in 1..n, r[b] < r[c] PROVE h[k][c] = h[k + 1][c]
      <4>1. r[b] \in Nat /\ r[c] \in Nat OBVIOUS
      <4>2. r[c] + k > m BY <2>3, <3>1, <4>1
      <4>. QED BY <1>5, <2>2, <4>2
    <3>2. phi[h[k]][b] = phi[h[k + 1]][b] BY <2>2, <3>1
    <3>. QED BY <2>2, <3>2
  <2>. QED BY <2>1, <2>3
<1>6. m + 1 \in P
  <2>1. m + 1 \in Nat /\ m + 1 \in 0..(m + 1) /\ (m + 1) - 1 = m OBVIOUS
  <2>. HIDE DEF P
  <2>2. \A k \in 0..(m + 1) - 1 : k \in P => k + 1 \in P BY <1>5, <2>1
  <2>3. \A k \in 0..(m + 1) : k \in P BY ONLY <1>4, <2>1, <2>2, UpTo
  <2>. QED BY <2>1, <2>3
<1>. DEFINE f == h[m + 1]
<1>7. f \in F /\ phi[f] \in F
  <2>1. m + 1 \in 0..(m + 1) OBVIOUS
  <2>. QED BY <2>1
<1>8. \A b \in 1..n : f[b] = phi[f][b]
  <2>. TAKE b \in 1..n
  <2>1. r[b] + (m + 1) > m
    <3>1. r[b] \in Nat OBVIOUS
    <3>. QED BY <3>1
  <2>. QED BY <1>6, <2>1
<1>. HIDE DEF f
<1>9. phi[f] = f BY <1>7, <1>8
<1>. QED BY <1>7, <1>9

\* A growing subset of n things stands still after n steps.
LEMMA Saturates ==
  ASSUME NEW n \in Nat, NEW D, D = SUBSET (1..n), NEW F \in [D -> D], \A T \in D : T \subseteq F[T],
         NEW base, NEW h, Iterates(h, D, base, n, F)
  PROVE  F[h[n]] = h[n]
<1>0. h \in [0..n -> D] /\ \A k \in 1..n : h[k] = F[h[k - 1]] BY DEF Iterates
<1>1. IsFiniteSet(1..n) /\ Cardinality(1..n) = n BY FS_Interval
<1>2. ASSUME NEW T \in D
      PROVE  /\ IsFiniteSet(T) /\ Cardinality(T) \in Nat /\ Cardinality(T) <= n
             /\ Cardinality(T) = n => T = 1..n
  <2>. DEFINE S == 1..n
  <2>0. T \in SUBSET S /\ IsFiniteSet(S) /\ Cardinality(S) = n BY <1>1
  <2>. HIDE DEF S
  <2>1. IsFiniteSet(T) /\ Cardinality(T) <= n /\ (Cardinality(T) = n => T = S)
    BY <2>0, FS_Subset
  <2>. USE DEF S
  <2>. QED BY <2>1, FS_CardinalityType
<1>. DEFINE P == {k \in 0..n : F[h[k]] = h[k] \/ Cardinality(h[k]) >= k}
<1>3. 0 \in P
  <2>1. 0 \in 0..n OBVIOUS
  <2>2. Cardinality(h[0]) \in Nat BY <1>0, <1>2, <2>1
  <2>. QED BY <2>1, <2>2
<1>4. ASSUME NEW k \in 0..(n - 1), k \in P PROVE k + 1 \in P
  <2>1. k \in 0..n /\ k + 1 \in 1..n /\ k + 1 \in 0..n /\ (k + 1) - 1 = k OBVIOUS
  <2>2. h[k] \in D /\ h[k + 1] \in D /\ h[k + 1] = F[h[k]] BY <1>0, <2>1
  <2>3. CASE F[h[k]] = h[k] BY <2>1, <2>2, <2>3
  <2>4. CASE F[h[k]] # h[k]
    <3>1. Cardinality(h[k]) >= k BY <1>4, <2>4
    <3>2. h[k] \in SUBSET h[k + 1] /\ h[k] # h[k + 1] BY <2>2, <2>4
    <3>3. IsFiniteSet(h[k + 1]) BY <1>2, <2>2
    <3>4. Cardinality(h[k]) <= Cardinality(h[k + 1]) /\ Cardinality(h[k]) # Cardinality(h[k + 1])
      BY <3>2, <3>3, FS_Subset
    <3>5. Cardinality(h[k]) \in Nat /\ Cardinality(h[k + 1]) \in Nat BY <1>2, <2>2
    <3>6. Cardinality(h[k + 1]) >= k + 1 BY <3>1, <3>4, <3>5
    <3>. QED BY <2>1, <3>6
  <2>. QED BY <2>3, <2>4
<1>5. n \in P
  <2>1. n \in 0..n OBVIOUS
  <2>. HIDE DEF P
  <2>. QED BY <1>3, <1>4, <2>1, UpTo
<1>6. CASE F[h[n]] = h[n] BY <1>6
<1>7. CASE Cardinality(h[n]) >= n
  <2>1. n \in 0..n OBVIOUS
  <2>2. h[n] \in D /\ F[h[n]] \in D BY <1>0, <2>1
  <2>3. h[n] = 1..n
    <3>1. Cardinality(h[n]) \in Nat /\ Cardinality(h[n]) <= n BY <1>2, <2>2
    <3>2. Cardinality(h[n]) = n BY <1>7, <3>1
    <3>. QED BY <1>2, <2>2, <3>2
  <2>4. h[n] \subseteq F[h[n]] /\ F[h[n]] \subseteq 1..n BY <2>2
  <2>. QED BY <2>3, <2>4
<1>. QED BY <1>5, <1>6, <1>7

==============================================================================
