-------------------------- MODULE WindowStagesProofs --------------------------
(* Proofs about the stages that lead to a window of work: the selection of the
   active window, for any agent graph, scopes and budgets; the messages of the
   agent graph; the regions of an iteration, for any layout, report and limits;
   and the compact context of a region, whatever is cut from it.              *)
EXTENDS ActiveWindow, RegionContext, FiniteSetTheorems, SequenceTheorems,
        WellFoundedInduction, TLAPS

-----------------------------------------------------------------------------
(* Natural numbers: sets of them have a least element, and a set that holds 0
   and what follows each of its members holds all.                             *)

LEMMA LeastElement ==
  ASSUME NEW N \in SUBSET Nat, N # {}
  PROVE  \E n \in N : \A m \in N : n <= m
<1> DEFINE Below == OpToRel(<, Nat)
<1>1. IsWellFoundedOn(Below, Nat)
  BY NatLessThanWellFounded, Zenon
<1>2. \A x, y \in Nat : y < x => <<y, x>> \in Below
  BY DEF OpToRel
<1> HIDE DEF Below
<1>3. PICK n \in N : \A m \in N : ~(<<m, n>> \in Below)
  BY <1>1, WFMin
<1>4. \A m \in N : m \in Nat /\ n \in Nat /\ ~(m < n)
  BY <1>2, <1>3
<1>5. \A m \in N : n <= m
  BY <1>4
<1>6. QED
  BY <1>5

LEMMA NatSteps ==
  ASSUME NEW S, 0 \in S, \A n \in Nat : n \in S => n + 1 \in S
  PROVE  Nat \subseteq S
<1>1. SUFFICES ASSUME Nat \ S # {} PROVE FALSE
  OBVIOUS
<1>2. PICK x \in Nat \ S : \A y \in Nat \ S : x <= y
  <2>1. Nat \ S \in SUBSET Nat
    OBVIOUS
  <2>2. QED
    BY <1>1, <2>1, LeastElement
<1>3. x - 1 \in Nat /\ x - 1 < x
  BY <1>2
<1>4. x - 1 \in S
  BY <1>2, <1>3
<1>5. (x - 1) + 1 \in S
  BY <1>3, <1>4
<1>6. QED
  BY <1>2, <1>5

-----------------------------------------------------------------------------
(* Breadth-first search. *)

\* One round of the search.
Round(joins, T) == T \cup UNION {joins[x] : x \in T}
Rounds(joins, start, R, N) ==
  R[0] = start /\ \A n \in 1..N : R[n] = Round(joins, R[n - 1])
HasRounds(U, joins, start, N) == \E R \in [0..N -> SUBSET U] : Rounds(joins, start, R, N)

LEMMA RoundInside ==
  ASSUME NEW U, NEW joins \in [U -> SUBSET U], NEW T \in SUBSET U
  PROVE  Round(joins, T) \in SUBSET U
BY DEF Round

LEMMA RoundsExist ==
  ASSUME NEW U, NEW joins \in [U -> SUBSET U], NEW start \in SUBSET U, NEW N \in Nat
  PROVE  HasRounds(U, joins, start, N)
<1> DEFINE Built == {n \in Nat : \E R \in [0..n -> SUBSET U] : Rounds(joins, start, R, n)}
<1>1. 0 \in Built
  <2>1. [i \in 0..0 |-> start] \in [0..0 -> SUBSET U] /\ Rounds(joins, start, [i \in 0..0 |-> start], 0)
    BY DEF Rounds
  <2>2. QED
    BY <2>1
<1>2. ASSUME NEW n \in Nat, n \in Built PROVE n + 1 \in Built
  <2>1. PICK R \in [0..n -> SUBSET U] : Rounds(joins, start, R, n)
    BY <1>2
  <2> DEFINE Q == [i \in 0..(n + 1) |-> IF i <= n THEN R[i] ELSE Round(joins, R[n])]
  <2>2. R[n] \in SUBSET U /\ Round(joins, R[n]) \in SUBSET U
    BY <2>1, RoundInside
  <2>3. Q \in [0..(n + 1) -> SUBSET U]
    <3>1. \A i \in 0..(n + 1) : i <= n => i \in 0..n
      OBVIOUS
    <3>2. QED
      BY <2>2, <3>1
  <2>4. Q[0] = start /\ \A i \in 1..n : Q[i] = Round(joins, Q[i - 1])
    <3>1. 0 \in 0..(n + 1) /\ 0 <= n
      OBVIOUS
    <3>2. \A i \in 1..n : i \in 0..(n + 1) /\ i - 1 \in 0..(n + 1) /\ i <= n /\ i - 1 <= n
      OBVIOUS
    <3>3. \A i \in 1..n : Q[i] = R[i] /\ Q[i - 1] = R[i - 1]
      BY <3>2
    <3> QED
      BY <2>1, <3>1, <3>3 DEF Rounds
  <2>5. Q[n + 1] = Round(joins, Q[n])
    <3>1. n + 1 \in 0..(n + 1) /\ n \in 0..(n + 1) /\ ~(n + 1 <= n) /\ n <= n
      OBVIOUS
    <3> QED
      BY <3>1
  <2>6. \A i \in 1..(n + 1) : Q[i] = Round(joins, Q[i - 1])
    <3>1. \A i \in 1..(n + 1) : i \in 1..n \/ (i = n + 1 /\ i - 1 = n)
      OBVIOUS
    <3> HIDE DEF Q
    <3> QED
      BY <2>4, <2>5, <3>1
  <2> QED
    <3> HIDE DEF Q
    <3> QED BY <2>3, <2>4, <2>6 DEF Rounds
<1>3. Nat \subseteq Built
  <2> HIDE DEF Built
  <2> QED BY <1>1, <1>2, NatSteps
<1> QED
  BY <1>3 DEF HasRounds

IsLastRound(U, joins, start) ==
  \E R \in [0..Cardinality(U) -> SUBSET U] :
    Rounds(joins, start, R, Cardinality(U)) /\ Spread(start, joins) = R[Cardinality(U)]

LEMMA SpreadRounds ==
  ASSUME NEW U, IsFiniteSet(U), NEW joins \in [U -> SUBSET U], NEW start \in SUBSET U
  PROVE  IsLastRound(U, joins, start)
<1> DEFINE N == Cardinality(DOMAIN joins)
           Def(f) == [n \in 0..N |-> IF n = 0 THEN start
                                     ELSE f[n-1] \cup UNION {joins[x] : x \in f[n-1]}]
           F == CHOOSE f : f = Def(f)
<1>1. N \in Nat /\ N = Cardinality(U)
  <2>1. DOMAIN joins = U
    OBVIOUS
  <2> QED
    BY <2>1, FS_CardinalityType
<1> HIDE DEF N
<1>2. PICK h \in [0..N -> SUBSET U] : Rounds(joins, start, h, N)
  <2>1. HasRounds(U, joins, start, N)
    BY <1>1, RoundsExist
  <2> QED
    BY <2>1, Zenon DEF HasRounds
<1>3. h = Def(h)
  <2>1. \A n \in 0..N : n # 0 => n \in 1..N
    BY <1>1
  <2>2. \A n \in 0..N : h[n] = IF n = 0 THEN start ELSE h[n-1] \cup UNION {joins[x] : x \in h[n-1]}
    BY <1>2, <2>1 DEF Rounds, Round
  <2> QED
    BY <2>2
<1>4. F = Def(F)
  <2> HIDE DEF Def
  <2> QED BY <1>3
<1>5. Spread(start, joins) = F[N]
  BY Zenon DEF Spread, N
<1> HIDE DEF F
<1>6. \A n \in 0..N : F[n] = IF n = 0 THEN start ELSE F[n-1] \cup UNION {joins[x] : x \in F[n-1]}
  BY <1>4
<1>7. Rounds(joins, start, F, N)
  <2>1. 0 \in 0..N /\ \A n \in 1..N : n \in 0..N /\ n # 0
    BY <1>1
  <2> QED
    BY <1>6, <2>1 DEF Rounds, Round
<1> DEFINE Fine == {n \in Nat : n \in 0..N => F[n] \in SUBSET U}
<1>8. 0 \in Fine
  BY <1>7 DEF Rounds
<1>9. ASSUME NEW n \in Nat, n \in Fine PROVE n + 1 \in Fine
  <2>1. SUFFICES ASSUME n + 1 \in 0..N PROVE F[n + 1] \in SUBSET U
    OBVIOUS
  <2>2. n \in 0..N /\ n + 1 \in 1..N /\ (n + 1) - 1 = n
    BY <1>1, <2>1
  <2>3. F[n] \in SUBSET U /\ F[n + 1] = Round(joins, F[n])
    BY <1>7, <1>9, <2>2 DEF Rounds
  <2> QED
    BY <2>3, RoundInside
<1>10. Nat \subseteq Fine
  <2> HIDE DEF Fine
  <2> QED BY <1>8, <1>9, NatSteps
<1>11. F \in [0..N -> SUBSET U]
  <2>1. \A n \in 0..N : F[n] \in SUBSET U
    BY <1>1, <1>10
  <2>2. F = [n \in 0..N |-> F[n]]
    BY <1>4
  <2> QED
    BY <2>1, <2>2
<1> QED
  BY <1>1, <1>5, <1>7, <1>11 DEF IsLastRound

(* The search ends with the least set that holds the start and whatever joins
   with its members: a round that adds nothing is the last, and as many rounds
   as there are elements cannot all add something.                             *)
LEMMA SpreadIsLeast ==
  ASSUME NEW U, IsFiniteSet(U), NEW joins \in [U -> SUBSET U], NEW start \in SUBSET U
  PROVE  /\ Spread(start, joins) \in SUBSET U /\ start \subseteq Spread(start, joins)
         /\ \A x \in Spread(start, joins) : joins[x] \subseteq Spread(start, joins)
         /\ \A C : start \subseteq C /\ (\A x \in C \cap U : joins[x] \subseteq C) =>
                     Spread(start, joins) \subseteq C
<1> DEFINE N == Cardinality(U)
<1>1. PICK R \in [0..N -> SUBSET U] : Rounds(joins, start, R, N) /\ Spread(start, joins) = R[N]
  <2>1. IsLastRound(U, joins, start)
    BY SpreadRounds
  <2> QED
    BY <2>1, Zenon DEF IsLastRound
<1>2. N \in Nat /\ N \in 0..N
  BY FS_CardinalityType
<1>3. \A T \in SUBSET U : IsFiniteSet(T) /\ Cardinality(T) \in Nat /\ Cardinality(T) <= N
                          /\ (Cardinality(T) = N => T = U)
  BY FS_Subset, FS_CardinalityType
<1> DEFINE Done(T) == \A x \in T : joins[x] \subseteq T
           Good(n) == /\ start \subseteq R[n]
                      /\ Done(R[n]) \/ Cardinality(R[n]) >= n
                      /\ \A C : start \subseteq C /\ (\A x \in C \cap U : joins[x] \subseteq C) => R[n] \subseteq C
           Fine == {n \in Nat : n \in 0..N => Good(n)}
<1> HIDE DEF N
<1>4. 0 \in Fine
  <2>1. R[0] = start /\ start \in SUBSET U /\ Cardinality(start) >= 0
    BY <1>1, <1>3 DEF Rounds
  <2> QED
    BY <2>1
<1>5. ASSUME NEW n \in Nat, n \in Fine PROVE n + 1 \in Fine
  <2>1. SUFFICES ASSUME n + 1 \in 0..N PROVE Good(n + 1)
    OBVIOUS
  <2>2. n \in 0..N /\ n + 1 \in 1..N /\ (n + 1) - 1 = n
    BY <1>2, <2>1
  <2>3. Good(n) /\ R[n] \in SUBSET U /\ R[n + 1] \in SUBSET U /\ R[n + 1] = Round(joins, R[n])
    BY <1>1, <1>5, <2>2 DEF Rounds
  <2>4. R[n + 1] = R[n] \cup UNION {joins[x] : x \in R[n]}
    BY <2>3 DEF Round
  <2>5. start \subseteq R[n + 1]
    BY <2>3, <2>4
  <2>6. ASSUME NEW C, start \subseteq C, \A x \in C \cap U : joins[x] \subseteq C
        PROVE  R[n + 1] \subseteq C
    <3>1. R[n] \subseteq C /\ R[n] \subseteq U
      BY <2>3, <2>6
    <3> QED
      BY <2>4, <2>6, <3>1
  <2>7. CASE Done(R[n])
    <3>1. R[n + 1] = R[n]
      BY <2>4, <2>7
    <3> QED
      BY <2>5, <2>6, <2>7, <3>1
  <2>8. CASE ~Done(R[n])
    <3>1. PICK x \in R[n + 1] : x \notin R[n]
      BY <2>4, <2>8
    <3>2. Cardinality(R[n]) >= n
      BY <2>3, <2>8
    <3>3. R[n] \subseteq R[n + 1] \ {x} /\ R[n + 1] \ {x} \in SUBSET U
      BY <2>3, <2>4, <3>1
    <3>4. Cardinality(R[n]) <= Cardinality(R[n + 1] \ {x})
      BY <1>3, <3>3, FS_Subset
    <3>5. Cardinality(R[n + 1] \ {x}) = Cardinality(R[n + 1]) - 1
      BY <1>3, <2>3, <3>1, FS_RemoveElement
    <3>6. Cardinality(R[n]) \in Nat /\ Cardinality(R[n + 1]) \in Nat
      BY <1>3, <2>3
    <3> HIDE DEF Done
    <3>7. Cardinality(R[n + 1]) >= n + 1
      BY <3>2, <3>4, <3>5, <3>6
    <3> QED
      BY <2>5, <2>6, <3>7
  <2> QED
    BY <2>7, <2>8
<1>6. Nat \subseteq Fine
  <2> HIDE DEF Fine
  <2> QED BY <1>4, <1>5, NatSteps
<1>7. Good(N) /\ R[N] \in SUBSET U
  BY <1>1, <1>2, <1>6
<1>8. Done(R[N])
  <2>1. CASE Cardinality(R[N]) >= N
    <3>1. Cardinality(R[N]) = N
      BY <1>2, <1>3, <1>7, <2>1
    <3>2. R[N] = U
      BY <1>3, <1>7, <3>1
    <3> QED
      BY <3>2
  <2> QED
    BY <1>7, <2>1
<1> QED
  BY <1>1, <1>7, <1>8
Increasing(s) == \A i, j \in DOMAIN s : i < j => s[i] < s[j]

\* Every finite set of numbers can be listed in increasing order.
LEMMA Enumerated ==
  ASSUME NEW S \in SUBSET Nat, IsFiniteSet(S)
  PROVE  \E s \in [1..Cardinality(S) -> S] : Increasing(s)
<1> DEFINE Listed == {n \in Nat : \A T \in SUBSET Nat : IsFiniteSet(T) /\ Cardinality(T) = n =>
                                     \E s \in [1..n -> T] : Increasing(s)}
<1>1. 0 \in Listed
  <2>1. \A T : [i \in 1..0 |-> 0] \in [1..0 -> T] /\ Increasing([i \in 1..0 |-> 0])
    BY DEF Increasing
  <2>2. QED
    BY <2>1
<1>2. ASSUME NEW n \in Nat, n \in Listed PROVE n + 1 \in Listed
  <2>1. SUFFICES ASSUME NEW T \in SUBSET Nat, IsFiniteSet(T), Cardinality(T) = n + 1
                 PROVE  \E s \in [1..(n + 1) -> T] : Increasing(s)
    OBVIOUS
  <2>2. T # {}
    BY <2>1, FS_EmptySet
  <2>3. PICK m \in T : \A x \in T : m <= x
    BY <2>1, <2>2, LeastElement
  <2> DEFINE U == T \ {m}
  <2>4. U \in SUBSET Nat /\ IsFiniteSet(U) /\ Cardinality(U) = n /\ \A x \in U : m < x
    <3>1. IsFiniteSet(U) /\ Cardinality(U) = Cardinality(T) - 1
      BY <2>1, <2>3, FS_RemoveElement
    <3>2. QED
      BY <2>1, <2>3, <3>1
  <2>5. PICK u \in [1..n -> U] : Increasing(u)
    <3> HIDE DEF U
    <3> QED BY <1>2, <2>4
  <2> DEFINE s == [i \in 1..(n + 1) |-> IF i = 1 THEN m ELSE u[i - 1]]
  <2>6. \A i \in 1..(n + 1) : i # 1 => i - 1 \in 1..n
    OBVIOUS
  <2>7. \A i \in 1..(n + 1) : s[i] \in T
    BY <2>3, <2>5, <2>6
  <2>8. Increasing(s)
    <3>1. SUFFICES ASSUME NEW i \in 1..(n + 1), NEW j \in 1..(n + 1), i < j PROVE s[i] < s[j]
      BY DEF Increasing
    <3>2. j # 1 /\ j - 1 \in 1..n
      BY <3>1
    <3>3. s[j] = u[j - 1] /\ u[j - 1] \in U
      BY <2>5, <3>2
    <3>4. CASE i = 1
      BY <2>4, <3>3, <3>4
    <3>5. CASE i # 1
      <4>1. i - 1 \in 1..n /\ i - 1 < j - 1
        BY <3>1, <3>5
      <4>2. s[i] = u[i - 1]
        BY <3>5
      <4>3. u[i - 1] < u[j - 1]
        BY <2>5, <3>2, <4>1 DEF Increasing
      <4>4. QED
        BY <3>3, <4>2, <4>3
    <3>6. QED
      BY <3>4, <3>5
  <2>9. QED
    <3>1. s \in [1..(n + 1) -> T]
      BY <2>7
    <3> HIDE DEF s
    <3>2. QED
      BY <2>8, <3>1
<1>3. Nat \subseteq Listed
  <2> HIDE DEF Listed
  <2> QED BY <1>1, <1>2, NatSteps
<1>4. Cardinality(S) \in Nat
  BY FS_CardinalityType
<1>5. QED
  BY <1>3, <1>4

-----------------------------------------------------------------------------
(* What the code sorts: a set of ids, and scopes by a key that ends in the id. *)

LEMMA SortedLists ==
  ASSUME NEW S \in SUBSET Nat, IsFiniteSet(S)
  PROVE  /\ sorted(S) \in Seq(S)
         /\ \A x \in S : \E i \in 1..Len(sorted(S)) : sorted(S)[i] = x
<1> DEFINE n == Cardinality(S)
           s == sorted(S)
<1>1. n \in Nat /\ IsFiniteSet(1..n) /\ Cardinality(1..n) = n
  BY FS_CardinalityType, FS_Interval
<1>2. s \in [1..n -> S] /\ Increasing(s)
  <2>1. \E t \in [1..n -> S] : Increasing(t)
    BY Enumerated
  <2>2. s = CHOOSE t \in [1..n -> S] : Increasing(t)
    BY Zenon DEF sorted, Increasing
  <2> HIDE DEF s
  <2> QED
    BY <2>1, <2>2
<1> HIDE DEF n, s
<1>3. s \in Injection(1..n, S)
  <2>1. \A i, j \in 1..n : i < j => s[i] < s[j]
    BY <1>2 DEF Increasing
  <2>2. \A i \in 1..n : s[i] \in Nat
    BY <1>2
  <2>3. \A i, j \in 1..n : s[i] = s[j] => i = j
    BY <1>1, <2>1, <2>2
  <2> QED
    BY <1>2, <2>3 DEF Injection, IsInjective
<1>4. s \in Surjection(1..n, S)
  BY <1>1, <1>3, FS_Injection DEF n
<1>5. s \in Seq(S) /\ Len(s) = n
  BY <1>1, <1>2
<1> QED
  BY <1>4, <1>5 DEF Surjection, s

LEMMA LeastValue ==
  ASSUME NEW S, IsFiniteSet(S), S # {}, NEW f, \A x \in S : f[x] \in Int
  PROVE  \E x \in S : \A y \in S : f[x] <= f[y]
<1> DEFINE Fine == {n \in Nat : \A T \in SUBSET S : Cardinality(T) = n + 1 =>
                      \E x \in T : \A y \in T : f[x] <= f[y]}
<1>1. \A T \in SUBSET S : IsFiniteSet(T) /\ Cardinality(T) \in Nat
  BY FS_Subset, FS_CardinalityType
<1>2. 0 \in Fine
  <2>1. SUFFICES ASSUME NEW T \in SUBSET S, Cardinality(T) = 1
                 PROVE  \E x \in T : \A y \in T : f[x] <= f[y]
    OBVIOUS
  <2>2. PICK x : T = {x}
    BY <1>1, <2>1, FS_Singleton
  <2> QED
    BY <2>2
<1>3. ASSUME NEW n \in Nat, n \in Fine PROVE n + 1 \in Fine
  <2>1. SUFFICES ASSUME NEW T \in SUBSET S, Cardinality(T) = (n + 1) + 1
                 PROVE  \E x \in T : \A y \in T : f[x] <= f[y]
    OBVIOUS
  <2>2. PICK c : c \in T
    <3>1. T # {}
      <4>1. SUFFICES ASSUME T = {} PROVE FALSE
        OBVIOUS
      <4> QED
        BY <2>1, <4>1, FS_EmptySet
    <3> QED
      BY <3>1
  <2>3. Cardinality(T \ {c}) = n + 1 /\ T \ {c} \in SUBSET S
    BY <1>1, <2>1, <2>2, FS_RemoveElement
  <2>4. PICK x \in T \ {c} : \A y \in T \ {c} : f[x] <= f[y]
    BY <1>3, <2>3
  <2>5. f[x] \in Int /\ f[c] \in Int /\ \A y \in T : f[y] \in Int
    BY <2>1, <2>2
  <2>6. CASE f[x] <= f[c]
    <3>1. \A y \in T : f[x] <= f[y]
      BY <2>4, <2>6
    <3> QED
      BY <2>4, <3>1
  <2>7. CASE ~(f[x] <= f[c])
    <3>1. \A y \in T \ {c} : f[c] <= f[y]
      BY <2>4, <2>5, <2>7
    <3>2. \A y \in T : f[c] <= f[y]
      BY <2>5, <3>1
    <3> QED
      BY <2>2, <3>2
  <2> QED
    BY <2>6, <2>7
<1>4. Nat \subseteq Fine
  <2> HIDE DEF Fine
  <2> QED BY <1>2, <1>3, NatSteps
<1>5. Cardinality(S) \in Nat /\ Cardinality(S) # 0
  BY FS_CardinalityType, FS_EmptySet
<1>6. Cardinality(S) - 1 \in Fine /\ Cardinality(S) = (Cardinality(S) - 1) + 1
  BY <1>4, <1>5
<1> QED
  BY <1>6

(* A set of numbers and keys over it: one key comes first. *)
LEMMA FirstOfFive ==
  ASSUME NEW S \in SUBSET Nat, IsFiniteSet(S), S # {},
         NEW f, NEW g, NEW h, NEW k,
         \A x \in S : f[x] \in Int /\ g[x] \in Int /\ h[x] \in Int /\ k[x] \in Int
  PROVE  \E s \in S : \A t \in S \ {s} :
           Earlier(<<f[s], g[s], h[s], k[s], s>>, <<f[t], g[t], h[t], k[t], t>>)
<1>1. PICK a \in S : \A y \in S : f[a] <= f[y]
  BY LeastValue
<1> DEFINE A == {x \in S : f[x] = f[a]}
<1>2. IsFiniteSet(A) /\ A # {} /\ A \in SUBSET S
  BY <1>1, FS_Subset
<1> HIDE DEF A
<1>3. PICK b \in A : \A y \in A : g[b] <= g[y]
  BY <1>2, LeastValue
<1> DEFINE B == {x \in A : g[x] = g[b]}
<1>4. IsFiniteSet(B) /\ B # {} /\ B \in SUBSET S
  BY <1>2, <1>3, FS_Subset
<1> HIDE DEF B
<1>5. PICK c \in B : \A y \in B : h[c] <= h[y]
  BY <1>4, LeastValue
<1> DEFINE C == {x \in B : h[x] = h[c]}
<1>6. IsFiniteSet(C) /\ C # {} /\ C \in SUBSET S
  BY <1>4, <1>5, FS_Subset
<1> HIDE DEF C
<1>7. PICK d \in C : \A y \in C : k[d] <= k[y]
  BY <1>6, LeastValue
<1> DEFINE D == {x \in C : k[x] = k[d]}
<1>8. D # {} /\ D \in SUBSET Nat
  BY <1>6, <1>7
<1> HIDE DEF D
<1>9. PICK s \in D : \A y \in D : s <= y
  BY <1>8, LeastElement
<1>10. /\ s \in D /\ s \in C /\ s \in B /\ s \in A /\ s \in S
       /\ f[s] = f[a] /\ g[s] = g[b] /\ h[s] = h[c] /\ k[s] = k[d]
  BY <1>9 DEF A, B, C, D
<1>11. ASSUME NEW t \in S, t # s
       PROVE  Earlier(<<f[s], g[s], h[s], k[s], s>>, <<f[t], g[t], h[t], k[t], t>>)
  <2> DEFINE p == <<f[s], g[s], h[s], k[s], s>>
             q == <<f[t], g[t], h[t], k[t], t>>
  <2>1. /\ f[t] \in Int /\ g[t] \in Int /\ h[t] \in Int /\ k[t] \in Int /\ t \in Nat
        /\ f[s] \in Int /\ g[s] \in Int /\ h[s] \in Int /\ k[s] \in Int /\ s \in Nat
    BY <1>10, <1>11
  <2>2. /\ DOMAIN p = 1..5
        /\ p[1] = f[s] /\ p[2] = g[s] /\ p[3] = h[s] /\ p[4] = k[s] /\ p[5] = s
        /\ q[1] = f[t] /\ q[2] = g[t] /\ q[3] = h[t] /\ q[4] = k[t] /\ q[5] = t
    OBVIOUS
  <2> HIDE DEF p, q
  <2>3. ASSUME NEW i \in 1..5, p[i] < q[i], \A j \in 1..(i - 1) : p[j] = q[j]
        PROVE  Earlier(p, q)
    BY <2>2, <2>3 DEF Earlier
  <2>4. \/ f[s] < f[t]
        \/ f[s] = f[t] /\ g[s] < g[t]
        \/ f[s] = f[t] /\ g[s] = g[t] /\ h[s] < h[t]
        \/ f[s] = f[t] /\ g[s] = g[t] /\ h[s] = h[t] /\ k[s] < k[t]
        \/ f[s] = f[t] /\ g[s] = g[t] /\ h[s] = h[t] /\ k[s] = k[t] /\ s < t
    <3>1. f[s] < f[t] \/ t \in A
      BY <1>1, <1>10, <2>1 DEF A
    <3>2. t \in A => g[s] < g[t] \/ t \in B
      BY <1>3, <1>10, <2>1 DEF B
    <3>3. t \in B => h[s] < h[t] \/ t \in C
      BY <1>5, <1>10, <2>1 DEF C
    <3>4. t \in C => k[s] < k[t] \/ t \in D
      BY <1>7, <1>10, <2>1 DEF D
    <3>5. t \in D => s < t
      BY <1>9, <1>11, <2>1
    <3>6. /\ t \in A => f[s] = f[t]
          /\ t \in B => t \in A /\ g[s] = g[t]
          /\ t \in C => t \in B /\ h[s] = h[t]
          /\ t \in D => t \in C /\ k[s] = k[t]
      BY <1>10 DEF A, B, C, D
    <3> QED
      BY <3>1, <3>2, <3>3, <3>4, <3>5, <3>6
  <2>5. ASSUME f[s] < f[t] PROVE Earlier(p, q)
    <3>1. p[1] < q[1] /\ \A j \in 1..(1 - 1) : p[j] = q[j]
      BY <2>2, <2>5
    <3> QED
      BY <2>3, <3>1
  <2>6. ASSUME f[s] = f[t] /\ g[s] < g[t] PROVE Earlier(p, q)
    <3>1. p[2] < q[2] /\ \A j \in 1..(2 - 1) : p[j] = q[j]
      BY <2>2, <2>6
    <3> QED
      BY <2>3, <3>1
  <2>7. ASSUME f[s] = f[t] /\ g[s] = g[t] /\ h[s] < h[t] PROVE Earlier(p, q)
    <3>1. p[3] < q[3] /\ \A j \in 1..(3 - 1) : p[j] = q[j]
      BY <2>2, <2>7
    <3> QED
      BY <2>3, <3>1
  <2>8. ASSUME f[s] = f[t] /\ g[s] = g[t] /\ h[s] = h[t] /\ k[s] < k[t] PROVE Earlier(p, q)
    <3>1. p[4] < q[4] /\ \A j \in 1..(4 - 1) : p[j] = q[j]
      BY <2>2, <2>8
    <3> QED
      BY <2>3, <3>1
  <2>9. ASSUME f[s] = f[t] /\ g[s] = g[t] /\ h[s] = h[t] /\ k[s] = k[t] /\ s < t PROVE Earlier(p, q)
    <3>1. p[5] < q[5] /\ \A j \in 1..(5 - 1) : p[j] = q[j]
      BY <2>2, <2>9
    <3> QED
      BY <2>3, <3>1
  <2>10. Earlier(p, q)
    BY <2>4, <2>5, <2>6, <2>7, <2>8, <2>9
  <2> QED
    BY <2>10 DEF p, q
<1> QED
  BY <1>10, <1>11

LEMMA FirstOfFour ==
  ASSUME NEW S \in SUBSET Nat, IsFiniteSet(S), S # {}, NEW g, NEW h, NEW k,
         \A x \in S : g[x] \in Int /\ h[x] \in Int /\ k[x] \in Int
  PROVE  \E s \in S : \A t \in S \ {s} :
           Earlier(<<g[s], h[s], k[s], s>>, <<g[t], h[t], k[t], t>>)
<1> DEFINE f == [x \in S |-> 0]
<1>1. \A x \in S : f[x] \in Int /\ g[x] \in Int /\ h[x] \in Int /\ k[x] \in Int
  OBVIOUS
<1>2. \E s \in S : \A t \in S \ {s} :
        Earlier(<<f[s], g[s], h[s], k[s], s>>, <<f[t], g[t], h[t], k[t], t>>)
  <2> HIDE DEF f
  <2> QED BY <1>1, FirstOfFive
<1>3. ASSUME NEW s \in S, NEW t \in S,
             Earlier(<<f[s], g[s], h[s], k[s], s>>, <<f[t], g[t], h[t], k[t], t>>)
      PROVE  Earlier(<<g[s], h[s], k[s], s>>, <<g[t], h[t], k[t], t>>)
  <2> DEFINE p == <<f[s], g[s], h[s], k[s], s>>
             q == <<f[t], g[t], h[t], k[t], t>>
             u == <<g[s], h[s], k[s], s>>
             v == <<g[t], h[t], k[t], t>>
  <2>1. PICK i \in 1..5 : p[i] < q[i] /\ \A j \in 1..(i - 1) : p[j] = q[j]
    BY <1>3 DEF Earlier
  <2>2. /\ p[1] = 0 /\ q[1] = 0 /\ DOMAIN u = 1..4
        /\ u[1] = p[2] /\ u[2] = p[3] /\ u[3] = p[4] /\ u[4] = p[5]
        /\ v[1] = q[2] /\ v[2] = q[3] /\ v[3] = q[4] /\ v[4] = q[5]
    OBVIOUS
  <2> HIDE DEF f, p, q, u, v
  <2>3. \A j \in 1..4 : u[j] = p[j + 1] /\ v[j] = q[j + 1]
    BY <2>2
  <2>4. i # 1
    BY <2>1, <2>2
  <2>5. i - 1 \in 1..4 /\ (i - 1) + 1 = i
    BY <2>4
  <2>6. u[i - 1] < v[i - 1]
    BY <2>1, <2>3, <2>5
  <2>7. \A j \in 1..((i - 1) - 1) : j \in 1..4 /\ j + 1 \in 1..(i - 1)
    OBVIOUS
  <2>8. \A j \in 1..((i - 1) - 1) : u[j] = v[j]
    BY <2>1, <2>3, <2>7
  <2>9. Earlier(u, v)
    BY <2>2, <2>5, <2>6, <2>8 DEF Earlier
  <2> QED
    BY <2>9 DEF u, v
<1> QED
  BY <1>2, <1>3
-----------------------------------------------------------------------------
(* The inductive invariant of the selection. *)

SelectedGraphs ==
  [edges : SUBSET [u : Regions, v : Regions, hard : BOOLEAN, proof : BOOLEAN],
   targets : [Regions -> SUBSET Violations], frontier : SUBSET Violations,
   region_ids : [Scopes -> SUBSET Regions], whole : SUBSET Scopes, barren : SUBSET Regions,
   boundary : SUBSET [u : Nat, v : Nat, hard : BOOLEAN], solver : [Scopes -> Nat],
   priority : [Scopes -> Int], engineering : Engineering, windows : Nat]

SelectionTyped ==
  /\ graph \in SelectedGraphs /\ IsFiniteSet(graph.edges)
  /\ step \in {"restrict", "seed", "none", "close", "grow", "build", "window"}
  /\ views \in [Scopes -> SUBSET Regions] /\ expanded \in SUBSET Regions
  /\ selected \in SUBSET Scopes /\ queue \in Seq(Scopes)

\* The restriction ends with a set that expands no more.
Restricted ==
  step = "seed" /\ graph.engineering # {} =>
    /\ expand(expanded) = expanded
    /\ views = [s \in Scopes |-> graph.region_ids[s] \cap expanded]

NextTo(s) == hard(s) \cup soft(s)
\* Only all of the selection holds the seed and what its members are near to.
Tied ==
  \A F \in SUBSET selected :
    seed \in F /\ (\A s \in F : NextTo(s) \cap selected \subseteq F) => F = selected
Seeded ==
  step \in {"close", "grow", "build", "window"} =>
    seed \in selected /\ claims(seed) # {} /\ Tied

\* A scope whose hard dependents are not all selected waits in the queue.
Closing ==
  step = "close" =>
    /\ \A i \in DOMAIN queue : queue[i] \in selected
    /\ \A s \in selected : hard(s) \subseteq selected \/ \E i \in DOMAIN queue : queue[i] = s
\* The soft growth adds scopes to a closed set, whose own dependents may stay out.
HardKept ==
  step \in {"grow", "build", "window"} =>
    \E C \in SUBSET selected : seed \in C /\ \A s \in C : hard(s) \subseteq C

SelectionInv ==
  /\ SelectionTyped /\ Restricted /\ Seeded /\ Closing /\ HardKept
  /\ HelpersAreBound /\ FrontierIsPending

-----------------------------------------------------------------------------
(* Types. *)

LEMMA GraphFields ==
  ASSUME SelectionTyped
  PROVE  /\ graph.region_ids \in [Scopes -> SUBSET Regions]
         /\ graph.targets \in [Regions -> SUBSET Violations]
         /\ graph.priority \in [Scopes -> Int]
         /\ \A e \in graph.edges : e.u \in Regions /\ e.v \in Regions
BY DEF SelectionTyped, SelectedGraphs

LEMMA DependentsAreScopes ==
  ASSUME NEW view, NEW s, NEW b
  PROVE  dependents(view, s, b) \in SUBSET Scopes
BY DEF dependents

LEMMA ExpandTypes ==
  ASSUME SelectionTyped, NEW R \in SUBSET Regions
  PROVE  /\ R \subseteq Crossed(R) /\ Crossed(R) \subseteq Whole(Crossed(R))
         /\ Whole(Crossed(R)) \subseteq expand(R) /\ expand(R) \in SUBSET Regions
<1>1. Crossed(R) \in SUBSET Regions /\ R \subseteq Crossed(R)
  BY GraphFields DEF Crossed
<1>2. \A T \in SUBSET Regions : Whole(T) \in SUBSET Regions /\ T \subseteq Whole(T)
  BY GraphFields DEF Whole
<1>3. \A T \in SUBSET Regions : Beside(T) \in SUBSET Regions /\ T \subseteq Beside(T)
  <2>1. \A s \in Scopes : dependents(graph.region_ids, s, TRUE) \in SUBSET Scopes
    BY DependentsAreScopes
  <2>2. \A s \in Scopes : \A t \in dependents(graph.region_ids, s, TRUE) :
          graph.region_ids[t] \in SUBSET Regions
    BY <2>1, GraphFields
  <2>3. ASSUME NEW T \in SUBSET Regions, NEW r \in Beside(T) PROVE r \in Regions
    <3>1. CASE r \in T
      BY <3>1
    <3>2. CASE r \notin T
      <4>1. PICK s \in Scopes : r \in UNION {graph.region_ids[t] :
                                           t \in dependents(graph.region_ids, s, TRUE)}
        BY <2>3, <3>2, Zenon DEF Beside
      <4> QED
        BY <2>2, <4>1
    <3> QED
      BY <3>1, <3>2
  <2>4. \A T : T \subseteq Beside(T)
    BY Zenon DEF Beside
  <2> QED
    BY <2>3, <2>4
<1> QED
  BY <1>1, <1>2, <1>3 DEF expand

LEMMA ScopeSizes ==
  ASSUME SelectionTyped, NEW s \in Scopes
  PROVE  /\ -graph.priority[s] \in Int /\ -hard_degree(s) \in Int
         /\ -Cardinality(claims(s)) \in Int /\ Cardinality(views[s]) \in Int
<1>1. views[s] \in SUBSET Regions /\ hard(s) \in SUBSET Scopes
  BY DependentsAreScopes DEF SelectionTyped, hard
<1>2. claims(s) \in SUBSET Violations
  BY <1>1, GraphFields DEF claims
<1>3. IsFiniteSet(claims(s)) /\ IsFiniteSet(views[s]) /\ IsFiniteSet(hard(s))
  BY <1>1, <1>2, SelectionAssumption, FS_Subset
<1> DEFINE E == {e \in graph.edges : e.hard /\ {e.u, e.v} \cap views[s] # {}}
<1>4. IsFiniteSet(E)
  BY FS_Subset DEF SelectionTyped
<1>5. Cardinality(hard(s)) \in Nat /\ Cardinality(E) \in Nat
  BY <1>3, <1>4, FS_CardinalityType
<1> HIDE DEF E
<1>6. Cardinality(hard(s)) + Cardinality(E) \in Nat
  BY <1>5
<1>7. hard_degree(s) \in Nat
  BY <1>6 DEF hard_degree, E
<1>8. Cardinality(claims(s)) \in Nat /\ Cardinality(views[s]) \in Nat
  BY <1>3, FS_CardinalityType
<1>9. graph.priority[s] \in Int
  BY GraphFields
<1> QED
  BY <1>7, <1>8, <1>9

LEMMA SeedIsEligible ==
  ASSUME SelectionTyped, eligible # {}
  PROVE  FirstBy(eligible, seed_key) \in eligible
<1> DEFINE S == eligible
           f == [x \in S |-> -graph.priority[x]]
           g == [x \in S |-> -hard_degree(x)]
           h == [x \in S |-> -Cardinality(claims(x))]
           k == [x \in S |-> Cardinality(views[x])]
<1>1. S \in SUBSET Scopes /\ S \in SUBSET Nat /\ IsFiniteSet(S) /\ S # {}
  BY SelectionAssumption, FS_Subset DEF eligible
<1>2. \A x \in S : f[x] \in Int /\ g[x] \in Int /\ h[x] \in Int /\ k[x] \in Int
  BY <1>1, ScopeSizes
<1>3. \A x \in S : seed_key(x) = <<f[x], g[x], h[x], k[x], x>>
  BY DEF seed_key
<1> HIDE DEF S, f, g, h, k
<1>4. \E s \in S : \A t \in S \ {s} :
        Earlier(<<f[s], g[s], h[s], k[s], s>>, <<f[t], g[t], h[t], k[t], t>>)
  BY <1>1, <1>2, FirstOfFive
<1>5. \E s \in S : \A t \in S \ {s} : Earlier(seed_key(s), seed_key(t))
  BY <1>3, <1>4
<1>6. FirstBy(S, seed_key) = CHOOSE s \in S : \A t \in S \ {s} : Earlier(seed_key(s), seed_key(t))
  BY Zenon DEF FirstBy
<1>7. FirstBy(S, seed_key) \in S
  BY <1>5, <1>6
<1> QED
  BY <1>7 DEF S

LEMMA GrowthIsCandidate ==
  ASSUME SelectionTyped, NEW S \in SUBSET Scopes, S # {}
  PROVE  FirstBy(S, growth_key) \in S
<1> DEFINE g == [x \in S |-> -graph.priority[x]]
           h == [x \in S |-> -Cardinality(claims(x))]
           k == [x \in S |-> Cardinality(views[x])]
<1>1. S \in SUBSET Nat /\ IsFiniteSet(S)
  BY SelectionAssumption, FS_Subset
<1>2. \A x \in S : g[x] \in Int /\ h[x] \in Int /\ k[x] \in Int
  BY ScopeSizes
<1>3. \A x \in S : growth_key(x) = <<g[x], h[x], k[x], x>>
  BY DEF growth_key
<1> HIDE DEF g, h, k
<1>4. \E s \in S : \A t \in S \ {s} :
        Earlier(<<g[s], h[s], k[s], s>>, <<g[t], h[t], k[t], t>>)
  BY <1>1, <1>2, FirstOfFour
<1>5. \E s \in S : \A t \in S \ {s} : Earlier(growth_key(s), growth_key(t))
  BY <1>3, <1>4
<1>6. FirstBy(S, growth_key) = CHOOSE s \in S : \A t \in S \ {s} : Earlier(growth_key(s), growth_key(t))
  BY Zenon DEF FirstBy
<1> QED
  BY <1>5, <1>6
-----------------------------------------------------------------------------
(* Steps of the selection. *)

LEMMA SameNeighbours ==
  ASSUME UNCHANGED <<graph, views>>
  PROVE  \A s : hard(s)' = hard(s) /\ soft(s)' = soft(s) /\ NextTo(s)' = NextTo(s)
<1>1. \A s : hard(s)' = hard(s)
  BY DEF hard, dependents, scope_owner, scope_ids
<1>2. \A s : soft(s)' = soft(s)
  BY DEF soft, dependents, scope_owner, scope_ids
<1> QED
  BY <1>1, <1>2 DEF NextTo

LEMMA SameClaims ==
  ASSUME UNCHANGED <<graph, views, processed>>
  PROVE  /\ \A s : claims(s)' = claims(s)
         /\ pending' = pending
BY DEF claims, pending

\* Until the window is built nothing is said about it.
LEMMA NoWindowYet ==
  ASSUME step' # "window"
  PROVE  HelpersAreBound' /\ FrontierIsPending'
BY DEF HelpersAreBound, FrontierIsPending

LEMMA RestrictionSteps ==
  ASSUME SelectionInv, engineering_scope_views
  PROVE  SelectionInv'
<1>1. step' \in {"restrict", "seed"} /\ UNCHANGED <<graph, processed, seed, selected, queue, window>>
  BY DEF engineering_scope_views, SelectionInv, SelectionTyped
<1>2. expanded' \in SUBSET Regions /\ views' \in [Scopes -> SUBSET Regions]
  <2>1. expand(expanded) \in SUBSET Regions
    BY ExpandTypes DEF SelectionInv, SelectionTyped
  <2>2. graph.region_ids \in [Scopes -> SUBSET Regions]
    BY GraphFields DEF SelectionInv
  <2> QED
    BY <2>1, <2>2 DEF engineering_scope_views, SelectionInv, SelectionTyped
<1>3. SelectionTyped'
  BY <1>1, <1>2 DEF SelectionInv, SelectionTyped
<1>4. Restricted'
  <2>1. SUFFICES ASSUME step' = "seed", graph'.engineering # {}
                 PROVE  /\ expand(expanded)' = expanded'
                        /\ views' = [s \in Scopes |-> graph'.region_ids[s] \cap expanded']
    BY DEF Restricted
  <2>2. /\ expand(expanded) = expanded /\ UNCHANGED expanded
        /\ views' = [s \in Scopes |-> graph.region_ids[s] \cap expanded]
    BY <1>1, <2>1 DEF engineering_scope_views
  <2>3. expand(expanded)' = expand(expanded)
    BY <1>1, <2>2 DEF expand, Beside, Whole, Crossed, dependents, scope_owner, scope_ids
  <2> QED
    BY <1>1, <2>2, <2>3
<1> QED
  BY <1>1, <1>3, <1>4, NoWindowYet DEF SelectionInv, Seeded, Closing, HardKept

LEMMA SeedStep ==
  ASSUME SelectionInv, pick_seed
  PROVE  SelectionInv'
<1>1. UNCHANGED <<graph, views, expanded, processed, window>>
  BY DEF pick_seed
<1>2. CASE step' = "none" /\ UNCHANGED <<seed, selected, queue>>
  BY <1>1, <1>2, NoWindowYet
     DEF SelectionInv, SelectionTyped, Restricted, Seeded, Closing, HardKept
<1>3. CASE ~(pending = {} \/ eligible = {})
  <2>1. /\ seed' \in eligible /\ selected' = {seed'} /\ queue' = <<seed'>> /\ step' = "close"
    BY <1>3, SeedIsEligible DEF pick_seed, SelectionInv
  <2>2. seed' \in Scopes /\ claims(seed') # {}
    BY <2>1 DEF eligible
  <2>3. SelectionTyped'
    BY <1>1, <2>1, <2>2 DEF SelectionInv, SelectionTyped
  <2>4. Seeded'
    <3>1. Tied'
      BY <2>1 DEF Tied
    <3>2. claims(seed)' = claims(seed')
      BY <1>1 DEF claims, pending
    <3> QED
      BY <2>1, <2>2, <3>1, <3>2 DEF Seeded
  <2>5. Closing'
    BY <2>1 DEF Closing
  <2> QED
    BY <2>1, <2>3, <2>4, <2>5, NoWindowYet DEF SelectionInv, Restricted, HardKept
<1> QED
  BY <1>2, <1>3 DEF pick_seed

\* What is near to a member of the selection may join it.
LEMMA TiedGrows ==
  ASSUME Tied, seed \in selected, UNCHANGED <<graph, views, seed>>,
         selected \subseteq selected',
         \A t \in selected' \ selected : \E s \in selected : t \in NextTo(s)
  PROVE  Tied'
<1>1. SUFFICES ASSUME NEW F \in SUBSET selected', seed \in F,
                      \A s \in F : NextTo(s) \cap selected' \subseteq F
               PROVE  F = selected'
  <2>1. \A s : NextTo(s)' = NextTo(s)
    BY SameNeighbours
  <2> QED
    BY <2>1 DEF Tied
<1>2. F \cap selected \in SUBSET selected /\ seed \in F \cap selected
  BY <1>1
<1>3. \A s \in F \cap selected : NextTo(s) \cap selected \subseteq F \cap selected
  BY <1>1
<1>4. F \cap selected = selected
  BY <1>2, <1>3 DEF Tied
<1> QED
  BY <1>1, <1>4

LEMMA ClosingTurn ==
  ASSUME SelectionInv, close_hard
  PROVE  SelectionInv'
<1>0. /\ step = "close" /\ UNCHANGED <<graph, views, expanded, processed, seed, window>>
      /\ seed \in selected /\ claims(seed) # {} /\ Tied
      /\ \A s : hard(s)' = hard(s)
  BY SameNeighbours DEF close_hard, SelectionInv, Seeded
<1>1. claims(seed)' = claims(seed)
  BY <1>0, SameClaims
<1>2. CASE queue = <<>>
  <2>1. step' = "grow" /\ UNCHANGED <<selected, queue>>
    BY <1>2 DEF close_hard
  <2>2. \A s \in selected : hard(s) \subseteq selected
    BY <1>0, <1>2 DEF SelectionInv, Closing
  <2>3. HardKept'
    BY <1>0, <2>1, <2>2 DEF HardKept
  <2>4. Tied'
    BY <1>0, <2>1, TiedGrows
  <2>5. SelectionTyped'
    BY <1>0, <2>1 DEF SelectionInv, SelectionTyped
  <2> QED
    BY <1>0, <1>1, <2>1, <2>3, <2>4, <2>5, NoWindowYet DEF SelectionInv, Restricted, Seeded, Closing
<1>3. CASE queue # <<>>
  <2> DEFINE head == Head(queue)
             new == hard(head) \ selected
  <2>1. /\ selected' = selected \cup new /\ queue' = Tail(queue) \o sorted(new) /\ step' = step
    BY <1>3 DEF close_hard
  <2>2. /\ head \in Scopes /\ head = queue[1] /\ Tail(queue) \in Seq(Scopes)
        /\ Len(Tail(queue)) = Len(queue) - 1 /\ Len(queue) \in Nat /\ DOMAIN queue = 1..Len(queue)
        /\ \A i \in 1..Len(Tail(queue)) : Tail(queue)[i] = queue[i + 1]
    BY <1>3, HeadTailProperties DEF SelectionInv, SelectionTyped
  <2>3. new \in SUBSET Scopes /\ new \in SUBSET Nat /\ IsFiniteSet(new)
    BY DependentsAreScopes, SelectionAssumption, FS_Subset DEF hard
  <2> HIDE DEF head, new
  <2>4. /\ sorted(new) \in Seq(Scopes) /\ Len(sorted(new)) \in Nat
        /\ \A i \in 1..Len(sorted(new)) : sorted(new)[i] \in new
        /\ \A x \in new : \E i \in 1..Len(sorted(new)) : sorted(new)[i] = x
    <3>1. /\ sorted(new) \in Seq(new)
          /\ \A x \in new : \E i \in 1..Len(sorted(new)) : sorted(new)[i] = x
      BY <2>3, SortedLists
    <3> HIDE DEF sorted
    <3>2. \A i \in 1..Len(sorted(new)) : sorted(new)[i] \in new
      BY <3>1
    <3>3. sorted(new) \in Seq(Scopes)
      <4>1. PICK n \in Nat : sorted(new) \in [1..n -> new]
        BY <3>1, SeqDef
      <4>2. sorted(new) \in [1..n -> Scopes]
        BY <2>3, <4>1
      <4> QED
        BY <4>2, SeqDef
    <3> QED
      BY <3>1, <3>2, <3>3
  <2> DEFINE a == Len(Tail(queue))
             b == Len(sorted(new))
  <2>5. /\ queue' \in Seq(Scopes) /\ DOMAIN queue' = 1..(a + b) /\ a \in Nat /\ b \in Nat
        /\ \A i \in 1..(a + b) : queue'[i] = IF i <= a THEN Tail(queue)[i] ELSE sorted(new)[i - a]
    BY <2>1, <2>2, <2>4, ConcatProperties
  <2>6. \A i \in 1..a : queue'[i] = queue[i + 1] /\ i \in DOMAIN queue'
    BY <2>2, <2>5
  <2>7. \A i \in 1..b : queue'[a + i] = sorted(new)[i] /\ a + i \in DOMAIN queue'
    <3> HIDE DEF a, b
    <3>1. TAKE i \in 1..b
    <3>2. a + i \in 1..(a + b) /\ ~(a + i <= a) /\ (a + i) - a = i
      BY <2>5, <3>1
    <3>3. queue'[a + i] = sorted(new)[(a + i) - a]
      BY <2>5, <3>2, Zenon
    <3> QED
      BY <2>5, <3>2, <3>3, Zenon
  <2>8. \A i \in DOMAIN queue : queue[i] \in selected
    BY <1>0 DEF SelectionInv, Closing
  <2>9. head \in selected
    BY <1>3, <2>2, <2>8
  <2>10. \A i \in DOMAIN queue' : queue'[i] \in selected'
    <3>1. TAKE i \in DOMAIN queue'
    <3>2. CASE i <= a
      <4>1. i \in 1..a /\ i + 1 \in DOMAIN queue
        BY <2>2, <2>5, <3>1, <3>2
      <4> QED
        BY <2>1, <2>6, <2>8, <4>1
    <3>3. CASE ~(i <= a)
      <4>1. i - a \in 1..b /\ queue'[i] = sorted(new)[i - a]
        BY <2>5, <3>1, <3>3
      <4> QED
        BY <2>1, <2>4, <4>1
    <3> QED
      BY <3>2, <3>3
  <2>11. ASSUME NEW s \in selected', ~(hard(s) \subseteq selected')
         PROVE  \E i \in DOMAIN queue' : queue'[i] = s
    <3>1. CASE s \in new
      <4>1. PICK i \in 1..b : sorted(new)[i] = s
        BY <2>4, <3>1
      <4> QED
        BY <2>7, <4>1
    <3>2. CASE s \in selected
      <4>1. ~(hard(s) \subseteq selected)
        BY <2>1, <2>11
      <4>2. PICK i \in DOMAIN queue : queue[i] = s
        BY <1>0, <3>2, <4>1 DEF SelectionInv, Closing
      <4>3. s # head
        BY <2>1, <2>11 DEF new
      <4>4. i # 1 /\ i \in 1..Len(queue)
        BY <2>2, <4>2, <4>3
      <4>5. i - 1 \in 1..a /\ (i - 1) + 1 = i
        BY <2>2, <4>4
      <4> QED
        BY <2>6, <4>2, <4>5
    <3> QED
      BY <2>1, <2>11, <3>1, <3>2
  <2>12. Closing'
    BY <1>0, <2>10, <2>11 DEF Closing
  <2>13. Tied'
    <3>1. \A t \in selected' \ selected : t \in NextTo(head)
      BY <2>1 DEF new, NextTo
    <3> QED
      BY <1>0, <2>1, <2>9, <3>1, TiedGrows
  <2>14. SelectionTyped'
    BY <1>0, <2>1, <2>3, <2>5 DEF SelectionInv, SelectionTyped
  <2> QED
    BY <1>0, <1>1, <2>1, <2>12, <2>13, <2>14, NoWindowYet
       DEF SelectionInv, Restricted, Seeded, HardKept
<1> QED
  BY <1>2, <1>3

LEMMA GrowthStep ==
  ASSUME SelectionInv, grow_soft
  PROVE  SelectionInv'
<1>0. /\ step = "grow" /\ UNCHANGED <<graph, views, expanded, processed, seed, queue, window>>
      /\ seed \in selected /\ claims(seed) # {} /\ Tied
      /\ \A s : hard(s)' = hard(s)
  BY SameNeighbours DEF grow_soft, SelectionInv, Seeded
<1>1. claims(seed)' = claims(seed)
  BY <1>0, SameClaims
<1> DEFINE room == {t \in soft_candidates : fits(selected \cup {t})}
<1>2. room \in SUBSET Scopes /\ \A t \in room : \E s \in selected : t \in NextTo(s)
  <2>1. \A s : soft(s) \in SUBSET Scopes
    BY DependentsAreScopes DEF soft
  <2>2. \A t \in room : \E s \in selected : t \in soft(s)
    BY DEF soft_candidates
  <2> QED
    BY <2>1, <2>2 DEF NextTo
<1>3. /\ step' \in {"grow", "build"}
      /\ selected' = selected \/ \E t \in room : selected' = selected \cup {t}
  <2>1. CASE room = {}
    BY <2>1, <1>0 DEF grow_soft
  <2>2. CASE room # {}
    <3>1. FirstBy(room, growth_key) \in room
      <4>1. SelectionTyped
        BY DEF SelectionInv
      <4> HIDE DEF room
      <4> QED
        BY <1>2, <2>2, <4>1, GrowthIsCandidate
    <3>2. selected' = selected \cup {FirstBy(room, growth_key)} /\ step' = step
      BY <2>2 DEF grow_soft
    <3> HIDE DEF room
    <3> QED
      BY <1>0, <3>1, <3>2
  <2> QED
    BY <2>1, <2>2
<1> HIDE DEF room
<1>4. selected \subseteq selected' /\ selected' \in SUBSET Scopes
  BY <1>2, <1>3 DEF SelectionInv, SelectionTyped
<1>5. Tied'
  BY <1>0, <1>2, <1>3, TiedGrows
<1>6. HardKept'
  <2>1. PICK C \in SUBSET selected : seed \in C /\ \A s \in C : hard(s) \subseteq C
    BY <1>0 DEF SelectionInv, HardKept
  <2> QED
    BY <1>0, <1>4, <2>1 DEF HardKept
<1>7. SelectionTyped'
  BY <1>0, <1>3, <1>4 DEF SelectionInv, SelectionTyped
<1> QED
  BY <1>0, <1>1, <1>3, <1>4, <1>5, <1>6, <1>7, NoWindowYet
     DEF SelectionInv, Restricted, Seeded, Closing

-----------------------------------------------------------------------------
(* The roles of the window. *)

LEMMA AdjacencyTyped ==
  ASSUME SelectionTyped, NEW E \in SUBSET graph.edges
  PROVE  adjacency(E) \in [Regions -> SUBSET Regions]
<1>1. \A e \in E : e.u \in Regions /\ e.v \in Regions
  BY GraphFields
<1> QED
  BY <1>1 DEF adjacency

\* What classification reaches from the decision regions within the window,
\* the search from the other end finds tied to one of them.
LEMMA HelpersReachDecisions ==
  ASSUME SelectionTyped, NEW inside \in SUBSET Regions, NEW decision \in SUBSET Regions,
         NEW h \in Reach(decision, {e \in graph.edges : e.hard /\ e.proof /\ {e.u, e.v} \subseteq inside}),
         h \notin decision
  PROVE  assisted(h, decision) # {}
<1> DEFINE proven == {e \in graph.edges : e.hard /\ e.proof /\ {e.u, e.v} \subseteq inside}
           proving == {e \in graph.edges : e.hard /\ e.proof}
           J == [r \in Regions |-> IF r \in decision THEN {} ELSE adjacency(proving)[r]]
           C == {x \in Regions : x \in decision \/ assisted(x, decision) # {}}
<1>1. /\ adjacency(proven) \in [Regions -> SUBSET Regions]
      /\ adjacency(proving) \in [Regions -> SUBSET Regions]
  BY AdjacencyTyped
<1>2. J \in [Regions -> SUBSET Regions] /\ IsFiniteSet(Regions)
  BY <1>1, SelectionAssumption
<1>3. \A x : assisted(x, decision) = Spread({x}, J) \cap decision
  BY Zenon DEF assisted
<1>4. ASSUME NEW x \in Regions, NEW y \in adjacency(proven)[x]
      PROVE  y \in Regions /\ x \in adjacency(proving)[y]
  <2>1. y \in Regions
    BY <1>1, <1>4
  <2>2. PICK e \in proven : x \in {e.u, e.v} /\ y \in {e.u, e.v}
    BY <1>4 DEF adjacency
  <2>3. e \in proving
    BY <2>2
  <2> QED
    BY <2>1, <2>2, <2>3 DEF adjacency
<1> HIDE DEF J, proven, proving
<1>5. \A x \in Regions :
        /\ Spread({x}, J) \in SUBSET Regions /\ x \in Spread({x}, J)
        /\ \A z \in Spread({x}, J) : J[z] \subseteq Spread({x}, J)
        /\ \A D : x \in D /\ (\A z \in D \cap Regions : J[z] \subseteq D) => Spread({x}, J) \subseteq D
  <2>1. TAKE x \in Regions
  <2>2. {x} \in SUBSET Regions
    BY <2>1
  <2>3. /\ Spread({x}, J) \in SUBSET Regions /\ {x} \subseteq Spread({x}, J)
        /\ \A z \in Spread({x}, J) : J[z] \subseteq Spread({x}, J)
        /\ \A D : {x} \subseteq D /\ (\A z \in D \cap Regions : J[z] \subseteq D)
                     => Spread({x}, J) \subseteq D
    BY <1>2, <2>2, SpreadIsLeast
  <2> QED
    BY <2>3
<1>6. ASSUME NEW x \in C, NEW y \in adjacency(proven)[x] PROVE y \in C
  <2>1. x \in Regions /\ y \in Regions /\ x \in adjacency(proving)[y]
    BY <1>4, <1>6
  <2>2. CASE y \in decision
    BY <2>1, <2>2
  <2>3. CASE y \notin decision
    <3>1. x \in J[y]
      BY <2>1, <2>3 DEF J
    <3>2. x \in Spread({y}, J)
      BY <1>5, <2>1, <3>1
    <3>3. Spread({x}, J) \subseteq Spread({y}, J)
      <4> DEFINE D == Spread({y}, J)
      <4>1. x \in D /\ \A z \in D \cap Regions : J[z] \subseteq D
        BY <1>5, <2>1, <3>2
      <4> HIDE DEF D
      <4>2. Spread({x}, J) \subseteq D
        BY <1>5, <2>1, <4>1, Zenon
      <4> QED
        BY <4>2 DEF D
    <3>4. x \in decision \/ Spread({x}, J) \cap decision # {}
      BY <1>3, <1>6
    <3>5. Spread({y}, J) \cap decision # {}
      BY <3>2, <3>3, <3>4
    <3> QED
      BY <1>3, <2>1, <3>5
  <2> QED
    BY <2>2, <2>3
<1>7. decision \subseteq C
  OBVIOUS
<1>8. Reach(decision, proven) \subseteq C
  <2> HIDE DEF C
  <2>1. \A x \in C \cap Regions : adjacency(proven)[x] \subseteq C
    BY <1>6
  <2>2. Spread(decision, adjacency(proven)) \subseteq C
    BY <1>1, <1>2, <1>7, <2>1, SpreadIsLeast
  <2> QED
    BY <2>2 DEF Reach
<1>9. h \in Reach(decision, proven)
  BY DEF proven
<1> QED
  BY <1>8, <1>9

LEMMA BuildStep ==
  ASSUME SelectionInv, build_window
  PROVE  SelectionInv'
<1>0. /\ step = "build" /\ step' = "window"
      /\ UNCHANGED <<graph, views, expanded, processed, seed, selected, queue>>
      /\ seed \in selected /\ claims(seed) # {} /\ Tied /\ SelectionTyped
      /\ \A s : hard(s)' = hard(s)
      /\ \A s : NextTo(s)' = NextTo(s)
  BY SameNeighbours DEF build_window, SelectionInv, Seeded
<1>1. claims(seed)' = claims(seed) /\ pending' = pending
  BY <1>0, SameClaims
<1> DEFINE inside == regions_of(selected)
           frontier == UNION {claims(s) : s \in selected}
           roles == classify_window_region_roles(inside, frontier)
           bound == build_helper_assignments(roles.helper, roles.decision, frontier)
           decision == {r \in inside : graph.targets[r] \cap frontier # {}}
           proven == {e \in graph.edges : e.hard /\ e.proof /\ {e.u, e.v} \subseteq inside}
<1>2. /\ window'.frontier = frontier /\ window'.regions = inside /\ window'.decision = roles.decision
      /\ window'.helper = DOMAIN bound /\ window'.assigned = roles.helper
      /\ window'.assists = bound
  BY DEF build_window
<1>3. roles.decision = decision /\ roles.helper = Reach(decision, proven) \ decision
  BY DEF classify_window_region_roles
<1>4. inside \in SUBSET Regions
  BY <1>0 DEF regions_of, SelectionTyped
<1> HIDE DEF roles
<1>5. DOMAIN bound = {h \in roles.helper :
                       (UNION {graph.targets[r] : r \in assisted(h, roles.decision)}) \cap frontier # {}}
  BY Zenon DEF build_helper_assignments
<1>6. \A h \in DOMAIN bound :
        /\ bound[h].regions = assisted(h, roles.decision)
        /\ bound[h].targets = (UNION {graph.targets[r] : r \in assisted(h, roles.decision)}) \cap frontier
  BY DEF build_helper_assignments
<1>7. \A h : assisted(h, roles.decision) \subseteq roles.decision
  BY DEF assisted
<1>8. FrontierIsPending'
  <2>1. frontier # {}
    BY <1>0
  <2>2. frontier = (UNION {graph.targets[r] : r \in inside}) \cap pending
    BY DEF claims, regions_of
  <2> HIDE DEF frontier, inside
  <2> QED
    BY <1>0, <1>1, <1>2, <2>1, <2>2 DEF FrontierIsPending
<1> HIDE DEF bound, frontier, inside
<1>9. \A h \in roles.helper :
        /\ assisted(h, roles.decision) # {}
        /\ (UNION {graph.targets[r] : r \in assisted(h, roles.decision)}) \cap frontier # {}
  <2>1. TAKE h \in roles.helper
  <2>2. decision \in SUBSET Regions
    BY <1>4
  <2>3. assisted(h, decision) # {}
    <3>1. h \in Reach(decision, proven) /\ h \notin decision
      BY <1>3, <2>1
    <3> HIDE DEF decision
    <3> QED
      BY <1>0, <1>4, <2>2, <3>1, HelpersReachDecisions
  <2>4. PICK r \in assisted(h, roles.decision) : r \in decision
    BY <1>3, <1>7, <2>3
  <2>5. graph.targets[r] \cap frontier # {}
    BY <2>4
  <2>6. PICK v \in frontier : v \in graph.targets[r]
    BY <2>5
  <2>7. v \in UNION {graph.targets[q] : q \in assisted(h, roles.decision)}
    BY <2>4, <2>6
  <2>8. assisted(h, roles.decision) # {}
    BY <2>4
  <2>9. (UNION {graph.targets[q] : q \in assisted(h, roles.decision)}) \cap frontier # {}
    <3> DEFINE claimed == UNION {graph.targets[q] : q \in assisted(h, roles.decision)}
    <3>1. v \in claimed /\ v \in frontier
      BY <2>6, <2>7
    <3> HIDE DEF claimed
    <3>2. claimed \cap frontier # {}
      BY <3>1
    <3> QED
      BY <3>2 DEF claimed
  <2> QED
    BY <2>8, <2>9, Zenon
<1>10. HelpersAreBound'
  <2>1. DOMAIN bound = roles.helper
    BY <1>5, <1>9
  <2> QED
    BY <1>2, <1>6, <1>7, <1>9, <2>1 DEF HelpersAreBound
<1>11. SelectionTyped'
  BY <1>0 DEF SelectionTyped
<1>12. Tied' /\ HardKept'
  <2>1. Tied'
    BY <1>0 DEF Tied
  <2>2. HardKept'
    BY <1>0 DEF SelectionInv, HardKept
  <2> QED
    BY <2>1, <2>2
<1> QED
  BY <1>0, <1>1, <1>8, <1>10, <1>11, <1>12 DEF SelectionInv, Restricted, Seeded, Closing

LEMMA NextWindowStep ==
  ASSUME SelectionInv, next_window
  PROVE  SelectionInv'
<1>1. PICK attempted : restart(attempted)
  BY DEF next_window
<1>2. /\ step' = "restrict" /\ views' = graph.region_ids /\ selected' = {} /\ queue' = <<>>
      /\ expanded' = {r \in Regions : graph.targets[r] \cap graph.engineering # {}}
      /\ graph' = [graph EXCEPT !.windows = @ + 1]
  BY <1>1 DEF restart
<1>3. SelectionTyped /\ graph.region_ids \in [Scopes -> SUBSET Regions]
  BY GraphFields DEF SelectionInv
<1>4. graph' \in SelectedGraphs /\ graph'.edges = graph.edges
  <2>1. graph \in SelectedGraphs
    BY <1>3 DEF SelectionTyped
  <2>2. graph.windows + 1 \in Nat
    BY <2>1 DEF SelectedGraphs
  <2> QED
    BY <1>2, <2>1, <2>2, Zenon DEF SelectedGraphs
<1>5. SelectionTyped'
  BY <1>2, <1>3, <1>4 DEF SelectionTyped
<1> QED
  BY <1>2, <1>5, NoWindowYet DEF SelectionInv, Restricted, Seeded, Closing, HardKept

LEMMA SelectionStarts ==
  ASSUME SelectionInit
  PROVE  SelectionInv
<1>1. PICK g \in Graphs, targets \in Engineering :
    /\ graph = [edges |-> g.edges, targets |-> g.targets, frontier |-> g.frontier,
                region_ids |-> g.region_ids, whole |-> g.whole, barren |-> g.barren,
                boundary |-> g.boundary, solver |-> g.solver, priority |-> g.priority,
                engineering |-> targets, windows |-> 1]
    /\ views = g.region_ids
    /\ expanded = {r \in Regions : g.targets[r] \cap targets # {}}
    /\ step = "restrict" /\ selected = {} /\ queue = <<>>
  BY Zenon DEF SelectionInit
<1>2. g \in AgentGraphs /\ IsFiniteSet(g.edges)
  BY SelectionAssumption
<1>3. graph \in SelectedGraphs /\ IsFiniteSet(graph.edges)
  BY <1>1, <1>2 DEF AgentGraphs, SelectedGraphs
<1>4. views \in [Scopes -> SUBSET Regions]
  BY <1>1, <1>2 DEF AgentGraphs
<1>5. SelectionTyped
  BY <1>1, <1>3, <1>4 DEF SelectionTyped
<1> QED
  BY <1>1, <1>5 DEF SelectionInv, Restricted, Seeded, Closing, HardKept, HelpersAreBound, FrontierIsPending

\* A step that changes nothing of the selection keeps what is said of it.
LEMMA SelectionStutters ==
  ASSUME SelectionInv, UNCHANGED selectionVars
  PROVE  SelectionInv'
<1>1. /\ UNCHANGED <<graph, views, expanded, processed, step, seed, selected, queue, window>>
      /\ \A s : hard(s)' = hard(s)
      /\ \A s : NextTo(s)' = NextTo(s)
      /\ claims(seed)' = claims(seed) /\ pending' = pending
  BY SameNeighbours, SameClaims DEF selectionVars
<1>2. SelectionTyped'
  BY <1>1 DEF SelectionInv, SelectionTyped
<1>3. Restricted'
  <2>1. expand(expanded)' = expand(expanded)
    BY <1>1 DEF expand, Beside, Whole, Crossed, dependents, scope_owner, scope_ids
  <2> QED
    BY <1>1, <2>1 DEF SelectionInv, Restricted
<1>4. Seeded'
  <2>1. Tied' <=> Tied
    BY <1>1 DEF Tied
  <2> QED
    BY <1>1, <2>1 DEF SelectionInv, Seeded
<1>5. Closing' /\ HardKept'
  BY <1>1 DEF SelectionInv, Closing, HardKept
<1>6. HelpersAreBound' /\ FrontierIsPending'
  BY <1>1 DEF SelectionInv, HelpersAreBound, FrontierIsPending
<1> QED
  BY <1>2, <1>3, <1>4, <1>5, <1>6 DEF SelectionInv

(* Every state of select_active_subgraphs and of the iteration around it obeys
   the inductive invariant of the selection. *)
THEOREM SelectionInvariant == SelectionSpec => []SelectionInv
<1>1. SelectionInit => SelectionInv
  BY SelectionStarts
<1>2. SelectionInv /\ [SelectionNext]_selectionVars => SelectionInv'
  BY RestrictionSteps, SeedStep, ClosingTurn, GrowthStep, BuildStep, NextWindowStep,
     SelectionStutters DEF SelectionNext
<1> QED
  BY <1>1, <1>2, PTL DEF SelectionSpec

-----------------------------------------------------------------------------
(* What the window promises. *)

LEMMA ConnectedWindow ==
  ASSUME SelectionInv
  PROVE  WindowIsConnected
<1>1. SUFFICES ASSUME step = "window" PROVE WindowIsConnected
  BY DEF WindowIsConnected
<1>2. seed \in selected /\ Tied /\ selected \in SUBSET Scopes /\ IsFiniteSet(Scopes)
  BY <1>1, SelectionAssumption DEF SelectionInv, SelectionTyped, Seeded
<1>3. Linked(Scopes, hard) \subseteq selected
  <2>1. PICK C \in SUBSET selected : seed \in C /\ \A s \in C : hard(s) \subseteq C
    BY <1>1 DEF SelectionInv, HardKept
  <2> DEFINE joins == [s \in Scopes |-> hard(s) \cap Scopes]
  <2>2. joins \in [Scopes -> SUBSET Scopes] /\ {seed} \in SUBSET Scopes /\ {seed} \subseteq C
    BY <1>2, <2>1
  <2>3. \A x \in C \cap Scopes : joins[x] \subseteq C
    BY <2>1
  <2>4. Linked(Scopes, hard) = Spread({seed}, joins)
    BY Zenon DEF Linked
  <2> HIDE DEF joins
  <2>5. Spread({seed}, joins) \subseteq C
    BY <1>2, <2>2, <2>3, SpreadIsLeast
  <2> QED
    BY <2>1, <2>4, <2>5
<1> DEFINE joins == [s \in selected |-> (hard(s) \cup soft(s)) \cap selected]
           F == Spread({seed}, joins)
<1>4. joins \in [selected -> SUBSET selected] /\ {seed} \in SUBSET selected /\ IsFiniteSet(selected)
  BY <1>2, FS_Subset
<1>5. F \in SUBSET selected /\ {seed} \subseteq F /\ \A x \in F : joins[x] \subseteq F
  <2> HIDE DEF joins
  <2> QED
    BY <1>4, SpreadIsLeast
<1>6. \A x \in F : NextTo(x) \cap selected \subseteq F
  <2> HIDE DEF F
  <2> QED
    BY <1>5 DEF NextTo
<1>7. F = selected
  <2> HIDE DEF F
  <2> QED
    BY <1>2, <1>5, <1>6 DEF Tied
<1> QED
  BY <1>3, <1>7, Zenon DEF WindowIsConnected, Linked

LEMMA HardScopesKept ==
  ASSUME SelectionInv
  PROVE  RestrictionKeepsHardScopes
<1>1. SUFFICES ASSUME step = "seed", graph.engineering # {} PROVE RestrictionKeepsHardScopes
  BY DEF RestrictionKeepsHardScopes
<1>2. /\ SelectionTyped /\ expanded \in SUBSET Regions
      /\ expand(expanded) = expanded
      /\ views = [s \in Scopes |-> graph.region_ids[s] \cap expanded]
  BY <1>1 DEF SelectionInv, SelectionTyped, Restricted
<1>3. Crossed(expanded) = expanded /\ Whole(expanded) = expanded
  <2>1. /\ expanded \subseteq Crossed(expanded) /\ Crossed(expanded) \subseteq Whole(Crossed(expanded))
        /\ Whole(Crossed(expanded)) \subseteq expanded
    BY <1>2, ExpandTypes
  <2>2. Crossed(expanded) = expanded
    BY <2>1
  <2>3. Whole(Crossed(expanded)) = expanded
    BY <2>1
  <2> QED
    BY <2>2, <2>3, Zenon
<1> DEFINE kept == UNION {views[s] : s \in Scopes}
           inScope == UNION {graph.region_ids[s] : s \in Scopes}
<1>4. kept = inScope \cap expanded
  BY <1>2
<1>5. \A e \in graph.edges : e.hard /\ {e.u, e.v} \cap expanded # {} => {e.u, e.v} \subseteq expanded
  BY <1>3 DEF Crossed
<1>6. \A s \in Scopes \cap graph.whole :
        graph.region_ids[s] \cap expanded # {} => graph.region_ids[s] \subseteq expanded
  BY <1>3 DEF Whole
<1>7. \A s \in graph.whole : s \in Scopes
  BY <1>2 DEF SelectionTyped, SelectedGraphs
<1>8. \A s \in graph.whole : views[s] \in {{}, graph.region_ids[s]}
  BY <1>2, <1>6, <1>7
<1>9. \A e \in graph.edges : e.hard /\ {e.u, e.v} \cap kept # {} => {e.u, e.v} \cap inScope \subseteq kept
  <2> HIDE DEF kept, inScope
  <2> QED
    BY <1>4, <1>5
<1> QED
  BY <1>8, <1>9 DEF RestrictionKeepsHardScopes

(* select_active_window hands out a window that is closed under the hard
   dependencies of its seed and tied together, whose helpers are all bound to
   decision regions, whose frontier is what is pending in its regions, taken
   from scopes that the engineering restriction left whole: whatever the agent
   graph, the scopes, the budgets and the targets attempted before it. *)
THEOREM WindowsAreSound == SelectionSpec => []WindowIsSound
<1>1. SelectionInv => WindowIsSound
  BY ConnectedWindow, HardScopesKept DEF SelectionInv, WindowIsSound
<1> QED
  BY <1>1, SelectionInvariant, PTL

-----------------------------------------------------------------------------
(* The graph of the agents and the messages along it. *)

\* The edges of the graph join its regions.
EdgesJoinRegions ==
  stage \in {"graph", "pruned"} => \A e \in edges : e.u \in ids /\ e.v \in ids
GraphInv == EdgesJoinRegions /\ NeighboursAreTold

LEMMA GraphBuilt ==
  ASSUME build_agent_graph
  PROVE  GraphInv'
<1> DEFINE pairs == {p \in regions \X regions : p[1].id < p[2].id}
           joined(p) == geometry_edge(p[1], p[2]) \cup net_edge(p[1], p[2]) \cup resource_edge(p[1], p[2])
<1>1. edges' = UNION {joined(p) : p \in pairs} /\ stage' = "graph" /\ UNCHANGED regions
  BY DEF build_agent_graph
<1>2. ASSUME NEW p \in pairs, NEW e \in joined(p) PROVE e.u = p[1].id /\ e.v = p[2].id
  <2>1. CASE e \in geometry_edge(p[1], p[2])
    BY <2>1 DEF geometry_edge, Edge
  <2>2. CASE e \in net_edge(p[1], p[2])
    BY <2>2 DEF net_edge, Edge
  <2>3. CASE e \in resource_edge(p[1], p[2])
    BY <2>3 DEF resource_edge, Edge
  <2> QED
    BY <1>2, <2>1, <2>2, <2>3
<1>3. EdgesJoinRegions'
  <2>1. SUFFICES ASSUME NEW e \in edges' PROVE e.u \in ids' /\ e.v \in ids'
    BY DEF EdgesJoinRegions
  <2>2. PICK p \in pairs : e \in joined(p)
    BY <1>1, <2>1
  <2>3. p[1] \in regions /\ p[2] \in regions
    BY <2>2
  <2>4. ids' = ids
    BY <1>1 DEF ids
  <2> HIDE DEF joined, pairs
  <2> QED
    BY <1>2, <2>2, <2>3, <2>4 DEF ids
<1>4. SharedObjectsAreLinked'
  <2>1. SUFFICES ASSUME NEW r \in regions, NEW s \in regions, r.id < s.id, r.editable \cap s.editable # {}
                 PROVE  \E e \in edges' : /\ e.u = r.id /\ e.v = s.id
                                          /\ "shared_editable_object" \in e.kinds
    BY <1>1 DEF SharedObjectsAreLinked
  <2>2. \E e \in geometry_edge(r, s) : "shared_editable_object" \in e.kinds
    <3> DEFINE kinds == physical_kinds(access(r), access(s))
               others == soft_kinds(access(r), access(s), kinds)
               both == r.editable \cap s.editable
               shared == IF both # {} THEN {"shared_editable_object"} ELSE {}
               reach == Max({Min({Width(r.halo), Width(s.halo)}), 1})
               close == \/ Shared(r.halo, s.halo) > 0 \/ 10000 * Gap(r.halo, s.halo) <= 10498 * reach
                        \/ both # {} \/ kinds \cup others # {}
               e == Edge(r, s, "geometry", kinds # {}, kinds \cup others \cup shared)
    <3>1. geometry_edge(r, s) = IF close THEN {e} ELSE {}
      BY DEF geometry_edge
    <3>2. e.kinds = kinds \cup others \cup shared
      BY DEF Edge
    <3>3. close /\ "shared_editable_object" \in shared
      BY <2>1
    <3> HIDE DEF kinds, others, both, shared, close, e
    <3> QED
      BY <3>1, <3>2, <3>3
  <2>3. PICK e \in geometry_edge(r, s) : "shared_editable_object" \in e.kinds
    BY <2>2
  <2>4. <<r, s>> \in pairs /\ e \in joined(<<r, s>>)
    BY <2>1, <2>3
  <2>5. e.u = r.id /\ e.v = s.id
    <3> HIDE DEF joined, pairs
    <3> QED
      BY <1>2, <2>4
  <2>6. e \in edges'
    <3> HIDE DEF joined, pairs
    <3> QED
      BY <1>1, <2>4
  <2> QED
    BY <2>3, <2>5, <2>6
<1>5. MessagesAreMutual'
  BY <1>1 DEF MessagesAreMutual
<1> QED
  BY <1>3, <1>4, <1>5 DEF GraphInv, NeighboursAreTold

LEMMA MessagesPassed ==
  ASSUME GraphInv, PassMessages
  PROVE  GraphInv'
<1>1. /\ stage = "pruned" /\ stage' = "messages" /\ UNCHANGED <<edges, regions>>
      /\ \A e \in edges : e.u \in ids /\ e.v \in ids
  BY DEF PassMessages, GraphInv, EdgesJoinRegions
<1>2. PICK rounds \in {1, 3}, silent \in SUBSET ids, conflicts \in {{}, {{Min(ids), Max(ids)}}} :
        messages' = run(rounds, [i \in ids |-> IF i \in silent THEN {} ELSE {i}], conflicts)
  <2>1. PICK rounds \in {1, 3}, silent \in {{}, {Min(ids)}}, conflicts \in {{}, {{Min(ids), Max(ids)}}} :
          messages' = run(rounds, [i \in ids |-> IF i \in silent THEN {} ELSE {i}], conflicts)
    BY Zenon DEF PassMessages
  <2> DEFINE quiet == silent \cap ids
  <2>2. quiet \in SUBSET ids /\ [i \in ids |-> IF i \in silent THEN {} ELSE {i}]
                               = [i \in ids |-> IF i \in quiet THEN {} ELSE {i}]
    OBVIOUS
  <2> HIDE DEF quiet
  <2>3. messages' = run(rounds, [i \in ids |-> IF i \in quiet THEN {} ELSE {i}], conflicts)
    BY <2>1, <2>2, Zenon
  <2> QED
    BY <2>2, <2>3, Zenon
<1> DEFINE intents == [i \in ids |-> IF i \in silent THEN {} ELSE {i}]
<1>3. \A i \in ids : intents[i] \subseteq {i}
  OBVIOUS
<1> HIDE DEF intents
<1>4. messages' = run(rounds, intents, conflicts)
  BY <1>2 DEF intents
<1>5. /\ round_one \subseteq messages'
      /\ messages' \subseteq round_one \cup round_two(intents) \cup round_three(conflicts, intents)
      /\ rounds # 3 => messages' = round_one
      /\ rounds = 3 => round_two(intents) \subseteq messages'
  BY <1>2, <1>4 DEF run
<1>6. \A m \in round_one : m.round = 1 /\ m.intents = {}
  BY DEF round_one, Message
<1>7. \A m \in round_two(intents) :
        /\ m.round = 2 /\ m.intents \subseteq {m.from}
        /\ m = [round |-> 2, from |-> m.from, to |-> m.to, relation |-> m.relation,
                kinds |-> m.kinds, intents |-> m.intents]
  <2>1. TAKE m \in round_two(intents)
  <2>2. PICK e \in edges : \E p \in Ends(e) : m = Message(2, p[1], p[2], e, intents[p[1]])
    BY <2>1 DEF round_two
  <2>3. PICK p \in Ends(e) : m = Message(2, p[1], p[2], e, intents[p[1]])
    BY <2>2
  <2>4. p[1] \in ids
    BY <1>1, <2>3 DEF Ends
  <2> QED
    BY <1>3, <2>3, <2>4 DEF Message
<1>8. \A m \in round_three(conflicts, intents) :
        m.round = 3 /\ m.intents \subseteq {m.from} /\ [m EXCEPT !.round = 2] \in round_two(intents)
  <2>1. TAKE m \in round_three(conflicts, intents)
  <2>2. PICK n \in round_two(intents) : m = [n EXCEPT !.round = 3]
    BY <2>1 DEF round_three
  <2>3. n = [round |-> 2, from |-> n.from, to |-> n.to, relation |-> n.relation,
             kinds |-> n.kinds, intents |-> n.intents] /\ n.intents \subseteq {n.from}
    BY <1>7
  <2>4. m = [round |-> 3, from |-> n.from, to |-> n.to, relation |-> n.relation,
             kinds |-> n.kinds, intents |-> n.intents]
    BY <2>2, <2>3
  <2>5. m.round = 3 /\ m.intents = n.intents /\ m.from = n.from
    BY <2>4
  <2>6. [m EXCEPT !.round = 2] = [round |-> 2, from |-> n.from, to |-> n.to, relation |-> n.relation,
                                  kinds |-> n.kinds, intents |-> n.intents]
    BY <2>4
  <2> QED
    BY <2>2, <2>3, <2>5, <2>6, Zenon
<1>9. \A e \in edges : \A p \in Ends(e) :
        \E m \in messages' : m.round = 1 /\ <<m.from, m.to>> = p /\ m.kinds = e.kinds
  <2>1. TAKE e \in edges
  <2>2. TAKE p \in Ends(e)
  <2> DEFINE m == Message(1, p[1], p[2], e, {})
  <2>3. m \in round_one
    BY <2>1, <2>2 DEF round_one
  <2>4. p = <<p[1], p[2]>>
    BY <2>2 DEF Ends
  <2>5. m.round = 1 /\ <<m.from, m.to>> = p /\ m.kinds = e.kinds
    BY <2>4 DEF Message
  <2> HIDE DEF m
  <2> QED
    BY <1>5, <2>3, <2>5
<1>10. MessagesAreMutual'
  <2>1. \A m \in messages' : m.intents \subseteq {m.from}
    BY <1>5, <1>6, <1>7, <1>8
  <2>2. \A m \in messages' : m.round = 3 => [m EXCEPT !.round = 2] \in messages'
    <3>1. TAKE m \in messages'
    <3>2. HAVE m.round = 3
    <3>3. m \in round_three(conflicts, intents)
      BY <1>5, <1>6, <1>7, <3>1, <3>2
    <3>4. rounds = 3
      BY <1>2, <1>5, <1>6, <3>1, <3>2
    <3>5. [m EXCEPT !.round = 2] \in round_two(intents)
      BY <1>8, <3>3
    <3> QED
      BY <1>5, <3>4, <3>5
  <2>3. edges' = edges /\ \A e : Ends(e)' = Ends(e)
    BY <1>1
  <2> QED
    BY <1>9, <2>1, <2>2, <2>3 DEF MessagesAreMutual
<1> QED
  BY <1>1, <1>10 DEF GraphInv, EdgesJoinRegions, NeighboursAreTold, SharedObjectsAreLinked

\* The other steps keep the edges, or are not of the stages that speak of them.
LEMMA OtherStagesAgree ==
  ASSUME GraphInv,
         \/ stage' \notin {"graph", "pruned", "messages"}
         \/ UNCHANGED <<stage, regions, edges, messages>>
         \/ stage' = "pruned" /\ stage = "graph" /\ edges' \subseteq edges /\ UNCHANGED regions
  PROVE  GraphInv'
<1>1. CASE stage' \notin {"graph", "pruned", "messages"}
  BY <1>1 DEF GraphInv, EdgesJoinRegions, NeighboursAreTold, SharedObjectsAreLinked, MessagesAreMutual
<1>2. CASE UNCHANGED <<stage, regions, edges, messages>>
  BY <1>2 DEF GraphInv, EdgesJoinRegions, NeighboursAreTold, SharedObjectsAreLinked, MessagesAreMutual, ids
<1>3. CASE stage' = "pruned" /\ stage = "graph" /\ edges' \subseteq edges /\ UNCHANGED regions
  BY <1>3 DEF GraphInv, EdgesJoinRegions, NeighboursAreTold, SharedObjectsAreLinked, MessagesAreMutual, ids
<1> QED
  BY <1>1, <1>2, <1>3

(* AgentGraphBuilder leaves no two regions that edit one object without an edge
   that says so, and MessagePasser tells both ends of every edge its facts and
   what the other end intends: for any regions, access and number of rounds. *)
THEOREM NeighboursAreInformed == ContextSpec => []NeighboursAreTold
<1>1. BuildInit => GraphInv
  BY DEF BuildInit, GraphInv, EdgesJoinRegions, NeighboursAreTold, SharedObjectsAreLinked, MessagesAreMutual
<1>2. ASSUME GraphInv, GraphNext PROVE GraphInv'
  <2>1. CASE parse_design_state \/ start_pairs \/ start_merges \/ build_regions
    <3>1. stage' \notin {"graph", "pruned", "messages"}
      BY <2>1 DEF parse_design_state, start_pairs, start_merges, build_regions
    <3> QED
      BY <1>2, <3>1, OtherStagesAgree
  <2>2. CASE unite_hard \/ unite_merge
    <3>1. UNCHANGED <<stage, regions, edges, messages>>
      BY <2>2 DEF unite_hard, unite_merge
    <3> QED
      BY <1>2, <3>1, OtherStagesAgree
  <2>3. CASE build_agent_graph
    BY <2>3, GraphBuilt
  <2>4. CASE prune_agent_graph
    <3>1. stage' = "pruned" /\ stage = "graph" /\ edges' \subseteq edges /\ UNCHANGED regions
      BY <2>4 DEF prune_agent_graph
    <3> QED
      BY <1>2, <3>1, OtherStagesAgree
  <2>5. CASE PassMessages
    BY <1>2, <2>5, MessagesPassed
  <2> QED
    BY <1>2, <2>1, <2>2, <2>3, <2>4, <2>5 DEF GraphNext
<1>3. ASSUME GraphInv, ContextNext PROVE GraphInv'
  <2>1. CASE Truncate
    <3>1. UNCHANGED <<stage, regions, edges, messages>>
      BY <2>1 DEF Truncate, graphVars
    <3> QED
      BY <1>3, <3>1, OtherStagesAgree
  <2>2. CASE BuildContext \/ RefuseContext \/ FinishContext
    <3>1. stage' \notin {"graph", "pruned", "messages"}
      BY <2>2 DEF BuildContext, RefuseContext, FinishContext
    <3> QED
      BY <1>3, <3>1, OtherStagesAgree
  <2> QED
    BY <1>3, <2>1, <2>2 DEF ContextNext
<1>4. ASSUME GraphInv, UNCHANGED contextVars PROVE GraphInv'
  <2>1. UNCHANGED <<stage, regions, edges, messages>>
    BY <1>4 DEF contextVars, graphVars
  <2> QED
    BY <1>4, <2>1, OtherStagesAgree
<1>5. GraphInv => NeighboursAreTold
  BY DEF GraphInv
<1> QED
  BY <1>1, <1>2, <1>3, <1>4, <1>5, PTL DEF ContextSpec

-----------------------------------------------------------------------------
(* Lists in an order.  A strict order on a finite set gives every member a rank,
   and the ranks are 0, 1, ... without a gap: `Ordered' lists every member once. *)

StrictOrder(S, below) ==
  /\ \A x \in S : x \notin below[x]
  /\ \A x, y \in S : x \in below[y] => below[x] \subseteq below[y]
  /\ \A x, y \in S : x = y \/ x \in below[y] \/ y \in below[x]
Listing(s, S, below) ==
  /\ s \in [1..Cardinality(S) -> S]
  /\ \A i \in 1..Cardinality(S) : Cardinality(below[s[i]]) = i - 1

LEMMA LowerRank ==
  ASSUME NEW S, IsFiniteSet(S), NEW below \in [S -> SUBSET S], StrictOrder(S, below),
         NEW x \in S, NEW y \in S, x \in below[y]
  PROVE  Cardinality(below[x]) < Cardinality(below[y])
<1>1. below[x] \subseteq below[y] /\ x \notin below[x] /\ below[y] \subseteq S
  BY DEF StrictOrder
<1>2. IsFiniteSet(below[y]) /\ below[x] # below[y]
  BY <1>1, FS_Subset
<1> QED
  BY <1>1, <1>2, FS_Subset, FS_CardinalityType

LEMMA RanksAreTaken ==
  ASSUME NEW S, IsFiniteSet(S), NEW below \in [S -> SUBSET S], StrictOrder(S, below)
  PROVE  \A i \in 1..Cardinality(S) : \E x \in S : Cardinality(below[x]) = i - 1
<1> DEFINE n == Cardinality(S)
           rank == [x \in S |-> Cardinality(below[x]) + 1]
<1>1. n \in Nat /\ IsFiniteSet(1..n) /\ Cardinality(1..n) = n
  BY FS_CardinalityType, FS_Interval
<1>2. \A x \in S : Cardinality(below[x]) \in Nat /\ Cardinality(below[x]) < n
  <2>1. TAKE x \in S
  <2>2. below[x] \subseteq S /\ below[x] # S
    BY <2>1 DEF StrictOrder
  <2> QED
    BY <2>2, FS_Subset, FS_CardinalityType
<1>3. rank \in [S -> 1..n]
  BY <1>1, <1>2
<1>4. \A x, y \in S : rank[x] = rank[y] => x = y
  <2>1. \A x, y \in S : x \in below[y] => Cardinality(below[x]) < Cardinality(below[y])
    BY LowerRank
  <2>2. \A x, y \in S : x = y \/ x \in below[y] \/ y \in below[x]
    BY DEF StrictOrder
  <2> QED
    BY <1>2, <2>1, <2>2
<1> HIDE DEF rank
<1>5. rank \in Injection(S, 1..n)
  BY <1>3, <1>4 DEF Injection, IsInjective
<1>6. rank \in Surjection(S, 1..n)
  BY <1>1, <1>5, FS_Injection DEF n
<1>7. \A i \in 1..n : \E x \in S : rank[x] = i
  BY <1>6 DEF Surjection
<1> QED
  BY <1>2, <1>7 DEF rank

LEMMA Listings ==
  ASSUME NEW S, IsFiniteSet(S), NEW below \in [S -> SUBSET S], StrictOrder(S, below),
         NEW s, Listing(s, S, below)
  PROVE  /\ s \in Seq(S) /\ Len(s) = Cardinality(S) /\ Cardinality(S) \in Nat
         /\ ToSet(s) = S
         /\ \A i, j \in DOMAIN s : s[i] = s[j] => i = j
         /\ \A i, j \in DOMAIN s : i < j => s[i] \in below[s[j]]
<1> DEFINE n == Cardinality(S)
<1>1. n \in Nat /\ DOMAIN s = 1..n /\ s \in [1..n -> S]
  BY FS_CardinalityType DEF Listing
<1>2. s \in Seq(S) /\ Len(s) = n
  BY <1>1
<1>3. \A i \in 1..n : s[i] \in S /\ Cardinality(below[s[i]]) = i - 1
  BY <1>1 DEF Listing
<1>4. \A i, j \in 1..n : s[i] = s[j] => i = j
  BY <1>3
<1>5. \A x, y \in S : Cardinality(below[x]) = Cardinality(below[y]) => x = y
  <2>1. \A x, y \in S : x \in below[y] => Cardinality(below[x]) < Cardinality(below[y])
    BY LowerRank
  <2>2. \A x \in S : Cardinality(below[x]) \in Nat
    BY FS_Subset, FS_CardinalityType
  <2> QED
    BY <2>1, <2>2 DEF StrictOrder
<1>6. S \subseteq ToSet(s)
  <2>1. SUFFICES ASSUME NEW x \in S PROVE \E i \in 1..n : s[i] = x
    BY <1>1 DEF ToSet
  <2>2. Cardinality(below[x]) \in 0..(n - 1)
    <3>1. below[x] \subseteq S /\ below[x] # S
      BY <2>1 DEF StrictOrder
    <3> QED
      BY <3>1, FS_Subset, FS_CardinalityType
  <2> DEFINE i == Cardinality(below[x]) + 1
  <2>3. i \in 1..n /\ i - 1 = Cardinality(below[x])
    BY <1>1, <2>2
  <2> HIDE DEF i
  <2>4. s[i] = x
    BY <1>3, <1>5, <2>3
  <2> QED
    BY <2>3, <2>4
<1>7. ToSet(s) = S
  BY <1>1, <1>6 DEF ToSet
<1>8. \A i, j \in 1..n : i < j => s[i] \in below[s[j]]
  <2>1. SUFFICES ASSUME NEW i \in 1..n, NEW j \in 1..n, i < j PROVE s[i] \in below[s[j]]
    OBVIOUS
  <2>2. s[i] # s[j]
    BY <1>4, <2>1
  <2>3. s[j] \notin below[s[i]]
    <3>1. s[j] \in below[s[i]] => Cardinality(below[s[j]]) < Cardinality(below[s[i]])
      BY <1>3, LowerRank
    <3> QED
      BY <1>3, <2>1, <3>1
  <2> QED
    BY <1>3, <2>2, <2>3 DEF StrictOrder
<1> QED
  BY <1>1, <1>2, <1>4, <1>7, <1>8

\* Tuples of numbers of one length, in lexicographic order.
LEMMA Lexicographic ==
  ASSUME NEW n \in Nat, NEW a \in [1..n -> Int], NEW b \in [1..n -> Int], NEW c \in [1..n -> Int]
  PROVE  /\ ~Before(a, a)
         /\ Before(a, b) /\ Before(b, c) => Before(a, c)
         /\ a = b \/ Before(a, b) \/ Before(b, a)
<1>1. ~Before(a, a)
  BY DEF Before
<1>2. ASSUME Before(a, b), Before(b, c) PROVE Before(a, c)
  <2>1. PICK i \in 1..n : a[i] < b[i] /\ \A k \in 1..(i - 1) : a[k] = b[k]
    BY <1>2 DEF Before
  <2>2. PICK j \in 1..n : b[j] < c[j] /\ \A k \in 1..(j - 1) : b[k] = c[k]
    BY <1>2 DEF Before
  <2> DEFINE m == IF i <= j THEN i ELSE j
  <2>3. m \in 1..n /\ m <= i /\ m <= j /\ (m = i \/ m = j)
    OBVIOUS
  <2>4. \A k \in 1..(m - 1) : a[k] = c[k]
    <3>1. \A k \in 1..(m - 1) : k \in 1..(i - 1) /\ k \in 1..(j - 1)
      BY <2>3
    <3> QED
      BY <2>1, <2>2, <3>1
  <2>5. a[m] < c[m]
    <3>1. CASE i < j
      <4>1. m = i /\ i \in 1..(j - 1)
        BY <3>1
      <4>2. b[i] = c[i]
        BY <2>2, <4>1
      <4> QED
        BY <2>1, <4>1, <4>2
    <3>2. CASE j < i
      <4>1. m = j /\ j \in 1..(i - 1)
        BY <3>2
      <4>2. a[j] = b[j]
        BY <2>1, <4>1
      <4> QED
        BY <2>2, <4>1, <4>2
    <3>3. CASE i = j
      <4>1. m = i
        BY <3>3
      <4>2. a[i] \in Int /\ b[i] \in Int /\ c[i] \in Int
        OBVIOUS
      <4> QED
        BY <2>1, <2>2, <3>3, <4>1, <4>2
    <3> QED
      BY <3>1, <3>2, <3>3
  <2>6. m \in DOMAIN a
    BY <2>3
  <2> HIDE DEF m
  <2> QED
    BY <2>4, <2>5, <2>6 DEF Before
<1>3. ASSUME a # b PROVE Before(a, b) \/ Before(b, a)
  <2> DEFINE Apart == {i \in 1..n : a[i] # b[i]}
  <2>1. Apart # {} /\ Apart \in SUBSET Nat
    <3>1. a = [i \in 1..n |-> a[i]] /\ b = [i \in 1..n |-> b[i]]
      OBVIOUS
    <3>2. ~(\A i \in 1..n : a[i] = b[i])
      BY <1>3, <3>1
    <3>3. PICK i \in 1..n : a[i] # b[i]
      BY <3>2
    <3>4. i \in Apart /\ \A j \in 1..n : j \in Nat
      BY <3>3
    <3> QED
      BY <3>4
  <2>2. PICK i \in Apart : \A j \in Apart : i <= j
    BY <2>1, LeastElement
  <2>3. i \in 1..n /\ \A k \in 1..(i - 1) : a[k] = b[k]
    <3>1. i \in 1..n
      BY <2>2
    <3>2. \A k \in 1..(i - 1) : k \in 1..n /\ ~(i <= k)
      BY <3>1
    <3>3. \A k \in 1..(i - 1) : k \notin Apart
      BY <2>2, <3>2
    <3> QED
      BY <3>1, <3>2, <3>3
  <2>4. a[i] \in Int /\ b[i] \in Int /\ a[i] # b[i]
    BY <2>2, <2>3
  <2>5. a[i] < b[i] \/ b[i] < a[i]
    BY <2>4
  <2> QED
    BY <2>3, <2>5 DEF Before
<1> QED
  BY <1>1, <1>2, <1>3

LEMMA KeyedOrder ==
  ASSUME NEW S, NEW n \in Nat, NEW key \in [S -> [1..n -> Int]],
         \A x, y \in S : key[x] = key[y] => x = y,
         NEW below, \A x \in S : below[x] = {y \in S : Before(key[y], key[x])}
  PROVE  StrictOrder(S, below)
<1>1. \A x \in S : key[x] \in [1..n -> Int]
  OBVIOUS
<1>2. ASSUME NEW x \in S, NEW y \in S, NEW z \in S
      PROVE  /\ ~Before(key[x], key[x])
             /\ Before(key[x], key[y]) /\ Before(key[y], key[z]) => Before(key[x], key[z])
             /\ key[x] = key[y] \/ Before(key[x], key[y]) \/ Before(key[y], key[x])
  <2>1. key[x] \in [1..n -> Int] /\ key[y] \in [1..n -> Int] /\ key[z] \in [1..n -> Int]
    BY <1>1
  <2> QED
    BY <2>1, Lexicographic
<1>3. ASSUME NEW x \in S, NEW y \in S, x \in below[y] PROVE below[x] \subseteq below[y]
  BY <1>2, <1>3
<1> QED
  BY <1>2, <1>3 DEF StrictOrder

\* A list that takes at every place a member of that rank.
LEMMA ListingByRank ==
  ASSUME NEW S, IsFiniteSet(S), NEW below \in [S -> SUBSET S], StrictOrder(S, below),
         NEW s, s = [i \in 1..Cardinality(S) |-> CHOOSE x \in S : Cardinality(below[x]) = i - 1]
  PROVE  Listing(s, S, below)
<1>1. \A i \in 1..Cardinality(S) : s[i] \in S /\ Cardinality(below[s[i]]) = i - 1
  <2>1. TAKE i \in 1..Cardinality(S)
  <2>2. \E x \in S : Cardinality(below[x]) = i - 1
    BY <2>1, RanksAreTaken
  <2>3. s[i] = CHOOSE x \in S : Cardinality(below[x]) = i - 1
    BY <2>1
  <2> QED
    BY <2>2, <2>3
<1> QED
  BY <1>1 DEF Listing

LEMMA TuplesListed ==
  ASSUME NEW n \in Nat, NEW S \in SUBSET [1..n -> Int], IsFiniteSet(S)
  PROVE  AsSeq(S) \in Seq(S) /\ ToSet(AsSeq(S)) = S
<1> DEFINE below == [x \in S |-> {y \in S : Before(y, x)}]
           key == [x \in S |-> x]
<1>1. below \in [S -> SUBSET S] /\ \A x \in S : below[x] = {y \in S : Before(y, x)}
  OBVIOUS
<1>2. StrictOrder(S, below)
  <2>1. key \in [S -> [1..n -> Int]] /\ \A x \in S : key[x] = x
    OBVIOUS
  <2> HIDE DEF key, below
  <2>2. \A x, y \in S : key[x] = key[y] => x = y
    BY <2>1
  <2>3. \A x \in S : below[x] = {y \in S : Before(key[y], key[x])}
    BY <1>1, <2>1
  <2> QED
    BY <2>1, <2>2, <2>3, KeyedOrder
<1>3. AsSeq(S) = [i \in 1..Cardinality(S) |-> CHOOSE x \in S : Cardinality(below[x]) = i - 1]
  <2>1. AsSeq(S) = [i \in 1..Cardinality(S) |-> CHOOSE x \in S : Cardinality({y \in S : Before(y, x)}) = i - 1]
    BY DEF AsSeq, Ordered
  <2>2. \A i : (CHOOSE x \in S : Cardinality({y \in S : Before(y, x)}) = i - 1)
             = (CHOOSE x \in S : Cardinality(below[x]) = i - 1)
    <3> HIDE DEF below
    <3>1. TAKE i
    <3>2. \A x : (x \in S /\ Cardinality({y \in S : Before(y, x)}) = i - 1)
              <=> (x \in S /\ Cardinality(below[x]) = i - 1)
      BY <1>1
    <3> QED
      BY <3>2
  <2> QED
    BY <2>1, <2>2
<1> HIDE DEF below
<1>4. Listing(AsSeq(S), S, below)
  BY <1>1, <1>2, <1>3, ListingByRank
<1> QED
  BY <1>1, <1>2, <1>4, Listings

\* Min and Max of a finite set of numbers.
LEMMA LeastAndGreatest ==
  ASSUME NEW S \in SUBSET Int, IsFiniteSet(S), S # {}
  PROVE  /\ Min(S) \in S /\ \A x \in S : Min(S) <= x
         /\ Max(S) \in S /\ \A x \in S : x <= Max(S)
<1> DEFINE up == [x \in S |-> x]
           down == [x \in S |-> -x]
<1>1. \E x \in S : \A y \in S : x <= y
  <2>1. \A x \in S : up[x] \in Int /\ up[x] = x
    OBVIOUS
  <2> HIDE DEF up
  <2>2. \E x \in S : \A y \in S : up[x] <= up[y]
    BY <2>1, LeastValue
  <2> QED
    BY <2>1, <2>2
<1>2. \E x \in S : \A y \in S : x >= y
  <2>1. \A x \in S : down[x] \in Int /\ down[x] = -x
    OBVIOUS
  <2> HIDE DEF down
  <2>2. PICK x \in S : \A y \in S : down[x] <= down[y]
    BY <2>1, LeastValue
  <2>3. \A y \in S : x >= y
    BY <2>1, <2>2
  <2> QED
    BY <2>3
<1>3. Min(S) \in S /\ \A x \in S : Min(S) <= x
  BY <1>1 DEF Min
<1>4. Max(S) \in S /\ \A x \in S : Max(S) >= x
  BY <1>2 DEF Max
<1> QED
  BY <1>3, <1>4

LEMMA OfTwo ==
  ASSUME NEW a \in Int, NEW b \in Int
  PROVE  /\ Min({a, b}) \in {a, b} /\ Min({a, b}) <= a /\ Min({a, b}) <= b
         /\ Max({a, b}) \in {a, b} /\ Max({a, b}) >= a /\ Max({a, b}) >= b
<1>1. {a, b} \in SUBSET Int /\ IsFiniteSet({a, b}) /\ {a, b} # {}
  <2>1. IsFiniteSet({a}) /\ {a, b} = {a} \cup {b}
    BY FS_Singleton
  <2>2. IsFiniteSet({a} \cup {b})
    BY <2>1, FS_AddElement
  <2> QED
    BY <2>1, <2>2
<1> QED
  BY <1>1, LeastAndGreatest

LEMMA IdsListed ==
  ASSUME NEW S \in SUBSET Nat, IsFiniteSet(S)
  PROVE  Ids(S) \in Seq(S) /\ ToSet(Ids(S)) = S
<1> DEFINE below == [x \in S |-> {y \in S : y < x}]
<1>1. below \in [S -> SUBSET S] /\ \A x \in S : below[x] = {y \in S : y < x}
  OBVIOUS
<1> HIDE DEF below
<1>2. StrictOrder(S, below)
  <2>1. \A x, y \in S : x \in Nat /\ y \in Nat
    OBVIOUS
  <2>2. ASSUME NEW x \in S, NEW y \in S, x \in below[y] PROVE below[x] \subseteq below[y]
    <3>1. x < y
      BY <1>1, <2>2
    <3>2. \A z \in S : z < x => z < y
      BY <2>1, <3>1
    <3> QED
      BY <1>1, <3>2
  <2>3. \A x \in S : x \notin below[x]
    BY <1>1, <2>1
  <2>4. \A x, y \in S : x = y \/ x \in below[y] \/ y \in below[x]
    BY <1>1, <2>1
  <2> QED
    BY <2>2, <2>3, <2>4 DEF StrictOrder
<1>3. Ids(S) = [i \in 1..Cardinality(S) |-> CHOOSE x \in S : Cardinality(below[x]) = i - 1]
  <2>1. Ids(S) = [i \in 1..Cardinality(S) |-> CHOOSE x \in S : Cardinality({y \in S : y < x}) = i - 1]
    BY DEF Ids, Ordered
  <2>2. \A i : (CHOOSE x \in S : Cardinality({y \in S : y < x}) = i - 1)
             = (CHOOSE x \in S : Cardinality(below[x]) = i - 1)
    <3>1. TAKE i
    <3>2. \A x : (x \in S /\ Cardinality({y \in S : y < x}) = i - 1)
              <=> (x \in S /\ Cardinality(below[x]) = i - 1)
      BY <1>1
    <3> QED
      BY <3>2
  <2> QED
    BY <2>1, <2>2
<1>4. Listing(Ids(S), S, below)
  BY <1>1, <1>2, <1>3, ListingByRank
<1> QED
  BY <1>1, <1>2, <1>4, Listings

LEMMA ImagesAreFinite ==
  ASSUME NEW S, IsFiniteSet(S), NEW f
  PROVE  IsFiniteSet({f[x] : x \in S})
<1> DEFINE T == {f[x] : x \in S}
           g == [x \in S |-> f[x]]
<1>1. g \in [S -> T] /\ \A t \in T : \E x \in S : g[x] = t
  OBVIOUS
<1> HIDE DEF g, T
<1>2. g \in Surjection(S, T)
  BY <1>1 DEF Surjection
<1>3. IsFiniteSet(T)
  BY <1>2, FS_Surjection
<1> QED
  BY <1>3 DEF T

\* A step that is taken any number of times.
Steps(next, start, R, N) == R[0] = start /\ \A n \in 1..N : R[n] = next[<<n, R[n - 1]>>]

LEMMA StepsExist ==
  ASSUME NEW U, NEW next \in [Nat \X U -> U], NEW start \in U, NEW N \in Nat
  PROVE  \E R \in [0..N -> U] : Steps(next, start, R, N)
<1> DEFINE Built == {n \in Nat : \E R \in [0..n -> U] : Steps(next, start, R, n)}
<1>1. 0 \in Built
  <2>1. [i \in 0..0 |-> start] \in [0..0 -> U] /\ Steps(next, start, [i \in 0..0 |-> start], 0)
    BY DEF Steps
  <2>2. QED
    BY <2>1
<1>2. ASSUME NEW n \in Nat, n \in Built PROVE n + 1 \in Built
  <2>1. PICK R \in [0..n -> U] : Steps(next, start, R, n)
    BY <1>2
  <2> DEFINE Q == [i \in 0..(n + 1) |-> IF i <= n THEN R[i] ELSE next[<<n + 1, R[n]>>]]
  <2>2. R[n] \in U /\ <<n + 1, R[n]>> \in Nat \X U /\ next[<<n + 1, R[n]>>] \in U
    BY <2>1
  <2>3. Q \in [0..(n + 1) -> U]
    <3>1. \A i \in 0..(n + 1) : i <= n => i \in 0..n
      OBVIOUS
    <3>2. QED
      BY <2>2, <3>1
  <2>4. \A i \in 0..n : Q[i] = R[i]
    OBVIOUS
  <2>5. Q[n + 1] = next[<<n + 1, R[n]>>]
    <3>1. n + 1 \in 0..(n + 1) /\ ~(n + 1 <= n)
      OBVIOUS
    <3> QED
      BY <3>1
  <2> HIDE DEF Q
  <2>6. \A i \in 1..n : Q[i] = next[<<i, Q[i - 1]>>]
    <3>1. \A i \in 1..n : i \in 0..n /\ i - 1 \in 0..n
      OBVIOUS
    <3>2. \A i \in 1..n : R[i] = next[<<i, R[i - 1]>>]
      BY <2>1 DEF Steps
    <3> QED
      BY <2>4, <3>1, <3>2
  <2>7. \A i \in 1..(n + 1) : Q[i] = next[<<i, Q[i - 1]>>]
    <3>1. \A i \in 1..(n + 1) : i \in 1..n \/ (i = n + 1 /\ i - 1 = n)
      OBVIOUS
    <3>2. Q[n + 1] = next[<<n + 1, Q[n]>>]
      <4>1. n \in 0..n
        OBVIOUS
      <4> QED
        BY <2>4, <2>5, <4>1
    <3> QED
      BY <2>6, <3>1, <3>2
  <2>8. Q[0] = start
    BY <2>1, <2>4 DEF Steps
  <2> QED
    BY <2>3, <2>7, <2>8 DEF Steps
<1>3. Nat \subseteq Built
  <2> HIDE DEF Built
  <2> QED BY <1>1, <1>2, NatSteps
<1> QED
  BY <1>3

-----------------------------------------------------------------------------
(* The places of violations, from any layout and report. *)

Interval == Int \X Int
Sites == [objects : SUBSET LayoutObjects, seed : Interval, halo : Interval]
SitesKnown == site \in [Reported -> Sites]
LayoutKnown ==
  /\ \A o \in LayoutObjects : /\ obj(o).box \in Interval /\ obj(o).layer \in Nat /\ obj(o).thick \in Nat
                              /\ obj(o).box[1] \in Int /\ obj(o).box[2] \in Int
  /\ \A v \in Reported : /\ marker(v) \in Interval /\ marker(v)[1] \in Int /\ marker(v)[2] \in Int
                         /\ design.influence[v] \in Nat
                         /\ design.layers[v] \in SUBSET Nat /\ IsFiniteSet(design.layers[v])

LEMMA DesignsAreLayouts ==
  ASSUME design \in Designs
  PROVE  LayoutKnown
<1>1. /\ design.objects \in [LayoutObjects -> [box : Int \X Int, layer : Nat, class : {"A", "B", "C", "D"},
                                              anchored : BOOLEAN, thick : Nat]]
      /\ design.marker \in [Reported -> Int \X Int] /\ design.influence \in [Reported -> Nat]
      /\ design.layers \in [Reported -> SUBSET Nat] /\ \A v \in Reported : IsFiniteSet(design.layers[v])
  BY LayoutAssumption
<1>2. ASSUME NEW o \in LayoutObjects
      PROVE  /\ obj(o).box \in Interval /\ obj(o).layer \in Nat /\ obj(o).thick \in Nat
             /\ obj(o).box[1] \in Int /\ obj(o).box[2] \in Int
  BY <1>1 DEF obj, Interval
<1>3. ASSUME NEW v \in Reported
      PROVE  /\ marker(v) \in Interval /\ marker(v)[1] \in Int /\ marker(v)[2] \in Int
             /\ design.influence[v] \in Nat
             /\ design.layers[v] \in SUBSET Nat /\ IsFiniteSet(design.layers[v])
  BY <1>1 DEF marker, Interval
<1> QED
  BY <1>2, <1>3 DEF LayoutKnown

LEMMA AssociatesAreObjects ==
  ASSUME NEW v
  PROVE  associate(v) \in SUBSET LayoutObjects
<1>1. nearby(v) \in SUBSET LayoutObjects /\ nearby(v) \in SUBSET Nat /\ IsFiniteSet(nearby(v))
  <2>1. nearby(v) \in SUBSET LayoutObjects
    BY DEF nearby
  <2> QED
    BY <2>1, LayoutAssumption, FS_Subset
<1> DEFINE s == Ids(nearby(v))
<1>2. s \in Seq(nearby(v)) /\ Len(s) \in Nat
  BY <1>1, IdsListed
<1> HIDE DEF s
<1>3. ToSet(SubSeq(s, 1, Min({Nearby, Len(s)}))) \subseteq nearby(v)
  <2>1. Nearby \in Nat
    BY LayoutAssumption
  <2> DEFINE m == Min({Nearby, Len(s)})
  <2>2. m \in Nat /\ m <= Len(s)
    <3>1. Min({Nearby, Len(s)}) \in {Nearby, Len(s)} /\ Min({Nearby, Len(s)}) <= Len(s)
      <4>1. Nearby \in Int /\ Len(s) \in Int
        BY <1>2, <2>1
      <4> QED
        BY <4>1, OfTwo
    <3> QED
      BY <1>2, <2>1, <3>1
  <2> HIDE DEF m
  <2>3. SubSeq(s, 1, m) \in Seq(nearby(v))
    BY <1>2, <2>2
  <2>4. ToSet(SubSeq(s, 1, m)) \subseteq nearby(v)
    BY <2>3 DEF ToSet
  <2> QED
    BY <2>4 DEF m
<1>4. exact(v) \subseteq LayoutObjects
  BY <1>1 DEF exact
<1> QED
  BY <1>1, <1>3, <1>4 DEF associate, s

LEMMA SpanTyped ==
  ASSUME NEW set, IsFiniteSet(set), set # {}, \A b \in set : b[1] \in Int /\ b[2] \in Int
  PROVE  Span(set) \in Interval
<1> DEFINE L == {b[1] : b \in set}
           H == {b[2] : b \in set}
<1>1. L \in SUBSET Int /\ H \in SUBSET Int /\ L # {} /\ H # {}
  OBVIOUS
<1>2. IsFiniteSet(L) /\ IsFiniteSet(H)
  <2> DEFINE l == [b \in set |-> b[1]]
             h == [b \in set |-> b[2]]
  <2>1. L = {l[b] : b \in set} /\ H = {h[b] : b \in set}
    OBVIOUS
  <2> HIDE DEF l, h
  <2>2. IsFiniteSet({l[b] : b \in set})
    BY ImagesAreFinite
  <2>3. IsFiniteSet({h[b] : b \in set})
    BY ImagesAreFinite
  <2> QED
    BY <2>1, <2>2, <2>3
<1> HIDE DEF L, H
<1>3. Min(L) \in Int /\ Max(H) \in Int
  BY <1>1, <1>2, LeastAndGreatest
<1> QED
  BY <1>3 DEF Span, Interval, L, H

LEMMA SeedsTyped ==
  ASSUME LayoutKnown, NEW v \in Reported
  PROVE  _seed(v) \in Sites
<1>1. {MaxGap, HaloMin, HaloMax, SeedWindow, Micron, Nearby} \subseteq Nat
  BY LayoutAssumption
<1>2. associate(v) \in SUBSET LayoutObjects /\ IsFiniteSet(associate(v))
  BY AssociatesAreObjects, LayoutAssumption, FS_Subset
<1>3. marker(v) \in Interval /\ marker(v)[1] \in Int /\ marker(v)[2] \in Int /\ design.influence[v] \in Nat
  BY DEF LayoutKnown
<1>4. \A o \in associate(v) : local(v, o)[1] \in Int /\ local(v, o)[2] \in Int
  <2>1. TAKE o \in associate(v)
  <2>2. obj(o).box[1] \in Int /\ obj(o).box[2] \in Int
    BY <1>2 DEF LayoutKnown
  <2>3. marker(v)[1] - Micron \in Int /\ marker(v)[2] + Micron \in Int
    BY <1>1, <1>3
  <2>4. Max({obj(o).box[1], marker(v)[1] - Micron}) \in Int /\ Min({obj(o).box[2], marker(v)[2] + Micron}) \in Int
    BY <2>2, <2>3, OfTwo
  <2> QED
    BY <2>2, <2>4 DEF local
<1>5. seed_box(v) \in Interval
  <2> DEFINE L == {local(v, o) : o \in associate(v)}
             B == {marker(v)} \cup L
  <2>1. IsFiniteSet(B)
    <3>1. IsFiniteSet(L)
      <4> DEFINE l == [o \in associate(v) |-> local(v, o)]
      <4>1. L = {l[o] : o \in associate(v)}
        OBVIOUS
      <4> HIDE DEF l
      <4> QED
        BY <1>2, <4>1, ImagesAreFinite
    <3> HIDE DEF L
    <3> QED
      BY <3>1, FS_Singleton, FS_Union
  <2>2. B # {} /\ \A b \in B : b[1] \in Int /\ b[2] \in Int
    BY <1>3, <1>4
  <2> HIDE DEF B
  <2>3. Span(B) \in Interval
    BY <2>1, <2>2, SpanTyped
  <2> QED
    BY <2>3 DEF seed_box, B
<1>6. Wider(seed_box(v), Min({HaloMax, Max({HaloMin, design.influence[v], Width(marker(v)) \div 2})})) \in Interval
  <2> DEFINE reach == Max({HaloMin, design.influence[v], Width(marker(v)) \div 2})
  <2>1. Width(marker(v)) \div 2 \in Int /\ HaloMin \in Int /\ design.influence[v] \in Int /\ HaloMax \in Int
    BY <1>1, <1>3 DEF Width
  <2>2. reach \in Int
    <3> DEFINE T == {HaloMin, design.influence[v], Width(marker(v)) \div 2}
    <3>1. IsFiniteSet({HaloMin} \cup {design.influence[v]} \cup {Width(marker(v)) \div 2})
      BY FS_Singleton, FS_Union
    <3>2. T = {HaloMin} \cup {design.influence[v]} \cup {Width(marker(v)) \div 2}
      OBVIOUS
    <3>3. T \in SUBSET Int /\ T # {}
      BY <2>1
    <3>4. IsFiniteSet(T)
      BY <3>1, <3>2
    <3> HIDE DEF T
    <3>5. Max(T) \in Int
      BY <3>3, <3>4, LeastAndGreatest
    <3> QED
      BY <3>5 DEF T
  <2> HIDE DEF reach
  <2>3. Min({HaloMax, reach}) \in Int
    BY <2>1, <2>2, OfTwo
  <2>4. seed_box(v)[1] \in Int /\ seed_box(v)[2] \in Int
    BY <1>5 DEF Interval
  <2> QED
    BY <2>3, <2>4 DEF Wider, Interval, reach
<1> QED
  BY <1>2, <1>5, <1>6 DEF _seed, Sites

-----------------------------------------------------------------------------
(* _split: a cut leaves two smaller parts, and as many rounds of cuts as there
   are members leave parts that need no cut.                                   *)

LEMMA CentresAreNumbers ==
  ASSUME SitesKnown, NEW v \in Reported
  PROVE  centre(v) \in Int
<1>1. seed_of(v) \in Interval
  BY DEF SitesKnown, Sites, seed_of
<1> QED
  BY <1>1 DEF Interval, centre

LEMMA ByCentreListed ==
  ASSUME SitesKnown, NEW g \in SUBSET Reported
  PROVE  LET s == Ordered(g, ByCentre) IN
         /\ s \in Seq(g) /\ Len(s) = Cardinality(g) /\ Cardinality(g) \in Nat /\ ToSet(s) = g
         /\ \A i, j \in DOMAIN s : s[i] = s[j] => i = j
<1> DEFINE below == [x \in g |-> {y \in g : ByCentre(y, x)}]
           s == Ordered(g, ByCentre)
<1>1. below \in [g -> SUBSET g] /\ \A x \in g : below[x] = {y \in g : ByCentre(y, x)}
  OBVIOUS
<1> HIDE DEF below
<1>2. IsFiniteSet(g)
  BY LayoutAssumption, FS_Subset
<1>3. \A x \in g : x \in Int /\ centre(x) \in Int
  <2>1. TAKE x \in g
  <2>2. x \in Reported
    OBVIOUS
  <2>3. x \in Nat
    BY <2>2, LayoutAssumption
  <2>4. centre(x) \in Int
    BY <2>2, CentresAreNumbers
  <2> QED
    BY <2>3, <2>4
<1>4. StrictOrder(g, below)
  <2>1. ASSUME NEW x \in g, NEW y \in g, x \in below[y] PROVE below[x] \subseteq below[y]
    <3>1. ByCentre(x, y)
      BY <1>1, <2>1
    <3>2. \A z \in g : ByCentre(z, x) => ByCentre(z, y)
      BY <1>3, <3>1 DEF ByCentre
    <3> QED
      BY <1>1, <3>2
  <2>2. \A x \in g : ~ByCentre(x, x)
    BY <1>3 DEF ByCentre
  <2>3. \A x, y \in g : x = y \/ ByCentre(x, y) \/ ByCentre(y, x)
    BY <1>3 DEF ByCentre
  <2> QED
    BY <1>1, <2>1, <2>2, <2>3 DEF StrictOrder
<1>5. s = [i \in 1..Cardinality(g) |-> CHOOSE x \in g : Cardinality(below[x]) = i - 1]
  <2>1. s = [i \in 1..Cardinality(g) |-> CHOOSE x \in g : Cardinality({y \in g : ByCentre(y, x)}) = i - 1]
    BY DEF Ordered
  <2>2. \A i : (CHOOSE x \in g : Cardinality({y \in g : ByCentre(y, x)}) = i - 1)
             = (CHOOSE x \in g : Cardinality(below[x]) = i - 1)
    <3>1. TAKE i
    <3>2. \A x : (x \in g /\ Cardinality({y \in g : ByCentre(y, x)}) = i - 1)
              <=> (x \in g /\ Cardinality(below[x]) = i - 1)
      BY <1>1
    <3> QED
      BY <3>2
  <2> QED
    BY <2>1, <2>2
<1>6. Listing(s, g, below)
  BY <1>1, <1>2, <1>4, <1>5, ListingByRank
<1> HIDE DEF s
<1>7. /\ s \in Seq(g) /\ Len(s) = Cardinality(g) /\ Cardinality(g) \in Nat /\ ToSet(s) = g
      /\ \A i, j \in DOMAIN s : s[i] = s[j] => i = j
  BY <1>1, <1>2, <1>4, <1>6, Listings
<1> QED
  BY <1>7 DEF s

LEMMA CutExists ==
  ASSUME SitesKnown, NEW s \in Seq(Reported), Len(s) > 1
  PROVE  cut(s) \in 1..(Len(s) - 1)
<1> DEFINE C == 1..(Len(s) - 1)
           f == [c \in C |-> cost(s, c)]
<1>1. IsFiniteSet(C) /\ C # {} /\ C \in SUBSET Nat
  <2>1. Len(s) \in Nat /\ Len(s) - 1 \in Int
    OBVIOUS
  <2>2. IsFiniteSet(C)
    BY <2>1, FS_Interval
  <2>3. 1 \in C /\ C \in SUBSET Nat
    BY <2>1
  <2> HIDE DEF C
  <2> QED
    BY <2>2, <2>3
<1>2. \A c \in C : cost(s, c) \in Int
  <2>1. TAKE c \in C
  <2>2. s[c] \in Reported /\ s[c + 1] \in Reported
    BY <2>1
  <2>3. centre(s[c]) \in Int /\ centre(s[c + 1]) \in Int
    BY <2>2, CentresAreNumbers
  <2>4. Max({2 * c - Len(s), Len(s) - 2 * c}) \in Int
    <3>1. 2 * c - Len(s) \in Int /\ Len(s) - 2 * c \in Int
      BY <2>1
    <3> QED
      BY <3>1, OfTwo
  <2> QED
    BY <2>3, <2>4 DEF cost
<1>3. \A c \in C : f[c] = cost(s, c)
  OBVIOUS
<1> HIDE DEF C, f
<1>4. PICK m \in C : \A d \in C : f[m] <= f[d]
  <2>1. \A c \in C : f[c] \in Int
    BY <1>2, <1>3
  <2> QED
    BY <1>1, <2>1, LeastValue
<1> DEFINE M == {c \in C : cost(s, c) = cost(s, m)}
<1>5. M # {} /\ M \in SUBSET Nat
  BY <1>1, <1>4
<1>6. PICK c \in M : \A d \in M : c <= d
  BY <1>5, LeastElement
<1>7. \A d \in C : Better(s, c, d)
  <2>1. TAKE d \in C
  <2>2. cost(s, c) = cost(s, m) /\ cost(s, m) <= cost(s, d) /\ c \in C
    BY <1>3, <1>4, <1>6, <2>1
  <2>3. CASE d \in M
    <3>1. c <= d /\ cost(s, d) = cost(s, m)
      BY <1>6, <2>3
    <3> QED
      BY <2>2, <3>1 DEF Better
  <2>4. CASE d \notin M
    <3>1. cost(s, d) # cost(s, m)
      BY <2>1, <2>4
    <3> QED
      BY <1>2, <1>4, <2>1, <2>2, <3>1 DEF Better
  <2> QED
    BY <2>3, <2>4
<1>8. \E e \in C : \A d \in C : Better(s, e, d)
  BY <1>6, <1>7
<1>9. cut(s) = CHOOSE e \in C : \A d \in C : Better(s, e, d)
  BY DEF cut, C
<1> QED
  BY <1>8, <1>9 DEF C

LEMMA HalvesPart ==
  ASSUME SitesKnown, NEW g \in SUBSET Reported, ~settled(g)
  PROVE  \E a, b \in SUBSET g : /\ halves(g) = {a, b} /\ a \cup b = g /\ a \cap b = {}
                                /\ a # {} /\ b # {}
<1> DEFINE s == Ordered(g, ByCentre)
           m == cut(s)
           n == Len(s)
<1>1. /\ s \in Seq(g) /\ n = Cardinality(g) /\ Cardinality(g) \in Nat /\ ToSet(s) = g
      /\ \A i, j \in DOMAIN s : s[i] = s[j] => i = j
  BY ByCentreListed
<1>2. halves(g) = {ToSet(SubSeq(s, 1, m)), ToSet(SubSeq(s, m + 1, n))}
  BY DEF halves
<1> HIDE DEF s
<1>3. n > 1 /\ n \in Nat /\ DOMAIN s = 1..n
  BY <1>1 DEF settled
<1>4. m \in 1..(n - 1)
  <2>1. s \in Seq(Reported)
    BY <1>1
  <2> QED
    BY <1>3, <2>1, CutExists
<1> HIDE DEF m, n
<1> DEFINE a == {s[i] : i \in 1..m}
           b == {s[i] : i \in (m + 1)..n}
<1>5. ToSet(SubSeq(s, 1, m)) = a
  <2>1. SubSeq(s, 1, m) = [i \in 1..m |-> s[i]]
    BY <1>1, <1>3, <1>4
  <2> QED
    BY <1>4, <2>1 DEF ToSet
<1>6. ToSet(SubSeq(s, m + 1, n)) = b
  <2>1. SubSeq(s, m + 1, n) = [i \in 1..(n - m) |-> s[i + m]]
    BY <1>1, <1>3, <1>4
  <2>2. ToSet(SubSeq(s, m + 1, n)) = {s[i + m] : i \in 1..(n - m)}
    BY <1>3, <1>4, <2>1 DEF ToSet
  <2>3. \A i \in 1..(n - m) : i + m \in (m + 1)..n
    BY <1>3, <1>4
  <2>4. \A i \in (m + 1)..n : i - m \in 1..(n - m) /\ (i - m) + m = i
    BY <1>3, <1>4
  <2> QED
    BY <2>2, <2>3, <2>4
<1>7. \A i \in 1..n : s[i] \in g
  BY <1>1, <1>3
<1>8. a \in SUBSET g /\ b \in SUBSET g /\ a # {} /\ b # {}
  <2>1. 1 \in 1..m /\ n \in (m + 1)..n
    BY <1>3, <1>4
  <2>2. 1..m \subseteq 1..n /\ (m + 1)..n \subseteq 1..n
    BY <1>3, <1>4
  <2> QED
    BY <1>7, <2>1, <2>2
<1>9. a \cup b = g
  <2>1. g = {s[i] : i \in 1..n}
    BY <1>1, <1>3 DEF ToSet
  <2>2. 1..n = (1..m) \cup ((m + 1)..n)
    BY <1>3, <1>4
  <2> QED
    BY <2>1, <2>2
<1>10. a \cap b = {}
  <2>1. SUFFICES ASSUME NEW i \in 1..m, NEW j \in (m + 1)..n, s[i] = s[j] PROVE FALSE
    OBVIOUS
  <2>2. i \in 1..n /\ j \in 1..n /\ i # j
    BY <1>3, <1>4
  <2> QED
    BY <1>1, <1>3, <2>1, <2>2
<1> HIDE DEF a, b
<1> QED
  BY <1>2, <1>5, <1>6, <1>8, <1>9, <1>10

LEMMA SplitRounds ==
  ASSUME SitesKnown, NEW g \in SUBSET Reported
  PROVE  \E R \in [0..Cardinality(g) -> SUBSET SUBSET Reported] :
           /\ R[0] = {g} /\ split(g) = R[Cardinality(g)]
           /\ \A n \in 1..Cardinality(g) : R[n] = UNION {halves(h) : h \in R[n - 1]}
<1> DEFINE N == Cardinality(g)
           U == SUBSET SUBSET Reported
           next == [s \in Nat \X U |-> UNION {halves(h) : h \in s[2]}]
           Def(f) == [n \in 0..N |-> IF n = 0 THEN {g} ELSE UNION {halves(h) : h \in f[n-1]}]
           F == CHOOSE f : f = Def(f)
<1>1. N \in Nat
  BY LayoutAssumption, FS_Subset, FS_CardinalityType
<1>2. next \in [Nat \X U -> U]
  <2>1. SUFFICES ASSUME NEW T \in U PROVE UNION {halves(h) : h \in T} \in U
    OBVIOUS
  <2>2. SUFFICES ASSUME NEW h \in T PROVE halves(h) \in U
    OBVIOUS
  <2>3. CASE settled(h)
    BY <2>1, <2>2, <2>3 DEF halves
  <2>4. CASE ~settled(h)
    <3>1. h \in SUBSET Reported
      BY <2>1, <2>2
    <3>2. PICK a \in SUBSET h, b \in SUBSET h : halves(h) = {a, b}
      BY <2>4, <3>1, HalvesPart
    <3> QED
      BY <3>1, <3>2
  <2> QED
    BY <2>3, <2>4
<1>3. \A n \in Nat : \A T \in U : next[<<n, T>>] = UNION {halves(h) : h \in T}
  OBVIOUS
<1>4. {g} \in U
  OBVIOUS
<1> HIDE DEF N, U, next
<1>5. PICK R \in [0..N -> U] : Steps(next, {g}, R, N)
  BY <1>1, <1>2, <1>4, StepsExist
<1>6. \A n \in 1..N : n \in 0..N /\ n - 1 \in 0..N /\ n \in Nat /\ n # 0 /\ R[n - 1] \in U
  BY <1>1, <1>5
<1>7. R[0] = {g} /\ \A n \in 1..N : R[n] = UNION {halves(h) : h \in R[n - 1]}
  BY <1>3, <1>5, <1>6 DEF Steps
<1>8. R = Def(R)
  <2>1. \A n \in 0..N : n # 0 => n \in 1..N
    BY <1>1
  <2>2. \A n \in 0..N : R[n] = IF n = 0 THEN {g} ELSE UNION {halves(h) : h \in R[n-1]}
    BY <1>7, <2>1
  <2> QED
    BY <1>5, <2>2
<1>9. F = Def(F)
  <2> HIDE DEF Def
  <2> QED BY <1>8
<1>10. \A n \in Nat : n <= N => F[n] = R[n]
  <2> DEFINE Same == {n \in Nat : n <= N => F[n] = R[n]}
  <2>1. 0 \in Same
    <3>1. 0 \in 0..N
      BY <1>1
    <3>2. F[0] = {g}
      BY <1>9, <3>1
    <3> QED
      BY <1>7, <3>2
  <2>2. ASSUME NEW n \in Nat, n \in Same PROVE n + 1 \in Same
    <3>1. SUFFICES ASSUME n + 1 <= N PROVE F[n + 1] = R[n + 1]
      OBVIOUS
    <3>2. n + 1 \in 0..N /\ n + 1 # 0 /\ (n + 1) - 1 = n /\ n <= N /\ n + 1 \in 1..N
      BY <1>1, <3>1
    <3>3. F[n + 1] = UNION {halves(h) : h \in F[n]}
      BY <1>9, <3>2
    <3>4. R[n + 1] = UNION {halves(h) : h \in R[n]}
      BY <1>7, <3>2
    <3> QED
      BY <2>2, <3>2, <3>3, <3>4
  <2> HIDE DEF Same
  <2>3. Nat \subseteq Same
    BY <2>1, <2>2, NatSteps
  <2> QED
    BY <2>3 DEF Same
<1>11. split(g) = F[N]
  BY Zenon DEF split, N
<1>12. split(g) = R[N]
  <2>1. N \in Nat /\ N <= N
    BY <1>1
  <2>2. F[N] = R[N]
    BY <1>10, <2>1
  <2> QED
    BY <1>11, <2>2
<1> QED
  BY <1>5, <1>7, <1>12 DEF N, U

-----------------------------------------------------------------------------
(* _UnionFind.  The label of an element is the root that its parents lead to;
   halving a path keeps every label, and a union gives one label to two classes. *)

Forest(S, p) == p \in [S -> S] /\ \A y \in S : p[y] <= y
Labels(S, p, L) == L \in [S -> S] /\ \A y \in S : L[y] = IF p[y] = y THEN y ELSE L[p[y]]

LEMMA LabelsExist ==
  ASSUME NEW S \in SUBSET Nat, IsFiniteSet(S), NEW p, Forest(S, p)
  PROVE  \E L : Labels(S, p, L)
<1> DEFINE Up == {k \in Nat : \E L \in [S -> S] : \A y \in S : y < k => L[y] = IF p[y] = y THEN y ELSE L[p[y]]}
<1>1. p \in [S -> S] /\ \A y \in S : p[y] <= y
  BY DEF Forest
<1>2. 0 \in Up
  <2>1. [y \in S |-> y] \in [S -> S] /\ \A y \in S : ~(y < 0)
    OBVIOUS
  <2> QED
    BY <2>1
<1>3. ASSUME NEW k \in Nat, k \in Up PROVE k + 1 \in Up
  <2>1. PICK L \in [S -> S] : \A y \in S : y < k => L[y] = IF p[y] = y THEN y ELSE L[p[y]]
    BY <1>3
  <2>2. CASE k \notin S
    <3>1. \A y \in S : y < k + 1 => y < k
      BY <2>2
    <3> QED
      BY <2>1, <3>1
  <2>3. CASE k \in S
    <3> DEFINE M == [L EXCEPT ![k] = IF p[k] = k THEN k ELSE L[p[k]]]
    <3>1. M \in [S -> S] /\ M[k] = (IF p[k] = k THEN k ELSE L[p[k]]) /\ \A y \in S : y # k => M[y] = L[y]
      BY <1>1, <2>3
    <3> HIDE DEF M
    <3>2. \A y \in S : y < k + 1 => M[y] = IF p[y] = y THEN y ELSE M[p[y]]
      <4>1. SUFFICES ASSUME NEW y \in S, y < k + 1 PROVE M[y] = IF p[y] = y THEN y ELSE M[p[y]]
        OBVIOUS
      <4>2. p[y] \in S /\ p[y] <= y /\ p[k] <= k /\ p[k] \in S
        BY <1>1, <2>3
      <4>3. CASE y = k
        BY <3>1, <4>2, <4>3
      <4>4. CASE y # k
        <5>1. y < k /\ p[y] # k
          BY <4>1, <4>2, <4>4
        <5> QED
          BY <2>1, <3>1, <4>2, <4>4, <5>1
      <4> QED
        BY <4>3, <4>4
    <3> QED
      BY <3>1, <3>2
  <2> QED
    BY <2>2, <2>3
<1>4. Nat \subseteq Up
  <2> HIDE DEF Up
  <2> QED BY <1>2, <1>3, NatSteps
<1>5. PICK k \in Nat : \A y \in S : y < k
  <2>1. CASE S = {}
    BY <2>1
  <2>2. CASE S # {}
    <3>1. S \in SUBSET Int
      OBVIOUS
    <3>2. PICK m \in S : \A y \in S : y <= m
      BY <2>2, <3>1, LeastAndGreatest
    <3>3. m + 1 \in Nat /\ \A y \in S : y < m + 1
      BY <3>2
    <3> QED
      BY <3>3
  <2> QED
    BY <2>1, <2>2
<1> QED
  BY <1>4, <1>5 DEF Labels

LEMMA LabelsAreRoots ==
  ASSUME NEW S \in SUBSET Nat, NEW p, Forest(S, p), NEW L, Labels(S, p, L)
  PROVE  \A y \in S : L[y] \in S /\ L[y] <= y /\ p[L[y]] = L[y] /\ L[L[y]] = L[y] /\ L[y] <= p[y]
<1>1. p \in [S -> S] /\ (\A y \in S : p[y] <= y) /\ L \in [S -> S]
      /\ \A y \in S : L[y] = IF p[y] = y THEN y ELSE L[p[y]]
  BY DEF Forest, Labels
<1> DEFINE Bad == {y \in S : ~(L[y] <= y /\ p[L[y]] = L[y])}
<1>2. Bad = {}
  <2>1. SUFFICES ASSUME Bad # {} PROVE FALSE
    OBVIOUS
  <2>2. Bad \in SUBSET Nat /\ Bad \subseteq S
    OBVIOUS
  <2>3. \A z \in S : z \notin Bad => L[z] <= z /\ p[L[z]] = L[z]
    OBVIOUS
  <2>4. \A z \in S : L[z] <= z /\ p[L[z]] = L[z] => z \notin Bad
    OBVIOUS
  <2> HIDE DEF Bad
  <2>5. PICK y \in Bad : \A z \in Bad : y <= z
    BY <2>1, <2>2, LeastElement
  <2>6. y \in S /\ y \in Nat /\ p[y] \in S /\ p[y] \in Nat /\ p[y] <= y
    BY <1>1, <2>2, <2>5
  <2>7. CASE p[y] = y
    <3>1. L[y] = y
      BY <1>1, <2>6, <2>7
    <3> QED
      BY <2>4, <2>5, <2>6, <2>7, <3>1
  <2>8. CASE p[y] # y
    <3>1. p[y] \notin Bad
      BY <2>5, <2>6, <2>8
    <3>2. L[y] = L[p[y]] /\ L[p[y]] \in S
      BY <1>1, <2>6, <2>8
    <3>3. L[p[y]] <= p[y] /\ p[L[p[y]]] = L[p[y]]
      BY <2>3, <2>6, <3>1
    <3>4. L[y] <= y /\ p[L[y]] = L[y]
      <4>1. L[p[y]] \in Nat
        BY <3>2
      <4> QED
        BY <2>6, <3>2, <3>3, <4>1
    <3> QED
      BY <2>4, <2>5, <2>6, <3>4
  <2> QED
    BY <2>7, <2>8
<1>3. \A y \in S : L[y] <= y /\ p[L[y]] = L[y] /\ L[y] \in S
  BY <1>1, <1>2
<1>4. \A y \in S : L[L[y]] = L[y]
  BY <1>1, <1>3
<1>5. \A y \in S : L[y] <= p[y]
  BY <1>1, <1>3
<1> QED
  BY <1>3, <1>4, <1>5

LEMMA Halving ==
  ASSUME NEW S \in SUBSET Nat, NEW q, Forest(S, q), NEW L, Labels(S, q, L), NEW y \in S, q[y] # y
  PROVE  LET h == [q EXCEPT ![y] = q[q[y]]] IN
         Forest(S, h) /\ Labels(S, h, L) /\ h[y] \in S /\ h[y] < y /\ L[h[y]] = L[y]
<1> DEFINE h == [q EXCEPT ![y] = q[q[y]]]
<1>1. q \in [S -> S] /\ (\A z \in S : q[z] <= z) /\ L \in [S -> S]
      /\ \A z \in S : L[z] = IF q[z] = z THEN z ELSE L[q[z]]
  BY DEF Forest, Labels
<1>2. q[y] \in S /\ q[q[y]] \in S /\ q[q[y]] <= q[y] /\ q[y] < y
  <2>1. q[y] \in S /\ q[y] <= y /\ y \in Nat
    BY <1>1
  <2>2. q[q[y]] \in S /\ q[q[y]] <= q[y] /\ q[y] \in Nat
    BY <1>1, <2>1
  <2> QED
    BY <2>1, <2>2
<1>3. h \in [S -> S] /\ h[y] = q[q[y]] /\ \A z \in S : z # y => h[z] = q[z]
  BY <1>1, <1>2
<1> HIDE DEF h
<1>4. h[y] \in S /\ h[y] < y
  <2>1. q[q[y]] \in Nat /\ q[y] \in Nat /\ y \in Nat
    BY <1>2
  <2> QED
    BY <1>2, <1>3, <2>1
<1>5. L[h[y]] = L[y]
  <2>1. L[y] = L[q[y]]
    BY <1>1
  <2>2. L[q[y]] = L[q[q[y]]]
    BY <1>1, <1>2
  <2> QED
    BY <1>3, <2>1, <2>2
<1>6. \A z \in S : L[z] = IF h[z] = z THEN z ELSE L[h[z]]
  <2>1. TAKE z \in S
  <2>2. CASE z = y
    <3>1. h[y] # y
      BY <1>4
    <3> QED
      BY <1>5, <2>2, <3>1
  <2>3. CASE z # y
    BY <1>1, <1>3, <2>3
  <2> QED
    BY <2>2, <2>3
<1>7. \A z \in S : h[z] <= z
  <2>1. h[y] <= y
    <3>1. h[y] \in Nat /\ y \in Nat
      BY <1>4
    <3> QED
      BY <1>4, <3>1
  <2>2. ASSUME NEW z \in S, z # y PROVE h[z] <= z
    BY <1>1, <1>3, <2>2
  <2> QED
    BY <2>1, <2>2
<1>8. Forest(S, h) /\ Labels(S, h, L)
  BY <1>1, <1>3, <1>6, <1>7 DEF Forest, Labels
<1> QED
  BY <1>4, <1>5, <1>8 DEF h

\* One turn of the loop of find, as a step of <<parents, item>>.
FindTurn(q, y) ==
  IF q[y] = y THEN <<q, y>> ELSE LET h == [q EXCEPT ![y] = q[q[y]]] IN <<h, h[y]>>
FindTurns(S, p, x, R) ==
  /\ R \in [0..Cardinality(S) -> [S -> S] \X S]
  /\ R[0] = <<p, x>> /\ find(p, x) = R[Cardinality(S)]
  /\ \A n \in 1..Cardinality(S) : R[n] = FindTurn(R[n - 1][1], R[n - 1][2])

LEMMA FindIsTurns ==
  ASSUME NEW S, IsFiniteSet(S), NEW p \in [S -> S], NEW x \in S
  PROVE  \E R : FindTurns(S, p, x, R)
<1> DEFINE N == Cardinality(DOMAIN p)
           U == [S -> S] \X S
           next == [s \in Nat \X U |-> FindTurn(s[2][1], s[2][2])]
           Def(f) == [n \in 0..N |->
                        IF n = 0 THEN <<p, x>>
                        ELSE LET last == f[n-1]  q == last[1]  y == last[2] IN
                             IF q[y] = y THEN last
                             ELSE LET h == [q EXCEPT ![y] = q[q[y]]] IN <<h, h[y]>>]
           F == CHOOSE f : f = Def(f)
<1>1. N \in Nat /\ N = Cardinality(S)
  <2>1. DOMAIN p = S
    OBVIOUS
  <2> QED
    BY <2>1, FS_CardinalityType
<1>2. next \in [Nat \X U -> U]
  <2>1. SUFFICES ASSUME NEW q \in [S -> S], NEW y \in S PROVE FindTurn(q, y) \in U
    OBVIOUS
  <2>2. q[y] \in S /\ q[q[y]] \in S
    OBVIOUS
  <2>3. [q EXCEPT ![y] = q[q[y]]] \in [S -> S]
    BY <2>2
  <2> QED
    BY <2>2, <2>3 DEF FindTurn
<1>3. \A n \in Nat : \A s \in U : next[<<n, s>>] = FindTurn(s[1], s[2])
  OBVIOUS
<1>4. <<p, x>> \in U
  OBVIOUS
<1>5. \A s \in U : s = <<s[1], s[2]>>
  OBVIOUS
<1> HIDE DEF N, U, next
<1>6. PICK R \in [0..N -> U] : Steps(next, <<p, x>>, R, N)
  BY <1>1, <1>2, <1>4, StepsExist
<1>7. \A n \in 1..N : n \in 0..N /\ n - 1 \in 0..N /\ n \in Nat /\ n # 0 /\ R[n - 1] \in U
  BY <1>1, <1>6
<1>8. R[0] = <<p, x>> /\ \A n \in 1..N : R[n] = FindTurn(R[n - 1][1], R[n - 1][2])
  BY <1>3, <1>6, <1>7 DEF Steps
<1>9. \A n \in 1..N : FindTurn(R[n - 1][1], R[n - 1][2]) =
        LET last == R[n-1]  q == last[1]  y == last[2] IN
        IF q[y] = y THEN last
        ELSE LET h == [q EXCEPT ![y] = q[q[y]]] IN <<h, h[y]>>
  <2>1. TAKE n \in 1..N
  <2>2. R[n - 1] = <<R[n - 1][1], R[n - 1][2]>>
    BY <1>5, <1>7, <2>1
  <2> QED
    BY <2>2 DEF FindTurn
<1>10. R = Def(R)
  <2>1. \A n \in 0..N : n # 0 => n \in 1..N
    BY <1>1
  <2>2. \A n \in 0..N : R[n] =
          IF n = 0 THEN <<p, x>>
          ELSE LET last == R[n-1]  q == last[1]  y == last[2] IN
               IF q[y] = y THEN last
               ELSE LET h == [q EXCEPT ![y] = q[q[y]]] IN <<h, h[y]>>
    BY <1>8, <1>9, <2>1
  <2> QED
    BY <1>6, <2>2, Zenon
<1>11. F = Def(F)
  <2> HIDE DEF Def
  <2> QED BY <1>10
<1>12. \A n \in Nat : n <= N => F[n] = R[n]
  <2> DEFINE Same == {n \in Nat : n <= N => F[n] = R[n]}
  <2>1. 0 \in Same
    <3>1. 0 \in 0..N
      BY <1>1
    <3>2. F[0] = <<p, x>>
      BY <1>11, <3>1
    <3> QED
      BY <1>8, <3>2
  <2>2. ASSUME NEW n \in Nat, n \in Same PROVE n + 1 \in Same
    <3> HIDE DEF Def, F
    <3>1. SUFFICES ASSUME n + 1 <= N PROVE F[n + 1] = R[n + 1]
      OBVIOUS
    <3>2. n + 1 \in 0..N /\ n + 1 # 0 /\ (n + 1) - 1 = n /\ n <= N /\ n \in 0..N /\ n + 1 \in 1..N
      BY <1>1, <3>1
    <3>3. Def(F)[n + 1] = Def(R)[n + 1]
      <4>1. F[n] = R[n]
        BY <2>2, <3>2
      <4> QED
        BY <3>2, <4>1 DEF Def
    <3> QED
      BY <1>10, <1>11, <3>3
  <2> HIDE DEF Same
  <2>3. Nat \subseteq Same
    BY <2>1, <2>2, NatSteps
  <2> QED
    BY <2>3 DEF Same
<1>13. find(p, x) = F[N]
  BY Zenon DEF find, N
<1>14. find(p, x) = R[N]
  <2>1. N \in Nat /\ N <= N
    BY <1>1
  <2>2. F[N] = R[N]
    BY <1>12, <2>1
  <2> QED
    BY <1>13, <2>2
<1> QED
  BY <1>1, <1>6, <1>8, <1>14 DEF FindTurns, U

LEMMA FindLabels ==
  ASSUME NEW S \in SUBSET Nat, IsFiniteSet(S), NEW p, Forest(S, p), NEW L, Labels(S, p, L), NEW x \in S
  PROVE  /\ find(p, x)[2] = L[x]
         /\ Forest(S, find(p, x)[1]) /\ Labels(S, find(p, x)[1], L)
<1> DEFINE N == Cardinality(S)
           Lower(y) == {z \in S : z < y}
           Good(n, q, y) == /\ Forest(S, q) /\ Labels(S, q, L) /\ y \in S /\ L[y] = L[x]
                            /\ q[y] = y \/ Cardinality(Lower(y)) + n + 1 <= N
<1>1. N \in Nat
  BY FS_CardinalityType
<1>2. p \in [S -> S]
  BY DEF Forest
<1>3. PICK R : FindTurns(S, p, x, R)
  BY <1>2, FindIsTurns
<1>4. \A y \in S : IsFiniteSet(Lower(y)) /\ Cardinality(Lower(y)) \in Nat /\ Cardinality(Lower(y)) + 1 <= N
  <2>1. TAKE y \in S
  <2>2. Lower(y) \subseteq S /\ y \in S /\ y \notin Lower(y)
    OBVIOUS
  <2> HIDE DEF Lower
  <2>3. IsFiniteSet(Lower(y)) /\ Cardinality(Lower(y)) \in Nat /\ Cardinality(Lower(y)) <= N /\ Lower(y) # S
    BY <2>2, FS_Subset, FS_CardinalityType
  <2>4. Cardinality(Lower(y)) # N
    BY <2>2, <2>3, FS_Subset
  <2> QED
    BY <1>1, <2>3, <2>4
<1>5. \A y, z \in S : z < y => Cardinality(Lower(z)) + 1 <= Cardinality(Lower(y))
  <2>1. SUFFICES ASSUME NEW y \in S, NEW z \in S, z < y
                 PROVE  Cardinality(Lower(z)) + 1 <= Cardinality(Lower(y))
    OBVIOUS
  <2>2. \A u \in S : u \in Nat
    OBVIOUS
  <2>3. Lower(z) \subseteq Lower(y) /\ z \in Lower(y) /\ z \notin Lower(z)
    <3>1. \A u \in S : u < z => u < y
      BY <2>1, <2>2
    <3>2. ~(z < z)
      BY <2>2
    <3> QED
      BY <2>1, <3>1, <3>2
  <2>4. IsFiniteSet(Lower(y)) /\ Cardinality(Lower(y)) \in Nat /\ Cardinality(Lower(z)) \in Nat
    BY <1>4
  <2> HIDE DEF Lower
  <2>5. Cardinality(Lower(z)) <= Cardinality(Lower(y)) /\ Cardinality(Lower(z)) # Cardinality(Lower(y))
    BY <2>3, <2>4, FS_Subset
  <2> QED
    BY <2>4, <2>5
<1> HIDE DEF N, Lower
<1>6. Good(0, R[0][1], R[0][2])
  <2>1. R[0][1] = p /\ R[0][2] = x
    BY <1>3 DEF FindTurns
  <2>2. Cardinality(Lower(x)) + 0 + 1 <= N
    BY <1>1, <1>4
  <2> QED
    BY <2>1, <2>2
<1>7. ASSUME NEW n \in Nat, NEW q, NEW y, Good(n, q, y)
      PROVE  Good(n + 1, FindTurn(q, y)[1], FindTurn(q, y)[2])
  <2>1. CASE q[y] = y
    <3>1. FindTurn(q, y)[1] = q /\ FindTurn(q, y)[2] = y
      BY <2>1 DEF FindTurn
    <3> QED
      BY <1>7, <2>1, <3>1
  <2>2. CASE q[y] # y
    <3> DEFINE h == [q EXCEPT ![y] = q[q[y]]]
    <3>1. FindTurn(q, y)[1] = h /\ FindTurn(q, y)[2] = h[y]
      BY <2>2 DEF FindTurn
    <3>2. Forest(S, h) /\ Labels(S, h, L) /\ h[y] \in S /\ h[y] < y /\ L[h[y]] = L[y]
      BY <1>7, <2>2, Halving
    <3>3. Cardinality(Lower(y)) + n + 1 <= N
      BY <1>7, <2>2
    <3> HIDE DEF h
    <3>4. Cardinality(Lower(h[y])) + 1 <= Cardinality(Lower(y))
      BY <1>5, <1>7, <3>2
    <3>5. Cardinality(Lower(h[y])) + (n + 1) + 1 <= N
      <4>1. Cardinality(Lower(h[y])) \in Nat /\ Cardinality(Lower(y)) \in Nat
        BY <1>4, <1>7, <3>2
      <4> QED
        BY <1>1, <3>3, <3>4, <4>1
    <3> QED
      BY <1>7, <3>1, <3>2, <3>5
  <2> QED
    BY <2>1, <2>2
<1> HIDE DEF Good
<1>8. \A n \in Nat : n <= N => Good(n, R[n][1], R[n][2])
  <2> DEFINE Fine == {n \in Nat : n <= N => Good(n, R[n][1], R[n][2])}
  <2>1. 0 \in Fine
    BY <1>6
  <2>2. ASSUME NEW n \in Nat, n \in Fine PROVE n + 1 \in Fine
    <3>1. SUFFICES ASSUME n + 1 <= N PROVE Good(n + 1, R[n + 1][1], R[n + 1][2])
      OBVIOUS
    <3>2. n + 1 \in 1..N /\ (n + 1) - 1 = n /\ n <= N
      BY <1>1, <3>1
    <3>3. R[n + 1] = FindTurn(R[n][1], R[n][2])
      BY <1>3, <3>2 DEF FindTurns, N
    <3>4. Good(n, R[n][1], R[n][2])
      BY <2>2, <3>2
    <3> QED
      BY <1>7, <3>3, <3>4
  <2> HIDE DEF Fine
  <2>3. Nat \subseteq Fine
    BY <2>1, <2>2, NatSteps
  <2> QED
    BY <2>3 DEF Fine
<1>9. Good(N, find(p, x)[1], find(p, x)[2])
  BY <1>1, <1>3, <1>8 DEF FindTurns, N
<1> DEFINE q == find(p, x)[1]
           y == find(p, x)[2]
<1>10. Forest(S, q) /\ Labels(S, q, L) /\ y \in S /\ L[y] = L[x] /\ q[y] = y
  <2> HIDE DEF q, y
  <2>1. Good(N, q, y)
    BY <1>9 DEF q, y
  <2>2. Forest(S, q) /\ Labels(S, q, L) /\ y \in S /\ L[y] = L[x]
        /\ (q[y] = y \/ Cardinality(Lower(y)) + N + 1 <= N)
    BY <2>1 DEF Good
  <2>3. Cardinality(Lower(y)) \in Nat
    BY <1>4, <2>2
  <2> QED
    BY <1>1, <2>2, <2>3
<1> HIDE DEF q, y
<1>11. L[y] = y
  BY <1>10 DEF Labels
<1> QED
  BY <1>10, <1>11 DEF q, y

\* The labels after the classes of x and y have become one.
Joined(S, L, x, y) ==
  [z \in S |-> IF L[z] = Max({L[x], L[y]}) THEN Min({L[x], L[y]}) ELSE L[z]]

LEMMA UnionLabels ==
  ASSUME NEW S \in SUBSET Nat, IsFiniteSet(S), NEW p, Forest(S, p), NEW L, Labels(S, p, L),
         NEW x \in S, NEW y \in S
  PROVE  Forest(S, union(p, x, y)) /\ Labels(S, union(p, x, y), Joined(S, L, x, y))
<1> DEFINE l == find(p, x)
           r == find(l[1], y)
<1>1. l[2] = L[x] /\ Forest(S, l[1]) /\ Labels(S, l[1], L)
  BY FindLabels
<1>2. r[2] = L[y] /\ Forest(S, r[1]) /\ Labels(S, r[1], L)
  <2> HIDE DEF l
  <2> QED BY <1>1, FindLabels
<1> DEFINE q == r[1]
           a == Min({L[x], L[y]})
           b == Max({L[x], L[y]})
<1>3. union(p, x, y) = IF a = b THEN q ELSE [q EXCEPT ![b] = a]
  <2>1. union(p, x, y) = LET c == Min({l[2], r[2]})
                             d == Max({l[2], r[2]})
                         IN IF c = d THEN r[1] ELSE [r[1] EXCEPT ![d] = c]
    BY Zenon DEF union
  <2> HIDE DEF l, r
  <2> QED
    BY <1>1, <1>2, <2>1
<1>4. \A z \in S : L[z] \in S /\ L[z] \in Nat /\ L[z] <= z /\ L[L[z]] = L[z]
  <2>1. \A z \in S : L[z] \in S /\ L[z] <= z /\ L[L[z]] = L[z]
    BY LabelsAreRoots
  <2> QED
    BY <2>1
<1>5. Forest(S, q) /\ Labels(S, q, L)
  BY <1>2
<1>6. a \in {L[x], L[y]} /\ b \in {L[x], L[y]} /\ a <= L[x] /\ a <= L[y] /\ b >= L[x] /\ b >= L[y]
  <2>1. L[x] \in Int /\ L[y] \in Int
    BY <1>4
  <2> QED
    BY <2>1, OfTwo
<1> HIDE DEF q, a, b, l, r
<1>7. a \in S /\ b \in S /\ a \in Nat /\ b \in Nat /\ L[a] = a /\ L[b] = b /\ a <= b
  BY <1>4, <1>6
<1>8. q \in [S -> S] /\ (\A z \in S : q[z] <= z) /\ L \in [S -> S]
      /\ \A z \in S : L[z] = IF q[z] = z THEN z ELSE L[q[z]]
  BY <1>5 DEF Forest, Labels
<1> DEFINE M == [z \in S |-> IF L[z] = b THEN a ELSE L[z]]
<1>9. M \in [S -> S] /\ \A z \in S : M[z] = IF L[z] = b THEN a ELSE L[z]
  BY <1>4, <1>7
<1>10. M = Joined(S, L, x, y)
  BY DEF Joined, a, b
<1> HIDE DEF M
<1>11. CASE a = b
  <2>1. M = L
    <3>1. \A z \in S : M[z] = L[z]
      BY <1>9, <1>11
    <3>2. M = [z \in S |-> M[z]] /\ L = [z \in S |-> L[z]]
      BY <1>8, <1>9
    <3> QED
      BY <3>1, <3>2
  <2> QED
    BY <1>3, <1>5, <1>10, <1>11, <2>1
<1>12. CASE a # b
  <2> DEFINE h == [q EXCEPT ![b] = a]
  <2>1. h \in [S -> S] /\ h[b] = a /\ \A z \in S : z # b => h[z] = q[z]
    BY <1>7, <1>8
  <2> HIDE DEF h
  <2>2. \A z \in S : h[z] <= z
    BY <1>7, <1>8, <2>1
  <2>3. \A z \in S : M[z] = IF h[z] = z THEN z ELSE M[h[z]]
    <3>1. TAKE z \in S
    <3>2. CASE z = b
      BY <1>7, <1>9, <1>12, <2>1, <3>2
    <3>3. CASE z # b
      <4>1. h[z] = q[z] /\ q[z] \in S
        BY <1>8, <2>1, <3>3
      <4>2. CASE q[z] = z
        <5>1. L[z] = z
          BY <1>8, <4>2
        <5> QED
          BY <1>9, <3>3, <4>1, <4>2, <5>1
      <4>3. CASE q[z] # z
        <5>1. L[z] = L[q[z]]
          BY <1>8, <4>3
        <5> QED
          BY <1>9, <4>1, <4>3, <5>1
      <4> QED
        BY <4>2, <4>3
    <3> QED
      BY <3>2, <3>3
  <2>4. Forest(S, h) /\ Labels(S, h, M)
    BY <1>9, <2>1, <2>2, <2>3 DEF Forest, Labels
  <2> QED
    BY <1>3, <1>10, <1>12, <2>4 DEF h
<1> QED
  BY <1>11, <1>12

LabelClass(S, L, x) == {y \in S : L[y] = L[x]}
LabelClasses(S, L) == {LabelClass(S, L, x) : x \in S}
\* The pairs join what L gives one label, and nothing else does.
Spanned(S, L, pairs) ==
  /\ L \in [S -> S]
  /\ \A p \in pairs : p[1] \in S /\ p[2] \in S /\ L[p[1]] = L[p[2]]
  /\ \A T \in SUBSET S : (\A p \in pairs : p[1] \in T <=> p[2] \in T) =>
       \A x, y \in S : x \in T /\ L[x] = L[y] => y \in T

LEMMA GroupsByLabel ==
  ASSUME NEW S \in SUBSET Nat, IsFiniteSet(S), NEW p, Forest(S, p), NEW L, Labels(S, p, L)
  PROVE  Groups(p) = LabelClasses(S, L) /\ \A x \in S : root(p, x) = L[x]
<1>1. ASSUME NEW x \in S PROVE root(p, x) = L[x]
  <2>1. find(p, x)[2] = L[x]
    BY FindLabels
  <2> QED
    BY <2>1 DEF root
<1>2. DOMAIN p = S
  BY DEF Forest
<1>3. \A x \in S : {y \in DOMAIN p : root(p, y) = root(p, x)} = LabelClass(S, L, x)
  BY <1>1, <1>2 DEF LabelClass
<1>4. Groups(p) = {{y \in DOMAIN p : root(p, y) = root(p, x)} : x \in S}
  BY <1>2 DEF Groups
<1>5. Groups(p) = {LabelClass(S, L, x) : x \in S}
  BY <1>3, <1>4
<1> QED
  BY <1>1, <1>5 DEF LabelClasses

LEMMA NothingJoined ==
  ASSUME NEW S
  PROVE  Spanned(S, [x \in S |-> x], {})
BY DEF Spanned

LEMMA JoinedSpan ==
  ASSUME NEW S \in SUBSET Nat, NEW L, NEW pairs, Spanned(S, L, pairs), NEW x \in S, NEW y \in S
  PROVE  Spanned(S, Joined(S, L, x, y), pairs \cup {<<x, y>>})
<1> DEFINE a == Min({L[x], L[y]})
           b == Max({L[x], L[y]})
           M == Joined(S, L, x, y)
<1>1. L \in [S -> S] /\ L[x] \in S /\ L[y] \in S
  BY DEF Spanned
<1>2. a \in {L[x], L[y]} /\ b \in {L[x], L[y]} /\ {a, b} = {L[x], L[y]} /\ a \in S /\ b \in S
  <2>1. L[x] \in Int /\ L[y] \in Int
    <3>1. \A z \in S : z \in Int
      OBVIOUS
    <3> QED
      BY <1>1, <3>1
  <2>2. a \in {L[x], L[y]} /\ a <= L[x] /\ a <= L[y] /\ b \in {L[x], L[y]} /\ b >= L[x] /\ b >= L[y]
    BY <2>1, OfTwo
  <2> HIDE DEF a, b
  <2>3. {a, b} = {L[x], L[y]}
    BY <2>1, <2>2
  <2> QED
    BY <1>1, <2>2, <2>3
<1>3. M \in [S -> S] /\ \A z \in S : M[z] = IF L[z] = b THEN a ELSE L[z]
  BY <1>1, <1>2 DEF Joined
<1> HIDE DEF a, b, M
<1>4. M[x] = a /\ M[y] = a
  BY <1>2, <1>3
<1>5. ASSUME NEW p \in pairs \cup {<<x, y>>} PROVE p[1] \in S /\ p[2] \in S /\ M[p[1]] = M[p[2]]
  <2>1. CASE p = <<x, y>>
    BY <1>4, <2>1
  <2>2. CASE p \in pairs
    <3>1. p[1] \in S /\ p[2] \in S /\ L[p[1]] = L[p[2]]
      BY <2>2 DEF Spanned
    <3> QED
      BY <1>3, <3>1
  <2> QED
    BY <1>5, <2>1, <2>2
<1>6. ASSUME NEW T \in SUBSET S, \A p \in pairs \cup {<<x, y>>} : p[1] \in T <=> p[2] \in T,
             NEW u \in S, NEW v \in S, u \in T, M[u] = M[v]
      PROVE  v \in T
  <2>1. \A c, d \in S : c \in T /\ L[c] = L[d] => d \in T
    BY <1>6 DEF Spanned
  <2>2. x \in T <=> y \in T
    <3>1. <<x, y>> \in pairs \cup {<<x, y>>} /\ <<x, y>>[1] = x /\ <<x, y>>[2] = y
      OBVIOUS
    <3> QED
      BY <1>6, <3>1
  <2>3. CASE L[u] = L[v]
    BY <1>6, <2>1, <2>3
  <2>4. CASE L[u] # L[v]
    <3>1. L[u] \in {a, b} /\ L[v] \in {a, b}
      BY <1>3, <1>6, <2>4
    <3>2. (L[u] = L[x] \/ L[u] = L[y]) /\ (L[v] = L[x] \/ L[v] = L[y])
      BY <1>2, <3>1
    <3>3. x \in T /\ y \in T
      BY <1>6, <2>1, <2>2, <3>2
    <3> QED
      BY <2>1, <3>2, <3>3
  <2> QED
    BY <2>3, <2>4
<1> QED
  BY <1>3, <1>5, <1>6 DEF Spanned, M

LEMMA ClosureByLabel ==
  ASSUME NEW S, IsFiniteSet(S), NEW L, NEW pairs, Spanned(S, L, pairs)
  PROVE  Closure(S, pairs) = LabelClasses(S, L)
<1> DEFINE N == Cardinality(S)
           U == SUBSET SUBSET S
           Meeting(c, d) == \E p \in pairs : {p[1], p[2]} \cap c # {} /\ {p[1], p[2]} \cap d # {}
           Grown(last) == {c \cup UNION {d \in last : \E p \in pairs : {p[1], p[2]} \cap c # {}
                                                                 /\ {p[1], p[2]} \cap d # {}} : c \in last}
           next == [s \in Nat \X U |-> Grown(s[2])]
           Def(f) == [n \in 0..N |->
             IF n = 0 THEN {{x} : x \in S}
             ELSE LET last == f[n-1] IN
                  {c \cup UNION {d \in last : \E p \in pairs : {p[1], p[2]} \cap c # {}
                                                          /\ {p[1], p[2]} \cap d # {}} : c \in last}]
           F == CHOOSE f : f = Def(f)
           Class(x) == LabelClass(S, L, x)
<1>1. N \in Nat
  BY FS_CardinalityType
<1>2. next \in [Nat \X U -> U]
  <2>1. SUFFICES ASSUME NEW T \in U PROVE Grown(T) \in U
    OBVIOUS
  <2> QED
    BY <2>1
<1>3. \A n \in Nat : \A T \in U : next[<<n, T>>] = Grown(T)
  OBVIOUS
<1>4. {{x} : x \in S} \in U
  OBVIOUS
<1> HIDE DEF N, U, next, Grown
<1>5. PICK R \in [0..N -> U] : Steps(next, {{x} : x \in S}, R, N)
  BY <1>1, <1>2, <1>4, StepsExist
<1>6. \A n \in 1..N : n \in 0..N /\ n - 1 \in 0..N /\ n \in Nat /\ n # 0 /\ R[n - 1] \in U
  BY <1>1, <1>5
<1>7. R[0] = {{x} : x \in S} /\ \A n \in 1..N : R[n] = Grown(R[n - 1])
  BY <1>3, <1>5, <1>6 DEF Steps
<1>8. R = Def(R)
  <2>1. \A n \in 0..N : n # 0 => n \in 1..N
    BY <1>1
  <2>2. \A n \in 0..N : R[n] = IF n = 0 THEN {{x} : x \in S} ELSE Grown(R[n-1])
    BY <1>7, <2>1
  <2> QED
    BY <1>5, <2>2 DEF Grown
<1>9. F = Def(F)
  <2> HIDE DEF Def
  <2> QED BY <1>8
<1>10. F[0] = {{x} : x \in S} /\ \A n \in 1..N : F[n] = Grown(F[n - 1])
  <2>1. 0 \in 0..N /\ \A n \in 1..N : n \in 0..N /\ n # 0
    BY <1>1
  <2>2. \A n \in 0..N : F[n] = IF n = 0 THEN {{x} : x \in S} ELSE Grown(F[n-1])
    <3> HIDE DEF F
    <3> QED
      BY <1>9 DEF Grown
  <2> HIDE DEF F
  <2> QED
    BY <2>1, <2>2
<1>11. Closure(S, pairs) = F[N]
  BY Zenon DEF Closure, N
<1> HIDE DEF F, Def, Class
<1>12. \A x, y \in S : y \in Class(x) <=> L[y] = L[x]
  BY DEF Class, LabelClass
<1>13. \A x \in S : Class(x) \subseteq S /\ x \in Class(x) /\ IsFiniteSet(Class(x))
  <2>1. \A x \in S : Class(x) \subseteq S /\ x \in Class(x)
    BY DEF Class, LabelClass
  <2> QED
    BY <2>1, FS_Subset
<1>14. \A p \in pairs : p[1] \in S /\ p[2] \in S /\ L[p[1]] = L[p[2]]
  BY DEF Spanned
<1> DEFINE Within(n, x, c) ==
             x \in c /\ c \subseteq Class(x) /\ (c = Class(x) \/ Cardinality(c) >= n + 1)
           Good(n, C) == /\ \A c \in C : \E x \in S : Within(n, x, c)
                         /\ \A x \in S : \E c \in C : x \in c
<1>15. Good(0, F[0])
  <2>1. \A x \in S : Within(0, x, {x})
    <3>1. TAKE x \in S
    <3>2. Cardinality({x}) = 1
      BY FS_Singleton
    <3>3. Cardinality({x}) >= 0 + 1
      BY <3>2
    <3> QED
      BY <1>13, <3>3
  <2> QED
    BY <1>10, <2>1
<1>16. ASSUME NEW n \in Nat, NEW C, Good(n, C) PROVE Good(n + 1, Grown(C))
  <2>1. ASSUME NEW c \in C
        PROVE  \E x \in S : Within(n + 1, x, c \cup UNION {d \in C : Meeting(c, d)})
    <3> DEFINE e == c \cup UNION {d \in C : Meeting(c, d)}
    <3>1. PICK x \in S : Within(n, x, c)
      BY <1>16, <2>1
    <3>2. ASSUME NEW d \in C, Meeting(c, d) PROVE d \subseteq Class(x)
      <4>1. PICK p \in pairs : {p[1], p[2]} \cap c # {} /\ {p[1], p[2]} \cap d # {}
        BY <3>2
      <4>2. PICK z \in S : z \in d /\ d \subseteq Class(z)
        BY <1>16, <3>2
      <4>3. L[p[1]] = L[x]
        BY <1>12, <1>14, <3>1, <4>1
      <4>4. L[p[1]] = L[z]
        BY <1>12, <1>14, <4>1, <4>2
      <4>5. Class(z) = Class(x)
        BY <4>3, <4>4 DEF Class, LabelClass
      <4> QED
        BY <4>2, <4>5
    <3>3. x \in e /\ e \subseteq Class(x) /\ c \subseteq e
      BY <3>1, <3>2
    <3>4. CASE c = Class(x)
      <4>1. e = Class(x)
        BY <3>3, <3>4
      <4> QED
        BY <3>3, <4>1
    <3>5. CASE c # Class(x)
      <4>1. c \in SUBSET S /\ IsFiniteSet(c) /\ IsFiniteSet(e) /\ Cardinality(c) >= n + 1
        <5>1. c \subseteq S
          BY <1>13, <3>1
        <5> HIDE DEF e
        <5> QED
          BY <1>13, <3>1, <3>3, <3>5, <5>1, FS_Subset
      <4>2. PICK p \in pairs : ~(p[1] \in c <=> p[2] \in c)
        <5>1. SUFFICES ASSUME \A p \in pairs : p[1] \in c <=> p[2] \in c PROVE FALSE
          OBVIOUS
        <5>2. \A y, z \in S : y \in c /\ L[y] = L[z] => z \in c
          BY <4>1, <5>1 DEF Spanned
        <5>3. Class(x) \subseteq c
          BY <1>12, <1>13, <3>1, <5>2
        <5> QED
          BY <3>1, <3>5, <5>3
      <4>3. PICK w \in S : w \notin c /\ w \in {p[1], p[2]}
        BY <1>14, <4>2
      <4>4. PICK d \in C : w \in d
        BY <1>16
      <4>5. Meeting(c, d)
        BY <4>2, <4>3, <4>4
      <4>6. w \in e
        BY <4>4, <4>5
      <4> HIDE DEF e
      <4>7. Cardinality(e) > Cardinality(c)
        <5>1. c \in SUBSET e /\ c # e
          BY <3>3, <4>3, <4>6
        <5> QED
          BY <4>1, <5>1, FS_Subset, FS_CardinalityType
      <4>8. Cardinality(e) >= (n + 1) + 1
        BY <4>1, <4>7, FS_CardinalityType
      <4> QED
        BY <3>3, <4>8 DEF e
    <3> QED
      BY <3>4, <3>5
  <2>2. \A x \in S : \E c \in Grown(C) : x \in c
    <3>1. TAKE x \in S
    <3>2. PICK c \in C : x \in c
      BY <1>16
    <3>3. c \cup UNION {d \in C : Meeting(c, d)} \in Grown(C)
      BY DEF Grown
    <3> QED
      BY <3>2, <3>3
  <2>3. \A e \in Grown(C) : \E c \in C : e = c \cup UNION {d \in C : Meeting(c, d)}
    BY DEF Grown
  <2> HIDE DEF Within, Meeting
  <2>4. \A e \in Grown(C) : \E x \in S : Within(n + 1, x, e)
    <3>1. TAKE e \in Grown(C)
    <3>2. PICK c \in C : e = c \cup UNION {d \in C : Meeting(c, d)}
      BY <2>3
    <3>3. \E x \in S : Within(n + 1, x, c \cup UNION {d \in C : Meeting(c, d)})
      BY <2>1
    <3> QED
      BY <3>2, <3>3
  <2> QED
    BY <2>2, <2>4
<1> HIDE DEF Good
<1>17. \A n \in Nat : n <= N => Good(n, F[n])
  <2> DEFINE Fine == {n \in Nat : n <= N => Good(n, F[n])}
  <2>1. 0 \in Fine
    BY <1>15
  <2>2. ASSUME NEW n \in Nat, n \in Fine PROVE n + 1 \in Fine
    <3>1. SUFFICES ASSUME n + 1 <= N PROVE Good(n + 1, F[n + 1])
      OBVIOUS
    <3>2. n + 1 \in 1..N /\ (n + 1) - 1 = n /\ n <= N
      BY <1>1, <3>1
    <3>3. F[n + 1] = Grown(F[n]) /\ Good(n, F[n])
      BY <1>10, <2>2, <3>2
    <3> QED
      BY <1>16, <3>3
  <2> HIDE DEF Fine
  <2>3. Nat \subseteq Fine
    BY <2>1, <2>2, NatSteps
  <2> QED
    BY <2>3 DEF Fine
<1>18. Good(N, F[N])
  BY <1>1, <1>17
<1>19. \A c \in F[N] : \E x \in S : x \in c /\ c = Class(x)
  <2>1. SUFFICES ASSUME NEW c \in F[N] PROVE \E x \in S : x \in c /\ c = Class(x)
    OBVIOUS
  <2>2. PICK x \in S : Within(N, x, c)
    BY <1>18, <2>1 DEF Good
  <2>3. c \in SUBSET S
    BY <1>13, <2>2
  <2>4. Cardinality(c) \in Nat /\ Cardinality(c) <= N
    BY <2>3, FS_Subset, FS_CardinalityType DEF N
  <2> QED
    BY <1>1, <2>2, <2>4
<1>20. \A x \in S : Class(x) \in F[N]
  <2>1. TAKE x \in S
  <2>2. PICK c \in F[N] : x \in c
    BY <1>18, <2>1 DEF Good
  <2>3. PICK y \in S : c = Class(y)
    BY <1>19, <2>2
  <2>4. L[x] = L[y]
    BY <1>12, <2>2, <2>3
  <2>5. Class(x) = Class(y)
    BY <2>4 DEF Class, LabelClass
  <2> QED
    BY <2>2, <2>3, <2>5
<1>21. F[N] = LabelClasses(S, L)
  BY <1>19, <1>20 DEF LabelClasses, Class
<1> QED
  BY <1>11, <1>21

-----------------------------------------------------------------------------
(* map_connectivity_components: the nets are the classes of the matched paths. *)

Paired(path) == Cardinality(path[1]) = 1 /\ Cardinality(path[2]) = 1
PathPairs == {<<Min(p[1]), Min(p[2])>> : p \in {p \in ToSet(design.paths) : Paired(p)}}
\* The parents p after some paths, whose pairs are the given ones.
Follows(S, p, pairs) == Forest(S, p) /\ \E L : Labels(S, p, L) /\ Spanned(S, L, pairs)

LEMMA FollowsUnion ==
  ASSUME NEW S \in SUBSET Nat, IsFiniteSet(S), NEW p, NEW pairs, Follows(S, p, pairs),
         NEW x \in S, NEW y \in S
  PROVE  Follows(S, union(p, x, y), pairs \cup {<<x, y>>})
<1>1. PICK L : Labels(S, p, L) /\ Spanned(S, L, pairs)
  BY DEF Follows
<1>2. Forest(S, union(p, x, y)) /\ Labels(S, union(p, x, y), Joined(S, L, x, y))
  BY <1>1, UnionLabels DEF Follows
<1>3. Spanned(S, Joined(S, L, x, y), pairs \cup {<<x, y>>})
  BY <1>1, JoinedSpan
<1> QED
  BY <1>2, <1>3 DEF Follows

LEMMA FollowsNothing ==
  ASSUME NEW S \in SUBSET Nat
  PROVE  Follows(S, [x \in S |-> x], {})
<1>1. Forest(S, [x \in S |-> x]) /\ Labels(S, [x \in S |-> x], [x \in S |-> x])
  BY DEF Forest, Labels
<1> QED
  BY <1>1, NothingJoined DEF Follows

LEMMA FollowsClosure ==
  ASSUME NEW S \in SUBSET Nat, IsFiniteSet(S), NEW p, NEW pairs, Follows(S, p, pairs)
  PROVE  /\ Groups(p) = Closure(S, pairs) /\ p \in [S -> S]
         /\ \A x \in S : p[x] <= x /\ root(p, x) \in S /\ root(p, x) <= p[x]
         /\ \A x, y \in S : root(p, x) = root(p, y) => x \in {z \in S : root(p, z) = root(p, y)}
<1>1. PICK L : Labels(S, p, L) /\ Spanned(S, L, pairs)
  BY DEF Follows
<1>2. Forest(S, p)
  BY DEF Follows
<1>3. Groups(p) = LabelClasses(S, L) /\ \A x \in S : root(p, x) = L[x]
  BY <1>1, <1>2, GroupsByLabel
<1>4. Closure(S, pairs) = LabelClasses(S, L)
  BY <1>1, ClosureByLabel
<1>5. \A x \in S : L[x] \in S /\ L[x] <= p[x]
  BY <1>1, <1>2, LabelsAreRoots
<1>6. p \in [S -> S] /\ \A x \in S : p[x] <= x
  BY <1>2 DEF Forest
<1> QED
  BY <1>3, <1>4, <1>5, <1>6

LEMMA MatchedObjects ==
  ASSUME design \in Designs
  PROVE  /\ matched \in SUBSET LayoutObjects /\ matched \in SUBSET Nat /\ IsFiniteSet(matched)
         /\ design.paths \in Seq((SUBSET LayoutObjects) \X (SUBSET LayoutObjects))
         /\ \A p \in ToSet(design.paths) : Paired(p) => Min(p[1]) \in matched /\ Min(p[2]) \in matched
<1>1. design.paths \in Seq((SUBSET LayoutObjects) \X (SUBSET LayoutObjects))
  BY LayoutAssumption
<1>2. \A p \in ToSet(design.paths) : p[1] \in SUBSET LayoutObjects /\ p[2] \in SUBSET LayoutObjects
  BY <1>1 DEF ToSet
<1>3. matched \in SUBSET LayoutObjects
  <2>1. SUFFICES ASSUME NEW i \in {1, 2}, NEW p \in ToSet(design.paths)
                 PROVE  (IF Cardinality(p[i]) = 1 THEN p[i] ELSE {}) \subseteq LayoutObjects
    BY DEF matched
  <2> QED
    BY <1>2
<1>4. matched \in SUBSET Nat /\ IsFiniteSet(matched)
  <2>1. LayoutObjects \subseteq Nat /\ IsFiniteSet(LayoutObjects)
    BY LayoutAssumption
  <2> QED
    BY <1>3, <2>1, FS_Subset
<1>5. ASSUME NEW p \in ToSet(design.paths), Paired(p), NEW i \in {1, 2}
      PROVE  Min(p[i]) \in matched
  <2>1. p[i] \in SUBSET LayoutObjects /\ Cardinality(p[i]) = 1
    BY <1>2, <1>5 DEF Paired
  <2>2. IsFiniteSet(p[i]) /\ p[i] # {} /\ p[i] \in SUBSET Int
    <3>1. LayoutObjects \subseteq Nat /\ IsFiniteSet(LayoutObjects)
      BY LayoutAssumption
    <3>2. IsFiniteSet(p[i])
      BY <2>1, <3>1, FS_Subset
    <3>3. p[i] # {}
      BY <2>1, <3>2, FS_EmptySet
    <3>4. \A o \in Nat : o \in Int
      OBVIOUS
    <3>5. p[i] \in SUBSET Int
      BY <2>1, <3>1, <3>4
    <3> QED
      BY <3>2, <3>3, <3>5
  <2>3. Min(p[i]) \in p[i]
    BY <2>2, LeastAndGreatest
  <2>4. p[i] \subseteq matched
    BY <1>5, <2>1 DEF matched
  <2> QED
    BY <2>3, <2>4
<1> QED
  BY <1>1, <1>3, <1>4, <1>5

LEMMA ComponentsFollow ==
  ASSUME design \in Designs
  PROVE  Follows(matched, components, PathPairs)
<1> DEFINE S == matched
           paths == design.paths
           N == Len(design.paths)
           U == {p \in [S -> S] : Forest(S, p)}
           next == [s \in Nat \X U |-> IF s[1] \in 1..N THEN connect(s[2], paths[s[1]]) ELSE s[2]]
           start == [o \in S |-> o]
           Def(f) == [n \in 0..N |-> IF n = 0 THEN [o \in S |-> o] ELSE connect(f[n-1], paths[n])]
           F == CHOOSE f : f = Def(f)
           pairs(n) == {<<Min(paths[i][1]), Min(paths[i][2])>> : i \in {i \in 1..n : Paired(paths[i])}}
<1>1. /\ S \in SUBSET Nat /\ IsFiniteSet(S) /\ N \in Nat
      /\ \A n \in 1..N : paths[n] \in ToSet(paths)
      /\ \A n \in 1..N : Paired(paths[n]) => Min(paths[n][1]) \in S /\ Min(paths[n][2]) \in S
  BY MatchedObjects DEF ToSet
<1> HIDE DEF S, N, paths
<1>2. next \in [Nat \X U -> U]
  <2>1. SUFFICES ASSUME NEW n \in 1..N, NEW p \in U PROVE connect(p, paths[n]) \in U
    OBVIOUS
  <2>2. CASE ~Paired(paths[n])
    BY <2>1, <2>2 DEF connect, Paired
  <2>3. CASE Paired(paths[n])
    <3>1. connect(p, paths[n]) = union(p, Min(paths[n][1]), Min(paths[n][2]))
      BY <2>3 DEF connect, Paired
    <3>2. PICK L : Labels(S, p, L)
      BY <1>1, LabelsExist
    <3>3. Min(paths[n][1]) \in S /\ Min(paths[n][2]) \in S
      BY <1>1, <2>3
    <3>4. Forest(S, union(p, Min(paths[n][1]), Min(paths[n][2])))
      BY <1>1, <3>2, <3>3, UnionLabels
    <3> QED
      BY <3>1, <3>4 DEF Forest
  <2> QED
    BY <2>2, <2>3
<1>3. \A n \in 1..N : \A p \in U : next[<<n, p>>] = connect(p, paths[n])
  <2>1. \A n \in 1..N : n \in Nat
    OBVIOUS
  <2> QED
    BY <2>1
<1>4. start \in U
  BY <1>1 DEF Forest
<1> HIDE DEF U, next
<1>5. PICK R \in [0..N -> U] : Steps(next, start, R, N)
  <2> HIDE DEF start
  <2> QED BY <1>1, <1>2, <1>4, StepsExist
<1>6. \A n \in 1..N : n \in 0..N /\ n - 1 \in 0..N /\ n # 0 /\ R[n - 1] \in U
  BY <1>1, <1>5
<1>7. R[0] = start /\ \A n \in 1..N : R[n] = connect(R[n - 1], paths[n])
  BY <1>3, <1>5, <1>6 DEF Steps
<1>8. R = Def(R)
  <2>1. \A n \in 0..N : n # 0 => n \in 1..N
    BY <1>1
  <2>2. \A n \in 0..N : R[n] = IF n = 0 THEN [o \in S |-> o] ELSE connect(R[n-1], paths[n])
    BY <1>7, <2>1
  <2> QED
    BY <1>5, <2>2
<1>9. F = Def(F)
  <2> HIDE DEF Def
  <2> QED BY <1>8
<1>10. F[0] = [o \in S |-> o] /\ \A n \in 1..N : F[n] = connect(F[n - 1], paths[n])
  <2>1. 0 \in 0..N /\ \A n \in 1..N : n \in 0..N /\ n # 0
    BY <1>1
  <2> HIDE DEF F
  <2> QED
    BY <1>9, <2>1
<1>11. components = F[N]
  BY Zenon DEF components, S, N, paths
<1> HIDE DEF F, Def
<1>12. \A n \in Nat : n <= N => Follows(S, F[n], pairs(n))
  <2> DEFINE Fine == {n \in Nat : n <= N => Follows(S, F[n], pairs(n))}
  <2>1. 0 \in Fine
    <3>1. pairs(0) = {}
      OBVIOUS
    <3> HIDE DEF pairs
    <3> QED
      BY <1>1, <1>10, <3>1, FollowsNothing
  <2>2. ASSUME NEW n \in Nat, n \in Fine PROVE n + 1 \in Fine
    <3>1. SUFFICES ASSUME n + 1 <= N PROVE Follows(S, F[n + 1], pairs(n + 1))
      OBVIOUS
    <3>2. n + 1 \in 1..N /\ (n + 1) - 1 = n /\ n <= N
      BY <1>1, <3>1
    <3>3. F[n + 1] = connect(F[n], paths[n + 1]) /\ Follows(S, F[n], pairs(n))
      BY <1>10, <2>2, <3>2
    <3>4. 1..(n + 1) = 1..n \cup {n + 1}
      OBVIOUS
    <3>5. CASE ~Paired(paths[n + 1])
      <4>1. pairs(n + 1) = pairs(n)
        BY <3>4, <3>5
      <4>2. F[n + 1] = F[n]
        BY <3>3, <3>5 DEF connect, Paired
      <4> QED
        BY <3>3, <4>1, <4>2
    <3>6. CASE Paired(paths[n + 1])
      <4> DEFINE x == Min(paths[n + 1][1])
                 y == Min(paths[n + 1][2])
      <4>1. pairs(n + 1) = pairs(n) \cup {<<x, y>>}
        BY <3>4, <3>6
      <4>2. F[n + 1] = union(F[n], x, y)
        BY <3>3, <3>6 DEF connect, Paired
      <4>3. x \in S /\ y \in S
        BY <1>1, <3>2, <3>6
      <4> HIDE DEF x, y, pairs
      <4>4. Follows(S, union(F[n], x, y), pairs(n) \cup {<<x, y>>})
        BY <1>1, <3>3, <4>3, FollowsUnion
      <4> QED
        BY <4>1, <4>2, <4>4
    <3> QED
      BY <3>5, <3>6
  <2> HIDE DEF Fine
  <2>3. Nat \subseteq Fine
    BY <2>1, <2>2, NatSteps
  <2> QED
    BY <2>3 DEF Fine
<1>13. pairs(N) = PathPairs
  <2>1. ToSet(paths) = {paths[i] : i \in 1..N}
    <3>1. DOMAIN paths = 1..N
      BY MatchedObjects DEF paths, N
    <3> QED
      BY <3>1 DEF ToSet
  <2>2. PathPairs = {<<Min(p[1]), Min(p[2])>> : p \in {p \in ToSet(paths) : Paired(p)}}
    BY DEF PathPairs, paths
  <2> QED
    BY <2>1, <2>2
<1> HIDE DEF pairs
<1>14. Follows(S, F[N], PathPairs)
  BY <1>1, <1>12, <1>13
<1> QED
  BY <1>11, <1>14 DEF S

LEMMA HalvesFacts ==
  ASSUME SitesKnown, NEW h \in SUBSET Reported, h # {}
  PROVE  /\ UNION halves(h) = h
         /\ \A a \in halves(h) : a \in SUBSET h /\ a # {}
         /\ \A a, b \in halves(h) : a # b => a \cap b = {}
         /\ settled(h) => halves(h) = {h}
         /\ ~settled(h) => \A a \in halves(h) : Cardinality(a) < Cardinality(h)
<1>1. CASE settled(h)
  <2>1. halves(h) = {h}
    BY <1>1 DEF halves
  <2> QED
    BY <1>1, <2>1
<1>2. CASE ~settled(h)
  <2>1. PICK a \in SUBSET h, b \in SUBSET h : /\ halves(h) = {a, b} /\ a \cup b = h /\ a \cap b = {}
                                              /\ a # {} /\ b # {}
    BY <1>2, HalvesPart
  <2>2. a # h /\ b # h
    BY <2>1
  <2>3. IsFiniteSet(h)
    BY LayoutAssumption, FS_Subset
  <2>4. \A c \in SUBSET h : c # h => Cardinality(c) < Cardinality(h)
    <3>1. TAKE c \in SUBSET h
    <3>2. HAVE c # h
    <3>3. IsFiniteSet(c) /\ Cardinality(c) <= Cardinality(h) /\ Cardinality(c) # Cardinality(h)
      BY <2>3, <3>2, FS_Subset
    <3>4. Cardinality(c) \in Nat /\ Cardinality(h) \in Nat
      BY <2>3, <3>3, FS_CardinalityType
    <3> QED
      BY <3>3, <3>4
  <2>5. \A c \in halves(h) : Cardinality(c) < Cardinality(h)
    BY <2>1, <2>2, <2>4
  <2> QED
    BY <1>2, <2>1, <2>5
<1> QED
  BY <1>1, <1>2

\* The parts of g after n rounds.
PartsAfter(g, n, T) ==
  /\ T \in SUBSET SUBSET Reported /\ UNION T = g
  /\ \A a \in T : a # {} /\ (settled(a) \/ Cardinality(a) + n <= Cardinality(g))
  /\ \A a, b \in T : a # b => a \cap b = {}

LEMMA OneRound ==
  ASSUME SitesKnown, NEW g \in SUBSET Reported, NEW n \in Nat, NEW T, PartsAfter(g, n, T)
  PROVE  PartsAfter(g, n + 1, UNION {halves(h) : h \in T})
<1> DEFINE Next1 == UNION {halves(h) : h \in T}
<1>1. T \in SUBSET SUBSET Reported /\ UNION T = g
  BY DEF PartsAfter
<1>2. \A h \in T : /\ UNION halves(h) = h
                   /\ \A a \in halves(h) : a \in SUBSET h /\ a # {}
                   /\ \A a, b \in halves(h) : a # b => a \cap b = {}
  <2>1. TAKE h \in T
  <2>2. h \in SUBSET Reported /\ h # {}
    BY <1>1 DEF PartsAfter
  <2> QED
    BY <2>2, HalvesFacts
<1>3. \A a \in Next1 : \E h \in T : a \in halves(h)
  OBVIOUS
<1>4. Next1 \in SUBSET SUBSET Reported
  BY <1>1, <1>2
<1>5. UNION Next1 = g
  <2>1. \A x \in g : \E h \in T : x \in UNION halves(h)
    BY <1>1, <1>2
  <2>2. \A h \in T : UNION halves(h) \subseteq g
    BY <1>1, <1>2
  <2> QED
    BY <2>1, <2>2
<1>6. \A a \in Next1 : a # {} /\ (settled(a) \/ Cardinality(a) + (n + 1) <= Cardinality(g))
  <2>1. TAKE a \in Next1
  <2>2. PICK h \in T : a \in halves(h)
    BY <1>3
  <2>3. h \in SUBSET Reported /\ h # {} /\ (settled(h) \/ Cardinality(h) + n <= Cardinality(g))
    BY <1>1, <2>2 DEF PartsAfter
  <2>4. a \in SUBSET Reported
    BY <1>4
  <2>5. Cardinality(a) \in Nat /\ Cardinality(h) \in Nat /\ Cardinality(g) \in Nat
    BY <2>3, <2>4, LayoutAssumption, FS_Subset, FS_CardinalityType
  <2>6. CASE settled(h)
    <3>1. a = h
      BY <2>2, <2>3, <2>6, HalvesFacts
    <3> QED
      BY <2>3, <2>6, <3>1
  <2>7. CASE ~settled(h)
    <3>1. Cardinality(a) < Cardinality(h) /\ a # {}
      BY <2>2, <2>3, <2>7, HalvesFacts
    <3> QED
      BY <2>3, <2>5, <2>7, <3>1
  <2> QED
    BY <2>6, <2>7
<1>7. \A a, b \in Next1 : a # b => a \cap b = {}
  <2>1. TAKE a, b \in Next1
  <2>2. HAVE a # b
  <2>3. PICK h \in T : a \in halves(h)
    BY <1>3
  <2>4. PICK k \in T : b \in halves(k)
    BY <1>3
  <2>5. CASE h = k
    BY <1>2, <2>2, <2>3, <2>4, <2>5
  <2>6. CASE h # k
    <3>1. h \cap k = {}
      BY <2>3, <2>4, <2>6 DEF PartsAfter
    <3>2. a \subseteq h /\ b \subseteq k
      BY <1>2, <2>3, <2>4
    <3> QED
      BY <3>1, <3>2
  <2> QED
    BY <2>5, <2>6
<1> HIDE DEF Next1
<1>8. PartsAfter(g, n + 1, Next1)
  BY <1>4, <1>5, <1>6, <1>7 DEF PartsAfter
<1> QED
  BY <1>8 DEF Next1

LEMMA SplitParts ==
  ASSUME SitesKnown, NEW g \in SUBSET Reported, g # {}
  PROVE  /\ UNION split(g) = g /\ split(g) \in SUBSET SUBSET Reported
         /\ \A a, b \in split(g) : a # b => a \cap b = {}
         /\ \A a \in split(g) : a # {} /\ settled(a)
         /\ settled(g) => split(g) = {g}
<1> DEFINE N == Cardinality(g)
<1>1. PICK R \in [0..N -> SUBSET SUBSET Reported] :
           /\ R[0] = {g} /\ split(g) = R[N]
           /\ \A n \in 1..N : R[n] = UNION {halves(h) : h \in R[n - 1]}
  BY SplitRounds
<1>2. N \in Nat /\ N # 0
  <2>1. IsFiniteSet(g)
    BY LayoutAssumption, FS_Subset
  <2> QED
    BY <2>1, FS_CardinalityType, FS_EmptySet
<1> HIDE DEF N
<1>3. \A n \in Nat : n <= N => PartsAfter(g, n, R[n]) /\ (settled(g) => R[n] = {g})
  <2> DEFINE Good == {n \in Nat : n <= N => PartsAfter(g, n, R[n]) /\ (settled(g) => R[n] = {g})}
  <2>1. 0 \in Good
    <3>1. PartsAfter(g, 0, {g})
      <4>1. Cardinality(g) + 0 <= Cardinality(g)
        BY <1>2 DEF N
      <4> QED
        BY <4>1 DEF PartsAfter
    <3> QED
      BY <1>1, <3>1
  <2>2. ASSUME NEW n \in Nat, n \in Good PROVE n + 1 \in Good
    <3>1. SUFFICES ASSUME n + 1 <= N
                   PROVE PartsAfter(g, n + 1, R[n + 1]) /\ (settled(g) => R[n + 1] = {g})
      OBVIOUS
    <3>2. n + 1 \in 1..N /\ (n + 1) - 1 = n /\ n <= N
      BY <1>2, <3>1
    <3>3. R[n + 1] = UNION {halves(h) : h \in R[n]}
      BY <1>1, <3>2
    <3>4. PartsAfter(g, n, R[n]) /\ (settled(g) => R[n] = {g})
      BY <2>2, <3>2
    <3>5. PartsAfter(g, n + 1, R[n + 1])
      BY <3>3, <3>4, OneRound
    <3>6. settled(g) => halves(g) = {g}
      BY DEF halves
    <3> QED
      BY <3>3, <3>4, <3>5, <3>6
  <2> HIDE DEF Good
  <2>3. Nat \subseteq Good
    BY <2>1, <2>2, NatSteps
  <2> QED
    BY <2>3 DEF Good
<1>4. PartsAfter(g, N, split(g)) /\ (settled(g) => split(g) = {g})
  BY <1>1, <1>2, <1>3
<1>5. \A a \in split(g) : settled(a)
  <2>1. TAKE a \in split(g)
  <2>2. a \in SUBSET Reported /\ a # {} /\ (settled(a) \/ Cardinality(a) + N <= N)
    BY <1>4 DEF PartsAfter, N
  <2>3. IsFiniteSet(a)
    BY <2>2, LayoutAssumption, FS_Subset
  <2>4. Cardinality(a) \in Nat /\ Cardinality(a) # 0
    BY <2>2, <2>3, FS_CardinalityType, FS_EmptySet
  <2> QED
    BY <1>2, <2>2, <2>4
<1> QED
  BY <1>4, <1>5 DEF PartsAfter

-----------------------------------------------------------------------------
(* The orders in which the pairs and the merges are looked at list each once.  *)

LEMMA CrossMultiplied ==
  ASSUME NEW a \in Int, NEW b \in Int, NEW c \in Int,
         NEW k \in Nat \ {0}, NEW m \in Nat \ {0}, NEW n \in Nat \ {0},
         a * m >= b * k, b * n >= c * m
  PROVE  /\ a * n >= c * k
         /\ a * m > b * k \/ b * n > c * m => a * n > c * k
<1>1. (a * m) * n >= (b * k) * n /\ (a * m > b * k => (a * m) * n > (b * k) * n)
  <2> DEFINE x == a * m  y == b * k
  <2>1. x \in Int /\ y \in Int /\ x >= y
    OBVIOUS
  <2> HIDE DEF x, y
  <2>2. x * n >= y * n /\ (x > y => x * n > y * n)
    BY <2>1
  <2> QED
    BY <2>2 DEF x, y
<1>2. (b * n) * k >= (c * m) * k /\ (b * n > c * m => (b * n) * k > (c * m) * k)
  <2> DEFINE x == b * n  y == c * m
  <2>1. x \in Int /\ y \in Int /\ x >= y
    OBVIOUS
  <2> HIDE DEF x, y
  <2>2. x * k >= y * k /\ (x > y => x * k > y * k)
    BY <2>1
  <2> QED
    BY <2>2 DEF x, y
<1>3. (a * m) * n = (a * n) * m /\ (b * k) * n = (b * n) * k /\ (c * m) * k = (c * k) * m
  OBVIOUS
<1> DEFINE x == a * n
           y == c * k
<1>4. x \in Int /\ y \in Int
  OBVIOUS
<1>5. x * m >= y * m /\ (a * m > b * k \/ b * n > c * m => x * m > y * m)
  <2> DEFINE r == (a * m) * n  s == (b * k) * n  t == (c * m) * k
  <2>1. r \in Int /\ s \in Int /\ t \in Int
    OBVIOUS
  <2>2. r >= s /\ (a * m > b * k => r > s)
    BY <1>1
  <2>3. s >= t /\ (b * n > c * m => s > t)
    BY <1>2, <1>3
  <2>4. x * m = r /\ y * m = t
    BY <1>3
  <2> HIDE DEF r, s, t, x, y
  <2> QED
    BY <2>1, <2>2, <2>3, <2>4
<1> HIDE DEF x, y
<1>6. x >= y /\ (x * m > y * m => x > y)
  <2>1. ASSUME x < y PROVE x * m < y * m
    BY <1>4, <2>1
  <2> QED
    BY <1>4, <1>5, <2>1
<1> QED
  BY <1>5, <1>6 DEF x, y

LEMMA PairNumbers ==
  ASSUME SitesKnown, NEW p \in Reported \X Reported
  PROVE  /\ common(p) \in Int /\ gap(p) \in Int /\ least(p) \in Int
         /\ Max({least(p), 1}) \in Nat \ {0}
         /\ p[1] \in Nat /\ p[2] \in Nat
<1>1. p[1] \in Reported /\ p[2] \in Reported /\ p[1] \in Nat /\ p[2] \in Nat
  BY LayoutAssumption
<1> DEFINE a == halo(p[1])
           b == halo(p[2])
<1>2. a \in Int \X Int /\ b \in Int \X Int
  BY <1>1 DEF SitesKnown, Sites, Interval, halo
<1>3. a[1] \in Int /\ a[2] \in Int /\ b[1] \in Int /\ b[2] \in Int
  BY <1>2
<1> HIDE DEF a, b
<1>4. gap(p) \in Int
  <2> DEFINE S == {a[1] - b[2], b[1] - a[2], 0}
  <2>1. S \in SUBSET Int /\ S # {}
    BY <1>3
  <2>2. IsFiniteSet(S)
    <3>1. S = ({a[1] - b[2]} \cup {b[1] - a[2]}) \cup {0}
      OBVIOUS
    <3> HIDE DEF S
    <3> QED
      BY <3>1, FS_Singleton, FS_Union
  <2>3. gap(p) = Max(S)
    BY DEF gap, Gap, a, b
  <2> HIDE DEF S
  <2> QED
    BY <2>1, <2>2, <2>3, LeastAndGreatest
<1>5. common(p) \in Int
  <2>1. Min({a[2], b[2]}) \in {a[2], b[2]} /\ Max({a[1], b[1]}) \in {a[1], b[1]}
    BY <1>3, OfTwo
  <2>2. Min({a[2], b[2]}) - Max({a[1], b[1]}) \in Int
    BY <1>3, <2>1
  <2>3. Max({0, Min({a[2], b[2]}) - Max({a[1], b[1]})}) \in Int
    <3>1. 0 \in Int
      OBVIOUS
    <3> QED
      BY <2>2, <3>1, OfTwo
  <2> QED
    BY <2>3 DEF common, Shared, a, b
<1>6. least(p) \in Int
  <2>1. Width(a) \in Int /\ Width(b) \in Int
    BY <1>3 DEF Width
  <2>2. Min({Width(a), Width(b)}) \in Int
    BY <2>1, OfTwo
  <2> QED
    BY <2>2 DEF least, a, b
<1>7. Max({least(p), 1}) \in Nat \ {0}
  <2>1. 1 \in Int
    OBVIOUS
  <2>2. Max({least(p), 1}) \in Int /\ Max({least(p), 1}) >= 1
    BY <1>6, <2>1, OfTwo
  <2> QED
    BY <2>2
<1> QED
  BY <1>1, <1>4, <1>5, <1>6, <1>7

LEMMA NearPairs ==
  near \in SUBSET (Reported \X Reported) /\ IsFiniteSet(near)
<1>1. near \in SUBSET (Reported \X Reported)
  BY DEF near
<1>2. IsFiniteSet(Reported \X Reported)
  BY LayoutAssumption, FS_Product
<1> QED
  BY <1>1, <1>2, FS_Subset

LEMMA PairsListed ==
  ASSUME SitesKnown
  PROVE  Ordered(near, ByIds) \in Seq(near) /\ ToSet(Ordered(near, ByIds)) = near
<1> DEFINE below == [x \in near |-> {y \in near : ByIds(y, x)}]
           s == Ordered(near, ByIds)
<1>1. below \in [near -> SUBSET near] /\ \A x \in near : below[x] = {y \in near : ByIds(y, x)}
  OBVIOUS
<1> HIDE DEF below
<1>2. IsFiniteSet(near)
  BY NearPairs
<1>3. \A x \in near : x[1] \in Nat /\ x[2] \in Nat /\ x = <<x[1], x[2]>>
  <2>1. TAKE x \in near
  <2>2. x \in Reported \X Reported
    BY NearPairs
  <2>3. x[1] \in Nat /\ x[2] \in Nat
    BY <2>2, PairNumbers
  <2> QED
    BY <2>2, <2>3
<1>4. StrictOrder(near, below)
  <2>1. ASSUME NEW x \in near, NEW y \in near, x \in below[y] PROVE below[x] \subseteq below[y]
    <3>1. ByIds(x, y)
      BY <1>1, <2>1
    <3>2. \A z \in near : ByIds(z, x) => ByIds(z, y)
      BY <1>3, <3>1 DEF ByIds
    <3> QED
      BY <1>1, <3>2
  <2>2. \A x \in near : ~ByIds(x, x)
    BY <1>3 DEF ByIds
  <2>3. \A x, y \in near : x = y \/ ByIds(x, y) \/ ByIds(y, x)
    <3>1. TAKE x, y \in near
    <3>2. x[1] = y[1] /\ x[2] = y[2] => x = y
      BY <1>3
    <3> QED
      BY <1>3, <3>2 DEF ByIds
  <2> QED
    BY <1>1, <2>1, <2>2, <2>3 DEF StrictOrder
<1>5. s = [i \in 1..Cardinality(near) |-> CHOOSE x \in near : Cardinality(below[x]) = i - 1]
  <2>1. s = [i \in 1..Cardinality(near) |-> CHOOSE x \in near : Cardinality({y \in near : ByIds(y, x)}) = i - 1]
    BY DEF Ordered
  <2>2. \A i : (CHOOSE x \in near : Cardinality({y \in near : ByIds(y, x)}) = i - 1)
             = (CHOOSE x \in near : Cardinality(below[x]) = i - 1)
    <3>1. TAKE i
    <3>2. \A x : (x \in near /\ Cardinality({y \in near : ByIds(y, x)}) = i - 1)
              <=> (x \in near /\ Cardinality(below[x]) = i - 1)
      BY <1>1
    <3> QED
      BY <3>2
  <2> QED
    BY <2>1, <2>2
<1>6. Listing(s, near, below)
  BY <1>1, <1>2, <1>4, <1>5, ListingByRank
<1> HIDE DEF s
<1>7. s \in Seq(near) /\ ToSet(s) = near
  BY <1>1, <1>2, <1>4, <1>6, Listings
<1> QED
  BY <1>7 DEF s

LEMMA CloserIsStrict ==
  ASSUME SitesKnown, NEW x \in near, NEW y \in near, NEW z \in near
  PROVE  /\ ~Closer(x, x)
         /\ Closer(x, y) /\ Closer(y, z) => Closer(x, z)
         /\ x = y \/ Closer(x, y) \/ Closer(y, x)
<1> DEFINE m(p) == Max({least(p), 1})
<1>1. \A p \in near : /\ common(p) \in Int /\ gap(p) \in Int /\ m(p) \in Nat \ {0}
                      /\ p[1] \in Nat /\ p[2] \in Nat
  BY NearPairs, PairNumbers
<1>2. \A p, q \in near : common(p) * m(q) \in Int
  <2> HIDE DEF m
  <2>1. \A i, j \in Int : i * j \in Int
    OBVIOUS
  <2>2. \A n \in Nat \ {0} : n \in Int
    OBVIOUS
  <2> QED
    BY <1>1, <2>1, <2>2
<1>3. \A p, q : Closer(p, q) <=>
        \/ common(p) * m(q) > common(q) * m(p)
        \/ common(p) * m(q) = common(q) * m(p) /\ gap(p) < gap(q)
        \/ common(p) * m(q) = common(q) * m(p) /\ gap(p) = gap(q) /\ ByIds(p, q)
  BY DEF Closer
<1> HIDE DEF m
<1>4. ~Closer(x, x)
  <2>1. ~ByIds(x, x)
    BY <1>1 DEF ByIds
  <2> DEFINE a == common(x) * m(x)
  <2>2. a \in Int /\ gap(x) \in Int
    BY <1>1, <1>2
  <2>3. ~(a > a) /\ ~(gap(x) < gap(x))
    BY <2>2
  <2> QED
    BY <1>3, <2>1, <2>3
<1>5. ASSUME Closer(x, y), Closer(y, z) PROVE Closer(x, z)
  <2> DEFINE a == common(x) * m(y)  b == common(y) * m(x)
             c == common(y) * m(z)  d == common(z) * m(y)
             e == common(x) * m(z)  f == common(z) * m(x)
  <2>1. a \in Int /\ b \in Int /\ c \in Int /\ d \in Int /\ e \in Int /\ f \in Int
    BY <1>2
  <2>2. /\ \/ a > b
           \/ a = b /\ gap(x) < gap(y)
           \/ a = b /\ gap(x) = gap(y) /\ ByIds(x, y)
        /\ \/ c > d
           \/ c = d /\ gap(y) < gap(z)
           \/ c = d /\ gap(y) = gap(z) /\ ByIds(y, z)
    <3>1. x \in near /\ y \in near /\ z \in near
      OBVIOUS
    <3>2. Closer(x, y) <=> \/ a > b
                           \/ a = b /\ gap(x) < gap(y)
                           \/ a = b /\ gap(x) = gap(y) /\ ByIds(x, y)
      BY <1>3
    <3>3. Closer(y, z) <=> \/ c > d
                           \/ c = d /\ gap(y) < gap(z)
                           \/ c = d /\ gap(y) = gap(z) /\ ByIds(y, z)
      BY <1>3
    <3> HIDE DEF a, b, c, d
    <3>4. Closer(x, y) /\ Closer(y, z)
      BY <1>5
    <3> QED
      BY <3>2, <3>3, <3>4
  <2>3. a >= b /\ c >= d
    BY <2>1, <2>2
  <2>4. e >= f /\ (a > b \/ c > d => e > f)
    BY <1>1, <2>3, CrossMultiplied
  <2>5. ByIds(x, y) /\ ByIds(y, z) => ByIds(x, z)
    BY <1>1 DEF ByIds
  <2>6. SUFFICES \/ e > f
                 \/ e = f /\ gap(x) < gap(z)
                 \/ e = f /\ gap(x) = gap(z) /\ ByIds(x, z)
    BY <1>3
  <2>7. gap(x) \in Int /\ gap(y) \in Int /\ gap(z) \in Int
    BY <1>1
  <2> HIDE DEF a, b, c, d, e, f
  <2> QED
    BY <2>1, <2>2, <2>4, <2>5, <2>7
<1>6. x = y \/ Closer(x, y) \/ Closer(y, x)
  <2> DEFINE a == common(x) * m(y)  b == common(y) * m(x)
  <2>1. a \in Int /\ b \in Int /\ gap(x) \in Int /\ gap(y) \in Int
    BY <1>1, <1>2
  <2>2. x = y \/ ByIds(x, y) \/ ByIds(y, x)
    <3>1. x = <<x[1], x[2]>> /\ y = <<y[1], y[2]>>
      BY NearPairs
    <3> QED
      BY <1>1, <3>1 DEF ByIds
  <2>3. /\ Closer(x, y) <=> \/ a > b
                            \/ a = b /\ gap(x) < gap(y)
                            \/ a = b /\ gap(x) = gap(y) /\ ByIds(x, y)
        /\ Closer(y, x) <=> \/ b > a
                            \/ b = a /\ gap(y) < gap(x)
                            \/ b = a /\ gap(y) = gap(x) /\ ByIds(y, x)
    BY <1>3
  <2> HIDE DEF a, b
  <2> QED
    BY <2>1, <2>2, <2>3
<1> QED
  BY <1>4, <1>5, <1>6

LEMMA MergesListed ==
  ASSUME SitesKnown, NEW S \in SUBSET near
  PROVE  Ordered(S, Closer) \in Seq(S) /\ ToSet(Ordered(S, Closer)) = S
<1> DEFINE below == [x \in S |-> {y \in S : Closer(y, x)}]
           s == Ordered(S, Closer)
<1>1. below \in [S -> SUBSET S] /\ \A x \in S : below[x] = {y \in S : Closer(y, x)}
  OBVIOUS
<1> HIDE DEF below
<1>2. IsFiniteSet(S)
  BY NearPairs, FS_Subset
<1>3. \A x \in S : x \in near
  OBVIOUS
<1>4. StrictOrder(S, below)
  <2>1. ASSUME NEW x \in S, NEW y \in S, x \in below[y] PROVE below[x] \subseteq below[y]
    <3>1. Closer(x, y)
      BY <1>1, <2>1
    <3>2. \A z \in S : Closer(z, x) => Closer(z, y)
      BY <1>3, <3>1, CloserIsStrict
    <3> QED
      BY <1>1, <3>2
  <2>2. \A x \in S : ~Closer(x, x)
    BY <1>3, CloserIsStrict
  <2>3. \A x, y \in S : x = y \/ Closer(x, y) \/ Closer(y, x)
    BY <1>3, CloserIsStrict
  <2> QED
    BY <1>1, <2>1, <2>2, <2>3 DEF StrictOrder
<1>5. s = [i \in 1..Cardinality(S) |-> CHOOSE x \in S : Cardinality(below[x]) = i - 1]
  <2>1. s = [i \in 1..Cardinality(S) |-> CHOOSE x \in S : Cardinality({y \in S : Closer(y, x)}) = i - 1]
    BY DEF Ordered
  <2>2. \A i : (CHOOSE x \in S : Cardinality({y \in S : Closer(y, x)}) = i - 1)
             = (CHOOSE x \in S : Cardinality(below[x]) = i - 1)
    <3>1. TAKE i
    <3>2. \A x : (x \in S /\ Cardinality({y \in S : Closer(y, x)}) = i - 1)
              <=> (x \in S /\ Cardinality(below[x]) = i - 1)
      BY <1>1
    <3> QED
      BY <3>2
  <2> QED
    BY <2>1, <2>2
<1>6. Listing(s, S, below)
  BY <1>1, <1>2, <1>4, <1>5, ListingByRank
<1> HIDE DEF s
<1>7. s \in Seq(S) /\ ToSet(s) = S
  BY <1>1, <1>2, <1>4, <1>6, Listings
<1> QED
  BY <1>7 DEF s

-----------------------------------------------------------------------------
(* The groups of a forest, and of the forest after a union.                    *)

LEMMA GroupsPartition ==
  ASSUME NEW S \in SUBSET Nat, IsFiniteSet(S), NEW p, NEW pairs, Follows(S, p, pairs)
  PROVE  /\ \A g \in Groups(p) : g \in SUBSET S /\ g # {}
         /\ \A x \in S : \E g \in Groups(p) : x \in g
         /\ \A g, h \in Groups(p) : g # h => g \cap h = {}
         /\ \A q \in pairs : \E g \in Groups(p) : q[1] \in g /\ q[2] \in g
<1>1. PICK L : Labels(S, p, L) /\ Spanned(S, L, pairs)
  BY DEF Follows
<1>2. Groups(p) = LabelClasses(S, L)
  BY <1>1, GroupsByLabel DEF Follows
<1>3. \A q \in pairs : q[1] \in S /\ q[2] \in S /\ L[q[1]] = L[q[2]]
  BY <1>1 DEF Spanned
<1>4. \A g \in Groups(p) : \E x \in S : g = {y \in S : L[y] = L[x]}
  BY <1>2 DEF LabelClasses, LabelClass
<1>5. \A x \in S : {y \in S : L[y] = L[x]} \in Groups(p)
  BY <1>2 DEF LabelClasses, LabelClass
<1>6. \A x \in S : \E g \in Groups(p) : x \in g
  BY <1>5
<1>7. \A q \in pairs : \E g \in Groups(p) : q[1] \in g /\ q[2] \in g
  <2>1. TAKE q \in pairs
  <2>2. q[1] \in {y \in S : L[y] = L[q[2]]} /\ q[2] \in {y \in S : L[y] = L[q[2]]}
    BY <1>3
  <2> QED
    BY <1>3, <1>5, <2>2
<1>8. \A g \in Groups(p) : g \in SUBSET S /\ g # {}
  BY <1>4
<1>9. \A g, h \in Groups(p) : g # h => g \cap h = {}
  <2>1. TAKE g, h \in Groups(p)
  <2>2. PICK x \in S : g = {y \in S : L[y] = L[x]}
    BY <1>4
  <2>3. PICK z \in S : h = {y \in S : L[y] = L[z]}
    BY <1>4
  <2> QED
    BY <2>2, <2>3
<1> QED
  BY <1>6, <1>7, <1>8, <1>9

LEMMA UnionGroups ==
  ASSUME NEW S \in SUBSET Nat, IsFiniteSet(S), NEW p, NEW pairs, Follows(S, p, pairs),
         NEW x \in S, NEW y \in S,
         NEW g \in Groups(union(p, x, y))
  PROVE  g \in Groups(p) \/ g = {v \in S : root(p, v) \in {root(p, x), root(p, y)}}
<1>1. PICK L : Labels(S, p, L) /\ Spanned(S, L, pairs)
  BY DEF Follows
<1> DEFINE M == Joined(S, L, x, y)
           a == Min({L[x], L[y]})
           b == Max({L[x], L[y]})
<1>2. Groups(p) = LabelClasses(S, L) /\ \A v \in S : root(p, v) = L[v]
  BY <1>1, GroupsByLabel DEF Follows
<1>3. Groups(union(p, x, y)) = LabelClasses(S, M)
  <2>1. Forest(S, union(p, x, y)) /\ Labels(S, union(p, x, y), M)
    BY <1>1, UnionLabels DEF Follows
  <2> HIDE DEF M
  <2> QED
    BY <2>1, GroupsByLabel
<1>4. {a, b} = {L[x], L[y]}
  <2>1. L[x] \in Int /\ L[y] \in Int
    <3>1. L[x] \in S /\ L[y] \in S
      BY <1>1 DEF Spanned
    <3>2. \A n \in Nat : n \in Int
      OBVIOUS
    <3> QED
      BY <3>1, <3>2
  <2>2. /\ a \in {L[x], L[y]} /\ a <= L[x] /\ a <= L[y]
        /\ b \in {L[x], L[y]} /\ b >= L[x] /\ b >= L[y]
    BY <2>1, OfTwo
  <2> HIDE DEF a, b
  <2>3. a = b => L[x] = L[y]
    BY <2>1, <2>2
  <2> QED
    BY <2>2, <2>3
<1>5. \A v \in S : M[v] = IF L[v] = b THEN a ELSE L[v]
  BY DEF Joined
<1> HIDE DEF M, a, b
<1>6. PICK z \in S : g = {v \in S : M[v] = M[z]}
  BY <1>3 DEF LabelClasses, LabelClass
<1>7. CASE L[z] \in {a, b}
  <2>1. \A v \in S : M[v] = M[z] <=> L[v] \in {a, b}
    BY <1>5, <1>7
  <2>2. g = {v \in S : L[v] \in {L[x], L[y]}}
    BY <1>4, <1>6, <2>1
  <2> QED
    BY <1>2, <2>2
<1>8. CASE L[z] \notin {a, b}
  <2>1. \A v \in S : M[v] = M[z] <=> L[v] = L[z]
    BY <1>5, <1>8
  <2>2. g = LabelClass(S, L, z)
    BY <1>6, <2>1 DEF LabelClass
  <2> QED
    BY <1>2, <2>2 DEF LabelClasses
<1> QED
  BY <1>7, <1>8

LEMMA HeadAndTail ==
  ASSUME NEW S, NEW s \in Seq(S), s # <<>>
  PROVE  Head(s) \in S /\ Tail(s) \in Seq(S) /\ ToSet(s) = {Head(s)} \cup ToSet(Tail(s))
<1>1. Len(s) \in Nat /\ Len(s) >= 1 /\ DOMAIN s = 1..Len(s) /\ Head(s) = s[1]
  BY EmptySeq
<1>2. /\ Tail(s) \in Seq(S) /\ DOMAIN Tail(s) = 1..(Len(s) - 1)
      /\ \A i \in 1..(Len(s) - 1) : Tail(s)[i] = s[i + 1]
  BY <1>1
<1>3. \A i \in 1..Len(s) : i = 1 \/ (i - 1 \in 1..(Len(s) - 1) /\ (i - 1) + 1 = i)
  BY <1>1
<1>4. \A i \in 1..(Len(s) - 1) : i + 1 \in 1..Len(s)
  BY <1>1
<1>5. 1 \in 1..Len(s)
  BY <1>1
<1>6. \A x : x \in ToSet(s) <=> \E i \in 1..Len(s) : x = s[i]
  BY <1>1 DEF ToSet
<1>7. \A x : x \in ToSet(Tail(s)) <=> \E i \in 1..(Len(s) - 1) : x = s[i + 1]
  BY <1>2 DEF ToSet
<1>8. ToSet(s) = {Head(s)} \cup ToSet(Tail(s))
  <2>1. ASSUME NEW i \in 1..Len(s) PROVE s[i] = Head(s) \/ s[i] \in ToSet(Tail(s))
    BY <1>1, <1>3, <1>7, <2>1
  <2>2. ASSUME NEW i \in 1..(Len(s) - 1) PROVE s[i + 1] \in ToSet(s)
    BY <1>4, <1>6
  <2>3. Head(s) \in ToSet(s)
    BY <1>1, <1>5, <1>6
  <2> QED
    BY <1>6, <1>7, <2>1, <2>2, <2>3
<1> QED
  BY <1>1, <1>2, <1>5, <1>8

-----------------------------------------------------------------------------
(* RegionBuilder: the invariant of the build.                                  *)

BuildStages == {"report", "pairs", "hard", "merge", "regions", "graph", "pruned", "messages",
                "context", "refused", "prompt"}
HardPairs == {p \in near : isHard(p)}
\* Nothing has been merged into a group over the caps.
GroupsFit == \A g \in Groups(parent) : cap_ok(g) \/ g \in Closure(Reported, HardPairs)
NetsAreClosed == {net(o) : o \in matched} = {{c} : c \in Closure(matched, PathPairs)}
RegionTyped(r) ==
  /\ r.violations \in SUBSET Reported /\ r.objects \in SUBSET LayoutObjects
  /\ r.editable \in SUBSET LayoutObjects /\ r.frozen \in SUBSET LayoutObjects
RegionInv ==
  /\ design \in Designs /\ stage \in BuildStages
  /\ united \in SUBSET (Reported \X Reported) /\ Follows(Reported, parent, united)
  /\ stage # "report" => SitesKnown
  /\ stage = "pairs" => NetsAreClosed
  /\ stage \in {"report", "pairs"} => united = {}
  /\ stage = "hard" => /\ todo \in Seq(near)
                       /\ united \subseteq HardPairs /\ HardPairs \subseteq united \cup ToSet(todo)
  /\ stage = "merge" => /\ todo \in Seq(near) /\ HardPairs \subseteq united /\ GroupsFit
  /\ stage = "regions" => SharedObjectsStayTogether /\ OversizedIsHard
  /\ stage \in {"regions", "graph", "pruned", "messages"} => \A r \in regions : RegionTyped(r)

LEMMA RegionsOfGroups ==
  ASSUME RegionInv, stage = "merge", todo = <<>>
  PROVE  LET built == {region(h) : h \in UNION {split(g) : g \in Groups(parent)}} IN
         /\ \A v \in Reported : Cardinality({r \in built : v \in r.violations}) = 1
         /\ \A p \in near : isHard(p) => \E r \in built : {p[1], p[2]} \subseteq r.violations
         /\ \A r \in built : r.oversized /\ Cardinality(r.violations) > 1 =>
              r.violations \in Closure(Reported, HardPairs)
         /\ \A r \in built : RegionTyped(r)
<1> DEFINE parts == UNION {split(g) : g \in Groups(parent)}
           built == {region(h) : h \in parts}
<1>1. /\ SitesKnown /\ Follows(Reported, parent, united) /\ HardPairs \subseteq united /\ GroupsFit
      /\ Reported \in SUBSET Nat /\ IsFiniteSet(Reported)
  BY LayoutAssumption DEF RegionInv
<1>2. /\ \A g \in Groups(parent) : g \in SUBSET Reported /\ g # {}
      /\ \A x \in Reported : \E g \in Groups(parent) : x \in g
      /\ \A g, h \in Groups(parent) : g # h => g \cap h = {}
      /\ \A q \in united : \E g \in Groups(parent) : q[1] \in g /\ q[2] \in g
  BY <1>1, GroupsPartition
<1>3. \A g \in Groups(parent) :
        /\ UNION split(g) = g /\ split(g) \in SUBSET SUBSET Reported
        /\ \A a, b \in split(g) : a # b => a \cap b = {}
        /\ \A a \in split(g) : a # {} /\ settled(a)
        /\ settled(g) => split(g) = {g}
  BY <1>1, <1>2, SplitParts
<1>4. \A h : region(h).violations = h /\ region(h).oversized = ~cap_ok(h)
  BY DEF region
<1>5. \A h \in parts : \E g \in Groups(parent) : h \in split(g) /\ h \subseteq g
  BY <1>3
<1>6. \A v \in Reported : \E h \in parts : v \in h
  BY <1>2, <1>3
<1>7. \A h, k \in parts : h # k => h \cap k = {}
  <2>1. TAKE h, k \in parts
  <2>2. HAVE h # k
  <2>3. PICK g \in Groups(parent) : h \in split(g) /\ h \subseteq g
    BY <1>5
  <2>4. PICK f \in Groups(parent) : k \in split(f) /\ k \subseteq f
    BY <1>5
  <2>5. CASE f = g
    BY <1>3, <2>2, <2>3, <2>4, <2>5
  <2>6. CASE f # g
    <3>1. f \cap g = {}
      BY <1>2, <2>6
    <3> QED
      BY <2>3, <2>4, <3>1
  <2> QED
    BY <2>5, <2>6
<1>8. \A h \in parts : h \in SUBSET Reported /\ settled(h)
  BY <1>3
<1>9. \A v \in Reported : Cardinality({r \in built : v \in r.violations}) = 1
  <2>1. TAKE v \in Reported
  <2>2. PICK h \in parts : v \in h
    BY <1>6
  <2>3. \A k \in parts : v \in k => k = h
    BY <1>7, <2>2
  <2>4. {r \in built : v \in r.violations} = {region(h)}
    BY <1>4, <2>2, <2>3
  <2> QED
    BY <2>4, FS_Singleton
<1>10. \A p \in near : isHard(p) => \E r \in built : {p[1], p[2]} \subseteq r.violations
  <2>1. TAKE p \in near
  <2>2. HAVE isHard(p)
  <2>3. p \in united
    BY <1>1, <2>2 DEF HardPairs
  <2>4. PICK g \in Groups(parent) : p[1] \in g /\ p[2] \in g
    BY <1>2, <2>3
  <2>5. p[1] # p[2]
    <3>1. p \in Reported \X Reported /\ p[1] < p[2]
      BY DEF near
    <3>2. p[1] \in Nat /\ p[2] \in Nat
      BY <1>1, <3>1
    <3> QED
      BY <3>1, <3>2
  <2>6. objects(p[1]) \cap objects(p[2]) # {}
    BY <2>2 DEF isHard, firm
  <2>7. settled(g)
    BY <2>4, <2>5, <2>6 DEF settled, sharing
  <2>8. g \in parts
    BY <1>3, <2>7
  <2>9. region(g) \in built /\ region(g).violations = g
    BY <1>4, <2>8
  <2> QED
    BY <2>4, <2>9
<1>11. \A r \in built : r.oversized /\ Cardinality(r.violations) > 1 =>
              r.violations \in Closure(Reported, HardPairs)
  <2>1. TAKE r \in built
  <2>2. HAVE r.oversized /\ Cardinality(r.violations) > 1
  <2>3. PICK h \in parts : r = region(h)
    OBVIOUS
  <2>4. ~cap_ok(h) /\ Cardinality(h) > 1 /\ r.violations = h
    BY <1>4, <2>2, <2>3
  <2>5. PICK g \in Groups(parent) : h \in split(g) /\ h \subseteq g
    BY <1>5, <2>3
  <2>6. IsFiniteSet(h)
    BY <1>1, <1>8, <2>3, FS_Subset
  <2>7. ~(Cardinality(h) <= 1)
    BY <2>4, <2>6, FS_CardinalityType
  <2>8. sharing(h)
    BY <1>8, <2>3, <2>4, <2>7 DEF settled
  <2>9. sharing(g)
    BY <2>5, <2>8 DEF sharing
  <2>10. h = g
    <3>1. settled(g)
      BY <2>9 DEF settled
    <3> QED
      BY <1>3, <2>5, <3>1
  <2> QED
    BY <1>1, <2>4, <2>10 DEF GroupsFit
<1>12. \A r \in built : RegionTyped(r)
  <2>1. TAKE r \in built
  <2>2. PICK h \in parts : r = region(h)
    OBVIOUS
  <2>3. h \in SUBSET Reported
    BY <1>8, <2>2
  <2>4. objects_of(h) \in SUBSET LayoutObjects
    <3>1. \A v \in h : objects(v) \in SUBSET LayoutObjects
      BY <1>1, <2>3 DEF SitesKnown, Sites, objects
    <3> QED
      BY <3>1 DEF objects_of
  <2>5. /\ r.violations = h /\ r.objects = objects_of(h)
        /\ r.editable \in SUBSET objects_of(h) /\ r.frozen \in SUBSET objects_of(h)
    BY <2>2 DEF region
  <2> QED
    BY <2>3, <2>4, <2>5 DEF RegionTyped
<1> HIDE DEF built
<1> QED
  BY <1>9, <1>10, <1>11, <1>12 DEF built, parts

LEMMA PlacesUnchanged ==
  ASSUME UNCHANGED <<design, site>>
  PROVE  /\ near' = near /\ HardPairs' = HardPairs /\ matched' = matched /\ PathPairs' = PathPairs
         /\ \A p : isHard(p)' <=> isHard(p)
         /\ \A g : cap_ok(g)' <=> cap_ok(g)
<1>1. design' = design /\ site' = site
  OBVIOUS
<1>2. \A v : objects(v)' = objects(v) /\ seed_of(v)' = seed_of(v) /\ halo(v)' = halo(v)
  BY <1>1 DEF objects, seed_of, halo
<1>3. \A o : obj(o)' = obj(o)
  BY <1>1 DEF obj
<1>4. \A p : gap(p)' = gap(p)
  BY <1>2 DEF gap, Gap
<1>5. near' = near
  BY <1>4 DEF near
<1>6. \A v : firm(v)' = firm(v)
  BY <1>2, <1>3 DEF firm
<1>7. \A p : isHard(p)' <=> isHard(p)
  BY <1>6 DEF isHard
<1>8. HardPairs' = HardPairs
  BY <1>5, <1>7 DEF HardPairs
<1>9. \A g : objects_of(g)' = objects_of(g)
  BY <1>2 DEF objects_of
<1>10. \A g : {seed_of(v) : v \in g}' = {seed_of(v) : v \in g}
  BY <1>2
<1>11. \A g : cap_ok(g)' <=> cap_ok(g)
  BY <1>9, <1>10 DEF cap_ok
<1>12. matched' = matched
  BY <1>1 DEF matched
<1>13. PathPairs' = PathPairs
  BY <1>1 DEF PathPairs
<1> QED
  BY <1>5, <1>7, <1>8, <1>11, <1>12, <1>13

LEMMA NetsOfPaths ==
  ASSUME design \in Designs, UNCHANGED design, nets' = map_connectivity_components
  PROVE  NetsAreClosed'
<1> DEFINE S == matched
           C == components
           class(o) == {x \in S : root(C, x) = root(C, o)}
<1>1. S \in SUBSET LayoutObjects /\ S \in SUBSET Nat /\ IsFiniteSet(S)
  BY MatchedObjects
<1>2. Follows(S, C, PathPairs)
  BY ComponentsFollow
<1>3. Groups(C) = Closure(S, PathPairs) /\ C \in [S -> S]
  <2> HIDE DEF S, C
  <2> QED BY <1>1, <1>2, FollowsClosure
<1>4. Groups(C) = {class(o) : o \in S}
  <2> HIDE DEF C
  <2>1. DOMAIN C = S
    BY <1>3
  <2> QED
    BY <2>1 DEF Groups
<1>5. \A o \in S : nets'[o] = {class(o)}
  BY <1>1 DEF map_connectivity_components
<1>6. \A o : net(o)' = nets'[o]
  BY DEF net
<1>7. matched' = S /\ PathPairs' = PathPairs
  BY DEF matched, PathPairs
<1> HIDE DEF S, C, class
<1>8. {nets'[o] : o \in S} = {{c} : c \in {class(o) : o \in S}}
  <2>1. {nets'[o] : o \in S} = {{class(o)} : o \in S}
    BY <1>5
  <2>2. {{c} : c \in {class(o) : o \in S}} = {{class(o)} : o \in S}
    OBVIOUS
  <2> QED
    BY <2>1, <2>2
<1>9. {nets'[o] : o \in S} = {{c} : c \in Closure(S, PathPairs)}
  BY <1>3, <1>4, <1>8
<1> QED
  BY <1>6, <1>7, <1>9 DEF NetsAreClosed

LEMMA BuildInitInv ==
  ASSUME BuildInit
  PROVE  RegionInv
<1>1. Follows(Reported, parent, united)
  <2>1. Reported \in SUBSET Nat
    BY LayoutAssumption
  <2> QED
    BY <2>1, FollowsNothing DEF BuildInit
<1> QED
  BY <1>1 DEF BuildInit, RegionInv, BuildStages

LEMMA ParseKeepsRegionInv ==
  ASSUME RegionInv, parse_design_state
  PROVE  RegionInv'
<1>1. design \in Designs /\ united = {} /\ Follows(Reported, parent, united)
  BY DEF RegionInv, parse_design_state
<1>2. SitesKnown'
  <2>1. LayoutKnown
    BY <1>1, DesignsAreLayouts
  <2>2. \A v \in Reported : _seed(v) \in Sites
    BY <2>1, SeedsTyped
  <2>3. site' = [v \in Reported |-> _seed(v)]
    BY DEF parse_design_state
  <2> QED
    BY <2>2, <2>3 DEF SitesKnown, Sites, Interval
<1>3. NetsAreClosed'
  BY <1>1, NetsOfPaths DEF parse_design_state
<1>4. stage' = "pairs" /\ UNCHANGED <<design, parent, united>>
  BY DEF parse_design_state
<1>5. Follows(Reported, parent, united)'
  BY <1>1, <1>4
<1> QED
  BY <1>1, <1>2, <1>3, <1>4, <1>5 DEF RegionInv, BuildStages

LEMMA StartPairsKeepsRegionInv ==
  ASSUME RegionInv, start_pairs
  PROVE  RegionInv'
<1>1. design \in Designs /\ united = {} /\ Follows(Reported, parent, united) /\ SitesKnown
  BY DEF RegionInv, start_pairs
<1>2. stage' = "hard" /\ todo' = Ordered(near, ByIds) /\ UNCHANGED <<design, site, parent, united>>
  BY DEF start_pairs
<1>3. near' = near /\ HardPairs' = HardPairs
  BY <1>2, PlacesUnchanged
<1>4. todo' \in Seq(near) /\ ToSet(todo') = near
  BY <1>1, <1>2, PairsListed
<1>5. todo' \in Seq(near') /\ united' \subseteq HardPairs' /\ HardPairs' \subseteq united' \cup ToSet(todo')
  BY <1>1, <1>2, <1>3, <1>4 DEF HardPairs
<1>6. SitesKnown'
  BY <1>1, <1>2 DEF SitesKnown
<1> QED
  BY <1>1, <1>2, <1>5, <1>6 DEF RegionInv, BuildStages

LEMMA UniteFollows ==
  ASSUME RegionInv, stage # "report", NEW p \in near, Unite(p)
  PROVE  united' \in SUBSET (Reported \X Reported) /\ Follows(Reported, parent', united')
<1>1. p \in Reported \X Reported /\ p[1] \in Reported /\ p[2] \in Reported /\ p = <<p[1], p[2]>>
  BY NearPairs
<1>2. united' = united \cup {<<p[1], p[2]>>} /\ parent' = union(parent, p[1], p[2])
  BY <1>1 DEF Unite
<1>3. Follows(Reported, parent, united) /\ united \in SUBSET (Reported \X Reported)
  BY DEF RegionInv
<1>4. Reported \in SUBSET Nat /\ IsFiniteSet(Reported)
  BY LayoutAssumption
<1>5. Follows(Reported, union(parent, p[1], p[2]), united \cup {<<p[1], p[2]>>})
  BY <1>1, <1>3, <1>4, FollowsUnion
<1> QED
  BY <1>1, <1>2, <1>3, <1>5

LEMMA HardKeepsRegionInv ==
  ASSUME RegionInv, unite_hard
  PROVE  RegionInv'
<1> DEFINE p == Head(todo)
<1>1. /\ design \in Designs /\ SitesKnown /\ todo \in Seq(near) /\ todo # <<>> /\ stage = "hard"
      /\ united \subseteq HardPairs /\ HardPairs \subseteq united \cup ToSet(todo)
      /\ Follows(Reported, parent, united) /\ united \in SUBSET (Reported \X Reported)
  BY DEF RegionInv, unite_hard
<1>2. stage' = "hard" /\ todo' = Tail(todo) /\ UNCHANGED <<design, site>>
  BY <1>1 DEF unite_hard
<1>3. near' = near /\ HardPairs' = HardPairs
  BY <1>2, PlacesUnchanged
<1>4. p \in near /\ todo' \in Seq(near) /\ ToSet(todo) = {p} \cup ToSet(todo')
  BY <1>1, <1>2, HeadAndTail
<1>5. SitesKnown'
  BY <1>1, <1>2 DEF SitesKnown
<1> HIDE DEF p
<1>6. IF isHard(p) THEN Unite(p) ELSE UNCHANGED <<parent, united>>
  BY DEF unite_hard, p
<1>7. /\ united' \in SUBSET (Reported \X Reported) /\ Follows(Reported, parent', united')
      /\ united' \subseteq HardPairs /\ HardPairs \subseteq united' \cup ToSet(todo')
  <2>1. CASE isHard(p)
    <3>1. united' = united \cup {p}
      BY <1>6, <2>1 DEF Unite
    <3>2. p \in HardPairs
      BY <1>4, <2>1 DEF HardPairs
    <3>3. Unite(p) /\ stage # "report"
      BY <1>1, <1>6, <2>1
    <3>4. united' \in SUBSET (Reported \X Reported) /\ Follows(Reported, parent', united')
      BY <1>4, <3>3, UniteFollows
    <3> QED
      BY <1>1, <1>4, <3>1, <3>2, <3>4
  <2>2. CASE ~isHard(p)
    <3>1. p \notin HardPairs
      BY <2>2 DEF HardPairs
    <3> QED
      BY <1>1, <1>4, <1>6, <2>2, <3>1
  <2> QED
    BY <2>1, <2>2
<1> QED
  BY <1>1, <1>2, <1>3, <1>4, <1>5, <1>7 DEF RegionInv, BuildStages

LEMMA StartMergesKeepsRegionInv ==
  ASSUME RegionInv, start_merges
  PROVE  RegionInv'
<1>1. /\ design \in Designs /\ SitesKnown /\ todo = <<>> /\ stage = "hard"
      /\ united \subseteq HardPairs /\ HardPairs \subseteq united \cup ToSet(todo)
      /\ Follows(Reported, parent, united) /\ united \in SUBSET (Reported \X Reported)
  BY DEF RegionInv, start_merges
<1>2. /\ stage' = "merge" /\ todo' = Ordered({p \in near : merges(p)}, Closer)
      /\ UNCHANGED <<design, site, parent, united>>
  BY DEF start_merges
<1>3. near' = near /\ HardPairs' = HardPairs
  BY <1>2, PlacesUnchanged
<1>4. united = HardPairs
  <2>1. ToSet(todo) = {}
    BY <1>1 DEF ToSet
  <2> QED
    BY <1>1, <2>1
<1>5. Groups(parent) = Closure(Reported, HardPairs)
  <2>1. Reported \in SUBSET Nat /\ IsFiniteSet(Reported)
    BY LayoutAssumption
  <2> QED
    BY <1>1, <1>4, <2>1, FollowsClosure
<1>6. GroupsFit'
  BY <1>2, <1>3, <1>5 DEF GroupsFit
<1>7. todo' \in Seq(near)
  <2> DEFINE S == {p \in near : merges(p)}
  <2>1. S \in SUBSET near /\ todo' = Ordered(S, Closer)
    BY <1>2
  <2> HIDE DEF S
  <2>2. todo' \in Seq(S)
    BY <1>1, <2>1, MergesListed
  <2> QED
    BY <2>1, <2>2
<1>8. SitesKnown'
  BY <1>1, <1>2 DEF SitesKnown
<1> QED
  BY <1>1, <1>2, <1>3, <1>4, <1>6, <1>7, <1>8 DEF RegionInv, BuildStages

LEMMA MergeKeepsRegionInv ==
  ASSUME RegionInv, unite_merge
  PROVE  RegionInv'
<1> DEFINE p == Head(todo)
           members == {v \in Reported : root(parent, v) \in {root(parent, p[1]), root(parent, p[2])}}
<1>1. /\ design \in Designs /\ SitesKnown /\ todo \in Seq(near) /\ todo # <<>> /\ stage = "merge"
      /\ HardPairs \subseteq united /\ GroupsFit
      /\ Follows(Reported, parent, united) /\ united \in SUBSET (Reported \X Reported)
  BY DEF RegionInv, unite_merge
<1>2. stage' = "merge" /\ todo' = Tail(todo) /\ UNCHANGED <<design, site>>
  BY <1>1 DEF unite_merge
<1>3. near' = near /\ HardPairs' = HardPairs /\ \A g : cap_ok(g)' <=> cap_ok(g)
  BY <1>2, PlacesUnchanged
<1>4. p \in near /\ todo' \in Seq(near)
  BY <1>1, <1>2, HeadAndTail
<1>5. SitesKnown'
  BY <1>1, <1>2 DEF SitesKnown
<1>6. \/ Unite(p) /\ cap_ok(members)
      \/ UNCHANGED <<parent, united>>
  BY DEF unite_merge, merge_fits
<1> HIDE DEF p, members
<1>7. /\ united' \in SUBSET (Reported \X Reported) /\ Follows(Reported, parent', united')
      /\ HardPairs \subseteq united' /\ GroupsFit'
  <2>1. CASE Unite(p) /\ cap_ok(members)
    <3>1. stage # "report" /\ united' = united \cup {p} /\ parent' = union(parent, p[1], p[2])
      BY <1>1, <2>1 DEF Unite
    <3>2. united' \in SUBSET (Reported \X Reported) /\ Follows(Reported, parent', united')
      BY <1>4, <2>1, <3>1, UniteFollows
    <3>3. Reported \in SUBSET Nat /\ IsFiniteSet(Reported) /\ p[1] \in Reported /\ p[2] \in Reported
      BY <1>4, LayoutAssumption, NearPairs
    <3>4. \A g \in Groups(parent') : g \in Groups(parent) \/ g = members
      <4>1. TAKE g \in Groups(parent')
      <4>2. g \in Groups(union(parent, p[1], p[2]))
        BY <3>1, <4>1
      <4>3. g \in Groups(parent) \/ g = {v \in Reported : root(parent, v) \in {root(parent, p[1]), root(parent, p[2])}}
        BY <1>1, <3>3, <4>2, UnionGroups
      <4> QED
        BY <4>3 DEF members
    <3>5. \A g \in Groups(parent') : cap_ok(g) \/ g \in Closure(Reported, HardPairs)
      BY <1>1, <2>1, <3>4 DEF GroupsFit
    <3>6. GroupsFit'
      BY <1>3, <3>5 DEF GroupsFit
    <3> QED
      BY <1>1, <3>1, <3>2, <3>6
  <2>2. CASE UNCHANGED <<parent, united>>
    <3>1. GroupsFit'
      BY <1>1, <1>3, <2>2 DEF GroupsFit
    <3> QED
      BY <1>1, <2>2, <3>1
  <2> QED
    BY <1>6, <2>1, <2>2
<1> QED
  BY <1>1, <1>2, <1>3, <1>4, <1>5, <1>7 DEF RegionInv, BuildStages

LEMMA BuildKeepsRegionInv ==
  ASSUME RegionInv, build_regions
  PROVE  RegionInv'
<1> DEFINE built == {region(h) : h \in UNION {split(g) : g \in Groups(parent)}}
<1>1. /\ design \in Designs /\ SitesKnown /\ todo = <<>> /\ stage = "merge"
      /\ Follows(Reported, parent, united) /\ united \in SUBSET (Reported \X Reported)
  BY DEF RegionInv, build_regions
<1>2. stage' = "regions" /\ regions' = built /\ UNCHANGED <<design, site, parent, united>>
  BY DEF build_regions
<1>3. near' = near /\ HardPairs' = HardPairs /\ \A p : isHard(p)' <=> isHard(p)
  BY <1>2, PlacesUnchanged
<1>4. /\ \A v \in Reported : Cardinality({r \in built : v \in r.violations}) = 1
      /\ \A p \in near : isHard(p) => \E r \in built : {p[1], p[2]} \subseteq r.violations
      /\ \A r \in built : r.oversized /\ Cardinality(r.violations) > 1 =>
           r.violations \in Closure(Reported, HardPairs)
      /\ \A r \in built : RegionTyped(r)
  BY <1>1, RegionsOfGroups
<1> HIDE DEF built
<1>5. SharedObjectsStayTogether'
  BY <1>2, <1>3, <1>4 DEF SharedObjectsStayTogether
<1>6. OversizedIsHard'
  <2>1. {p \in near : isHard(p)}' = HardPairs
    BY <1>3 DEF HardPairs
  <2> QED
    BY <1>2, <1>4, <2>1 DEF OversizedIsHard
<1>7. SitesKnown'
  BY <1>1, <1>2 DEF SitesKnown
<1>8. \A r \in regions' : RegionTyped(r)
  BY <1>2, <1>4
<1> QED
  BY <1>1, <1>2, <1>5, <1>6, <1>7, <1>8 DEF RegionInv, BuildStages, RegionTyped

LEMMA LaterStepsKeepRegionInv ==
  ASSUME RegionInv, stage \in {"regions", "graph", "pruned", "messages", "context"},
         stage' \in {"graph", "pruned", "messages", "context", "refused", "prompt"},
         stage = "context" => stage' \in {"context", "refused", "prompt"},
         UNCHANGED <<design, nets, site, parent, todo, united, regions>>
  PROVE  RegionInv'
<1>1. /\ design \in Designs /\ SitesKnown
      /\ Follows(Reported, parent, united) /\ united \in SUBSET (Reported \X Reported)
      /\ stage # "context" => \A r \in regions : RegionTyped(r)
  BY DEF RegionInv
<1>2. SitesKnown'
  BY <1>1 DEF SitesKnown
<1>3. stage' # "context" /\ stage' # "refused" /\ stage' # "prompt" => \A r \in regions' : RegionTyped(r)
  BY <1>1
<1> QED
  BY <1>1, <1>2, <1>3 DEF RegionInv, BuildStages, RegionTyped

LEMMA StutterKeepsRegionInv ==
  ASSUME RegionInv, UNCHANGED graphVars
  PROVE  RegionInv'
<1>1. UNCHANGED <<design, stage, nets, site, parent, todo, united, regions>>
  BY DEF graphVars
<1>2. near' = near /\ HardPairs' = HardPairs /\ matched' = matched /\ PathPairs' = PathPairs
      /\ \A p : isHard(p)' <=> isHard(p)
  BY <1>1, PlacesUnchanged
<1>3. \A g : cap_ok(g)' <=> cap_ok(g)
  BY <1>1, PlacesUnchanged
<1>4. SitesKnown' <=> SitesKnown
  BY <1>1 DEF SitesKnown
<1>5. NetsAreClosed' <=> NetsAreClosed
  <2>1. \A o : net(o)' = net(o)
    BY <1>1 DEF net
  <2> QED
    BY <1>2, <2>1 DEF NetsAreClosed
<1>6. GroupsFit' <=> GroupsFit
  BY <1>1, <1>2, <1>3 DEF GroupsFit
<1>7. SharedObjectsStayTogether' <=> SharedObjectsStayTogether
  BY <1>1, <1>2 DEF SharedObjectsStayTogether
<1>8. OversizedIsHard' <=> OversizedIsHard
  <2>1. {p \in near : isHard(p)}' = {p \in near : isHard(p)}
    BY <1>2
  <2> QED
    BY <1>1, <2>1 DEF OversizedIsHard
<1> QED
  BY <1>1, <1>2, <1>4, <1>5, <1>6, <1>7, <1>8 DEF RegionInv, RegionTyped

RegionStep == (GraphNext /\ UNCHANGED ctx) \/ ContextNext

LEMMA RegionInvSteps ==
  ASSUME RegionInv, [RegionStep]_contextVars
  PROVE  RegionInv'
<1>1. CASE parse_design_state
  BY <1>1, ParseKeepsRegionInv
<1>2. CASE start_pairs
  BY <1>2, StartPairsKeepsRegionInv
<1>3. CASE unite_hard
  BY <1>3, HardKeepsRegionInv
<1>4. CASE start_merges
  BY <1>4, StartMergesKeepsRegionInv
<1>5. CASE unite_merge
  BY <1>5, MergeKeepsRegionInv
<1>6. CASE build_regions
  BY <1>6, BuildKeepsRegionInv
<1>7. CASE build_agent_graph
  <2>1. stage = "regions" /\ stage' = "graph" /\ UNCHANGED <<design, nets, site, parent, todo, united, regions>>
    BY <1>7 DEF build_agent_graph
  <2> QED
    BY <2>1, LaterStepsKeepRegionInv
<1>8. CASE prune_agent_graph
  <2>1. stage = "graph" /\ stage' = "pruned" /\ UNCHANGED <<design, nets, site, parent, todo, united, regions>>
    BY <1>8 DEF prune_agent_graph
  <2> QED
    BY <2>1, LaterStepsKeepRegionInv
<1>9. CASE PassMessages
  <2>1. stage = "pruned" /\ stage' = "messages" /\ UNCHANGED <<design, nets, site, parent, todo, united, regions>>
    BY <1>9 DEF PassMessages
  <2> QED
    BY <2>1, LaterStepsKeepRegionInv
<1>10. CASE BuildContext
  <2>1. stage = "messages" /\ stage' = "context" /\ UNCHANGED <<design, nets, site, parent, todo, united, regions>>
    BY <1>10 DEF BuildContext
  <2> QED
    BY <2>1, LaterStepsKeepRegionInv
<1>11. CASE Truncate
  BY <1>11, StutterKeepsRegionInv DEF Truncate
<1>12. CASE RefuseContext
  <2>1. stage = "context" /\ stage' = "refused" /\ UNCHANGED <<design, nets, site, parent, todo, united, regions>>
    BY <1>12 DEF RefuseContext
  <2> QED
    BY <2>1, LaterStepsKeepRegionInv
<1>13. CASE FinishContext
  <2>1. stage = "context" /\ stage' = "prompt" /\ UNCHANGED <<design, nets, site, parent, todo, united, regions>>
    BY <1>13 DEF FinishContext
  <2> QED
    BY <2>1, LaterStepsKeepRegionInv
<1>14. CASE UNCHANGED contextVars
  BY <1>14, StutterKeepsRegionInv DEF contextVars
<1> QED
  BY <1>1, <1>2, <1>3, <1>4, <1>5, <1>6, <1>7, <1>8, <1>9, <1>10, <1>11, <1>12, <1>13, <1>14
     DEF RegionStep, GraphNext, ContextNext

LEMMA RegionInvIsSound ==
  ASSUME RegionInv
  PROVE  RegionsAreSound
<1>1. Reported \in SUBSET Nat /\ IsFiniteSet(Reported)
  BY LayoutAssumption
<1>2. UnionFindIsClosure
  <2>1. Follows(Reported, parent, united)
    BY DEF RegionInv
  <2>2. /\ Groups(parent) = Closure(Reported, united)
        /\ \A v \in Reported : parent[v] <= v /\ root(parent, v) <= parent[v]
    BY <1>1, <2>1, FollowsClosure
  <2>3. stage = "pairs" => NetsAreClosed
    BY DEF RegionInv
  <2> QED
    BY <2>2, <2>3 DEF UnionFindIsClosure, NetsAreClosed, PathPairs, Paired
<1>3. SharedObjectsStayTogether /\ OversizedIsHard
  BY DEF RegionInv, SharedObjectsStayTogether, OversizedIsHard
<1>4. SplitCutsToSize
  <2>1. SUFFICES ASSUME stage = "pairs", NEW g \in (SUBSET Reported) \ {{}}
                 PROVE  /\ UNION split(g) = g
                        /\ \A a, b \in split(g) : a # b => a \cap b = {}
                        /\ \A a \in split(g) : \/ cap_ok(a) \/ Cardinality(a) = 1
                                                 \/ \E u, v \in a : u # v /\ objects(u) \cap objects(v) # {}
    BY DEF SplitCutsToSize
  <2>2. SitesKnown
    BY <2>1 DEF RegionInv
  <2>3. /\ UNION split(g) = g /\ split(g) \in SUBSET SUBSET Reported
        /\ \A a, b \in split(g) : a # b => a \cap b = {}
        /\ \A a \in split(g) : a # {} /\ settled(a)
    BY <2>2, SplitParts
  <2>4. \A a \in split(g) : Cardinality(a) <= 1 => Cardinality(a) = 1
    <3>1. TAKE a \in split(g)
    <3>2. IsFiniteSet(a) /\ a # {}
      BY <1>1, <2>3, FS_Subset
    <3>3. Cardinality(a) \in Nat /\ Cardinality(a) # 0
      BY <3>2, FS_CardinalityType, FS_EmptySet
    <3> QED
      BY <3>3
  <2> QED
    BY <2>3, <2>4 DEF settled, sharing
<1> QED
  BY <1>2, <1>3, <1>4 DEF RegionsAreSound

(* Through the whole of RegionBuilder.build the union-find forest follows the
   pairs united so far, what shares a firm object is united or still to come,
   and a group is within the caps or a component of such pairs: the inductive
   invariant behind RegionsSound.                                             *)
THEOREM RegionInvariant == ContextSpec => []RegionInv
<1>1. BuildInit => RegionInv
  BY BuildInitInv
<1>2. RegionInv /\ [RegionStep]_contextVars => RegionInv'
  BY RegionInvSteps
<1> QED
  BY <1>1, <1>2, PTL DEF ContextSpec, RegionStep

(* The regions of an iteration are the groups the rules of RegionBuilder ask
   for: whatever the order in which _UnionFind unites and halves its paths, the
   groups and the nets are the least equivalences of the matched pairs, an
   oversized region is only kept for its hard pairs, and _split partitions a
   group into parts that are within the caps or share an object.              *)
THEOREM RegionsSound == ContextSpec => []RegionsAreSound
<1>1. RegionInv => RegionsAreSound
  BY RegionInvIsSound
<1> QED
  BY <1>1, RegionInvariant, PTL

-----------------------------------------------------------------------------
(* Distances are rounded up to a grid.                                         *)

LEMMA Divided ==
  ASSUME NEW n \in Int, NEW g \in Nat \ {0}
  PROVE  /\ n \div g \in Int /\ n % g \in Int /\ 0 <= n % g /\ n % g < g
         /\ n = g * (n \div g) + (n % g)
OBVIOUS

LEMMA DividedOnce ==
  ASSUME NEW g \in Nat \ {0}, NEW q \in Int, NEW r \in Int, 0 <= r, r < g
  PROVE  (g * q + r) \div g = q /\ (g * q + r) % g = r
<1> DEFINE n == g * q + r
<1>1. n \in Int
  OBVIOUS
<1> DEFINE p == n \div g
           s == n % g
<1>2. p \in Int /\ s \in Int /\ 0 <= s /\ s < g /\ n = g * p + s
  <2> HIDE DEF n
  <2> QED BY <1>1, Divided
<1>3. g * p + s = g * q + r
  BY <1>2
<1> HIDE DEF n, p, s
<1>4. g * (p - q) = r - s
  BY <1>2, <1>3
<1>5. p = q
  <2>1. ASSUME p - q >= 1 PROVE FALSE
    <3>1. g * (p - q) >= g
      BY <1>2, <2>1
    <3> QED
      BY <1>2, <1>4, <3>1
  <2>2. ASSUME p - q <= -1 PROVE FALSE
    <3>1. g * (p - q) <= -g
      BY <1>2, <2>2
    <3> QED
      BY <1>2, <1>4, <3>1
  <2> QED
    BY <1>2, <2>1, <2>2
<1>6. s = r
  BY <1>2, <1>3, <1>5
<1> QED
  BY <1>5, <1>6 DEF n, p, s

LEMMA RoundedUp ==
  ASSUME NEW n \in Int
  PROVE  /\ to_grid(n) \in Int /\ to_grid(n) >= n /\ to_grid(n) % Grid = 0
         /\ n % Grid = 0 => to_grid(n) = n
<1>1. Grid \in Nat \ {0}
  BY ContextAssumption
<1> DEFINE q == (n + Grid - 1) \div Grid
           r == (n + Grid - 1) % Grid
<1>2. /\ q \in Int /\ r \in Int /\ 0 <= r /\ r < Grid
      /\ n + Grid - 1 = Grid * q + r
  <2>1. n + Grid - 1 \in Int
    BY <1>1
  <2> QED
    BY <1>1, <2>1, Divided
<1>3. to_grid(n) = q * Grid
  BY DEF to_grid, Upper
<1> HIDE DEF q, r
<1>4. q * Grid = Grid * q + 0 /\ q * Grid \in Int
  BY <1>1, <1>2
<1>5. (Grid * q + 0) % Grid = 0
  <2>1. 0 \in Int /\ 0 <= 0 /\ 0 < Grid
    BY <1>1
  <2> QED
    BY <1>1, <1>2, <2>1, DividedOnce
<1>6. q * Grid >= n
  BY <1>1, <1>2, <1>4
<1>7. ASSUME n % Grid = 0 PROVE q * Grid = n
  <2> DEFINE k == n \div Grid
  <2>1. k \in Int /\ n = Grid * k + (n % Grid)
    BY <1>1, Divided
  <2>2. n = Grid * k
    BY <1>1, <1>7, <2>1
  <2> HIDE DEF k
  <2>3. n + Grid - 1 = Grid * k + (Grid - 1)
    BY <1>1, <2>1, <2>2
  <2>4. Grid - 1 \in Int /\ 0 <= Grid - 1 /\ Grid - 1 < Grid
    BY <1>1
  <2>5. (Grid * k + (Grid - 1)) \div Grid = k
    BY <1>1, <2>1, <2>4, DividedOnce
  <2>6. q = k
    BY <2>3, <2>5 DEF q
  <2> QED
    BY <1>4, <2>1, <2>2, <2>6
<1> QED
  BY <1>3, <1>4, <1>5, <1>6, <1>7

LEMMA DistancesFit ==
  ASSUME NEW r, Rule(r).nm \in Nat
  PROVE  distance(r) \in Int /\ distance(r) % Grid = 0 /\ 1000 * distance(r) >= Rule(r).nm * Micron
<1> DEFINE x == Rule(r).nm * Micron
           n == (x + 999) \div 1000
<1>1. x \in Nat
  <2>1. Micron \in Nat
    BY LayoutAssumption
  <2>2. \A i, j \in Nat : i * j \in Nat
    OBVIOUS
  <2> QED
    BY <2>1, <2>2
<1>2. distance(r) = to_grid(n)
  BY DEF distance
<1> HIDE DEF x
<1>3. n \in Int /\ 1000 * n >= x
  BY <1>1
<1> HIDE DEF n
<1>4. to_grid(n) \in Int /\ to_grid(n) >= n /\ to_grid(n) % Grid = 0
  BY <1>3, RoundedUp
<1>5. 1000 * to_grid(n) >= x
  BY <1>1, <1>3, <1>4
<1> QED
  BY <1>2, <1>4, <1>5 DEF x

LEMMA Aligned ==
  ASSUME NEW c \in Int, NEW d \in Nat \ {0}, c % Grid = 0, d % Grid = 0,
         NEW n \in {c % d, d - (c % d)}
  PROVE  n \in Int /\ n % Grid = 0 /\ 0 \in {(c + n) % d, (c - n) % d}
<1>1. Grid \in Nat \ {0} /\ d \in Int
  BY ContextAssumption
<1> DEFINE a == c \div Grid
           b == d \div Grid
           k == c \div d
           m == c % d
<1>2. a \in Int /\ c = Grid * a
  <2>1. a \in Int /\ c = Grid * a + (c % Grid)
    BY <1>1, Divided
  <2> QED
    BY <1>1, <2>1
<1>3. b \in Int /\ d = Grid * b
  <2>1. b \in Int /\ d = Grid * b + (d % Grid)
    BY <1>1, Divided
  <2> QED
    BY <1>1, <2>1
<1>4. k \in Int /\ m \in Int /\ c = d * k + m
  BY <1>1, Divided
<1> HIDE DEF a, b, k
<1>5. m = Grid * (a - b * k)
  <2>1. d * k = Grid * (b * k)
    BY <1>1, <1>3, <1>4
  <2>2. Grid * (a - b * k) = Grid * a - Grid * (b * k)
    BY <1>1, <1>2, <1>3, <1>4
  <2> HIDE DEF m
  <2>3. d * k \in Int
    BY <1>1, <1>4
  <2> QED
    BY <1>1, <1>2, <1>4, <2>1, <2>2, <2>3
<1>6. d - m = Grid * (b - (a - b * k))
  <2> HIDE DEF m
  <2> DEFINE e == a - b * k
  <2>1. e \in Int /\ m = Grid * e
    BY <1>2, <1>3, <1>4, <1>5
  <2> HIDE DEF e
  <2>2. d - m = Grid * (b - e)
    BY <1>1, <1>3, <2>1
  <2> QED
    BY <2>2 DEF e
<1>7. \A i \in Int : (Grid * i) % Grid = 0
  <2>1. TAKE i \in Int
  <2>2. Grid * i = Grid * i + 0 /\ 0 \in Int /\ 0 <= 0 /\ 0 < Grid
    BY <1>1
  <2>3. (Grid * i + 0) % Grid = 0
    BY <1>1, <2>2, DividedOnce
  <2> QED
    BY <2>2, <2>3
<1>8. \A i \in Int : (d * i) % d = 0
  <2>1. TAKE i \in Int
  <2>2. d * i = d * i + 0 /\ 0 \in Int /\ 0 <= 0 /\ 0 < d
    BY <1>1
  <2>3. (d * i + 0) % d = 0
    BY <1>1, <2>2, DividedOnce
  <2> QED
    BY <2>2, <2>3
<1>9. a - b * k \in Int /\ b - (a - b * k) \in Int /\ k + 1 \in Int
  BY <1>2, <1>3, <1>4
<1>10. c - m = d * k /\ c + (d - m) = d * (k + 1)
  <2> HIDE DEF m
  <2> QED BY <1>1, <1>4
<1> HIDE DEF m
<1>11. CASE n = m
  <2>1. n % Grid = 0
    BY <1>5, <1>7, <1>9, <1>11
  <2>2. (c - n) % d = 0
    BY <1>4, <1>8, <1>10, <1>11
  <2> QED
    BY <1>4, <1>11, <2>1, <2>2
<1>12. CASE n = d - m
  <2>1. n % Grid = 0
    BY <1>6, <1>7, <1>9, <1>12
  <2>2. (c + n) % d = 0
    BY <1>8, <1>9, <1>10, <1>12
  <2> QED
    BY <1>1, <1>4, <1>12, <2>1, <2>2
<1> QED
  BY <1>11, <1>12 DEF m

-----------------------------------------------------------------------------
(* The hints of a region's context.                                            *)

Closes(v, o, r, h) ==
  CASE Rule(r).semantics = "ENCLOSURE" ->
         \/ marker(v)[1] - (obj(o).box[1] - h) >= distance(r)
         \/ (obj(o).box[2] + h) - marker(v)[2] >= distance(r)
    [] Rule(r).semantics = "VIA_METAL_WIDTH" ->
         \E x \in objects(v) : Via(obj(x).layer) /\ obj(o).thick + h >= obj(x).thick
    [] OTHER ->
         \E i \in {1, 2} : obj(o).box[i] % Grid = 0 =>
           0 \in {(obj(o).box[i] + h) % distance(r), (obj(o).box[i] - h) % distance(r)}
HintFits(g, r, h) ==
  /\ h % Grid = 0 /\ h \in 1..MaxDistance /\ 1000 * distance(r) >= Rule(r).nm * Micron
  /\ \E v \in g.violations : \E o \in objects(v) : rule(v) = r /\ Closes(v, o, r, h)

LEMMA RulesKnown ==
  ASSUME design \in Designs, NEW v \in Reported
  PROVE  Rule(rule(v)).nm \in Nat
BY ContextAssumption DEF rule

LEMMA ShortfallsClose ==
  ASSUME LayoutKnown, SitesKnown, NEW v \in Reported, NEW n \in shortfalls(v),
         Rule(rule(v)).nm \in Nat, has_distance(rule(v)), NEW h, h = to_grid(n)
  PROVE  n \in Int /\ \E o \in objects(v) : Closes(v, o, rule(v), h)
<1> DEFINE r == rule(v)
           d == distance(r)
           metals == {o \in objects(v) : ~Via(obj(o).layer)}
           vias == objects(v) \ metals
           off(c) == Min({c % d, d - (c % d)})
<1>1. /\ \A o \in objects(v) : /\ obj(o).box[1] \in Int /\ obj(o).box[2] \in Int /\ obj(o).thick \in Int
      /\ marker(v)[1] \in Int /\ marker(v)[2] \in Int
  <2>1. objects(v) \in SUBSET LayoutObjects
    BY DEF SitesKnown, Sites, objects
  <2>2. \A o \in LayoutObjects : obj(o).box[1] \in Int /\ obj(o).box[2] \in Int /\ obj(o).thick \in Nat
    BY DEF LayoutKnown
  <2>3. marker(v)[1] \in Int /\ marker(v)[2] \in Int
    BY DEF LayoutKnown
  <2>4. \A i \in Nat : i \in Int
    OBVIOUS
  <2> QED
    BY <2>1, <2>2, <2>3, <2>4
<1>2. d \in Nat \ {0} /\ d % Grid = 0
  <2>1. distance(r) % Grid = 0
    BY DistancesFit
  <2>2. distance(r) \in 1..MaxDistance
    BY DEF has_distance
  <2>3. MaxDistance \in Nat
    BY ContextAssumption
  <2> QED
    BY <2>1, <2>2, <2>3
<1>3. shortfalls(v) =
        CASE Rule(r).semantics = "ENCLOSURE" ->
               UNION {{d - (marker(v)[1] - obj(o).box[1]), d - (obj(o).box[2] - marker(v)[2])} : o \in metals}
          [] Rule(r).semantics = "VIA_METAL_WIDTH" ->
               {obj(x).thick - obj(o).thick : x \in vias, o \in metals}
          [] Rule(r).semantics = "GRID_ALIGNMENT" ->
               UNION {{off(obj(o).box[1]), off(obj(o).box[2])} : o \in objects(v)}
          [] OTHER -> {}
  BY DEF shortfalls
<1>4. metals \subseteq objects(v) /\ vias \subseteq objects(v) /\ \A x \in vias : Via(obj(x).layer)
  OBVIOUS
<1>5. \A i \in Int : to_grid(i) \in Int /\ to_grid(i) >= i /\ (i % Grid = 0 => to_grid(i) = i)
  BY RoundedUp
<1> HIDE DEF d, metals, vias, r
<1>6. CASE Rule(r).semantics = "ENCLOSURE"
  <2>1. shortfalls(v) =
          UNION {{d - (marker(v)[1] - obj(o).box[1]), d - (obj(o).box[2] - marker(v)[2])} : o \in metals}
    BY <1>3, <1>6
  <2>2. PICK o \in metals : n = d - (marker(v)[1] - obj(o).box[1]) \/ n = d - (obj(o).box[2] - marker(v)[2])
    BY <2>1
  <2>3. o \in objects(v) /\ obj(o).box[1] \in Int /\ obj(o).box[2] \in Int
    BY <1>1, <1>4, <2>2
  <2>4. n \in Int
    BY <1>1, <1>2, <2>2, <2>3
  <2>5. h \in Int /\ h >= n
    BY <1>5, <2>4
  <2>6. marker(v)[1] - (obj(o).box[1] - h) >= d \/ (obj(o).box[2] + h) - marker(v)[2] >= d
    BY <1>1, <1>2, <2>2, <2>3, <2>4, <2>5
  <2>7. Closes(v, o, r, h)
    BY <1>6, <2>6 DEF Closes, d
  <2> QED
    BY <2>3, <2>4, <2>7 DEF r
<1>7. CASE Rule(r).semantics = "VIA_METAL_WIDTH"
  <2>1. shortfalls(v) = {obj(x).thick - obj(o).thick : x \in vias, o \in metals}
    BY <1>3, <1>7
  <2>2. PICK x \in vias, o \in metals : n = obj(x).thick - obj(o).thick
    BY <2>1
  <2>3. x \in objects(v) /\ Via(obj(x).layer) /\ o \in objects(v) /\ obj(x).thick \in Int /\ obj(o).thick \in Int
    BY <1>1, <1>4, <2>2
  <2>4. n \in Int
    BY <2>2, <2>3
  <2>5. h \in Int /\ h >= n
    BY <1>5, <2>4
  <2>6. obj(o).thick + h >= obj(x).thick
    BY <2>2, <2>3, <2>4, <2>5
  <2>7. Closes(v, o, r, h)
    BY <1>7, <2>3, <2>6 DEF Closes
  <2> QED
    BY <2>3, <2>4, <2>7 DEF r
<1>8. CASE Rule(r).semantics = "GRID_ALIGNMENT"
  <2>1. shortfalls(v) = UNION {{off(obj(o).box[1]), off(obj(o).box[2])} : o \in objects(v)}
    BY <1>3, <1>8
  <2>2. PICK o \in objects(v) : \E i \in {1, 2} : n = off(obj(o).box[i])
    BY <2>1
  <2>3. PICK i \in {1, 2} : n = off(obj(o).box[i])
    BY <2>2
  <2> DEFINE c == obj(o).box[i]
  <2>4. c \in Int
    BY <1>1, <2>2, <2>3
  <2> HIDE DEF c
  <2>5. n \in {c % d, d - (c % d)} /\ n \in Int
    <3>1. c % d \in Int /\ d - (c % d) \in Int
      BY <1>2, <2>4
    <3>2. Min({c % d, d - (c % d)}) \in {c % d, d - (c % d)}
      BY <3>1, OfTwo
    <3>3. n = Min({c % d, d - (c % d)})
      BY <2>3 DEF c
    <3> QED
      BY <3>1, <3>2, <3>3
  <2>6. ASSUME c % Grid = 0 PROVE 0 \in {(c + h) % d, (c - h) % d}
    <3>1. n % Grid = 0 /\ 0 \in {(c + n) % d, (c - n) % d}
      BY <1>2, <2>4, <2>5, <2>6, Aligned
    <3>2. h = n
      BY <1>5, <2>5, <3>1
    <3> QED
      BY <3>1, <3>2
  <2>7. Closes(v, o, r, h)
    BY <1>8, <2>6 DEF Closes, c, d
  <2> QED
    BY <2>2, <2>5, <2>7 DEF r
<1>9. CASE /\ Rule(r).semantics # "ENCLOSURE" /\ Rule(r).semantics # "VIA_METAL_WIDTH"
           /\ Rule(r).semantics # "GRID_ALIGNMENT"
  BY <1>3, <1>9
<1> QED
  BY <1>6, <1>7, <1>8, <1>9

LEMMA DerivedFits ==
  ASSUME design \in Designs, SitesKnown, NEW g, NEW v \in g.violations, v \in Reported,
         has_distance(rule(v)), NEW h \in derived(v)
  PROVE  HintFits(g, rule(v), h)
<1>1. Rule(rule(v)).nm \in Nat
  BY RulesKnown
<1>2. LayoutKnown
  BY DesignsAreLayouts
<1>3. PICK n \in shortfalls(v) : h = to_grid(n)
  BY DEF derived
<1>4. n \in Int /\ \E o \in objects(v) : Closes(v, o, rule(v), h)
  BY <1>1, <1>2, <1>3, ShortfallsClose
<1>5. h % Grid = 0
  BY <1>3, <1>4, RoundedUp
<1>6. h \in 1..MaxDistance
  BY DEF derived
<1>7. 1000 * distance(rule(v)) >= Rule(rule(v)).nm * Micron
  BY <1>1, DistancesFit
<1> QED
  BY <1>4, <1>5, <1>6, <1>7 DEF HintFits

-----------------------------------------------------------------------------
(* What a context lists at first.                                              *)

LEMMA NamesAreNumbers ==
  /\ Reported \in SUBSET Int /\ IsFiniteSet(Reported)
  /\ LayoutObjects \in SUBSET Int /\ IsFiniteSet(LayoutObjects)
<1>1. /\ Reported \subseteq Nat /\ IsFiniteSet(Reported)
      /\ LayoutObjects \subseteq Nat \ {0} /\ IsFiniteSet(LayoutObjects)
  BY LayoutAssumption
<1>2. \A i \in Nat : i \in Int
  OBVIOUS
<1> QED
  BY <1>1, <1>2

LEMMA PairsAreTuples ==
  ASSUME NEW A \in SUBSET Int, NEW B \in SUBSET Int
  PROVE  A \X B \in SUBSET [1..2 -> Int]
<1>1. SUFFICES ASSUME NEW x \in A \X B PROVE x \in [1..2 -> Int]
  OBVIOUS
<1>2. x = <<x[1], x[2]>> /\ x[1] \in A /\ x[2] \in B
  OBVIOUS
<1>3. x[1] \in Int /\ x[2] \in Int
  BY <1>2
<1>4. 1..2 = {1, 2}
  OBVIOUS
<1>5. DOMAIN x = 1..2 /\ x = [i \in 1..2 |-> x[i]]
  BY <1>2
<1>6. \A i \in 1..2 : x[i] \in Int
  BY <1>2, <1>3, <1>4
<1> QED
  BY <1>5, <1>6

LEMMA TriplesAreTuples ==
  ASSUME NEW A \in SUBSET Int, NEW B \in SUBSET Int, NEW C \in SUBSET Int
  PROVE  A \X B \X C \in SUBSET [1..3 -> Int]
<1>1. SUFFICES ASSUME NEW x \in A \X B \X C PROVE x \in [1..3 -> Int]
  OBVIOUS
<1>2. x = <<x[1], x[2], x[3]>> /\ x[1] \in A /\ x[2] \in B /\ x[3] \in C
  OBVIOUS
<1>3. x[1] \in Int /\ x[2] \in Int /\ x[3] \in Int
  BY <1>2
<1>4. 1..3 = {1, 2, 3}
  OBVIOUS
<1>5. DOMAIN x = 1..3 /\ x = [i \in 1..3 |-> x[i]]
  BY <1>2
<1>6. \A i \in 1..3 : x[i] \in Int
  BY <1>2, <1>3, <1>4
<1> QED
  BY <1>5, <1>6

LEMMA TriplesAreFinite ==
  ASSUME NEW A, NEW B, NEW C, IsFiniteSet(A), IsFiniteSet(B), IsFiniteSet(C)
  PROVE  IsFiniteSet(A \X B \X C)
<1> DEFINE P == (A \X B) \X C
           f == [p \in P |-> <<p[1][1], p[1][2], p[2]>>]
<1>1. IsFiniteSet(P)
  BY FS_Product
<1>2. IsFiniteSet({f[p] : p \in P})
  <2> HIDE DEF P, f
  <2> QED BY <1>1, ImagesAreFinite
<1>3. A \X B \X C \in SUBSET {f[p] : p \in P}
  <2>1. SUFFICES ASSUME NEW a \in A, NEW b \in B, NEW c \in C
                 PROVE  <<a, b, c>> \in {f[p] : p \in P}
    OBVIOUS
  <2>2. <<<<a, b>>, c>> \in P /\ f[<<<<a, b>>, c>>] = <<a, b, c>>
    OBVIOUS
  <2> QED
    BY <2>2
<1> QED
  BY <1>2, <1>3, FS_Subset

FragmentNames == LayoutObjects \X Reported
EndpointNames == LayoutObjects \X Reported \X {1, 2}
LandingNames == Reported \X Nat \X (LayoutObjects \cup {0})

LEMMA FragmentsListed ==
  ASSUME NEW S \in SUBSET FragmentNames
  PROVE  AsSeq(S) \in Seq(S) /\ ToSet(AsSeq(S)) = S
<1>1. FragmentNames \in SUBSET [1..2 -> Int]
  BY NamesAreNumbers, PairsAreTuples DEF FragmentNames
<1>2. IsFiniteSet(S)
  BY NamesAreNumbers, FS_Product, FS_Subset DEF FragmentNames
<1>3. S \in SUBSET [1..2 -> Int] /\ 2 \in Nat
  BY <1>1
<1> QED
  BY <1>2, <1>3, TuplesListed

LEMMA EndpointsListed ==
  ASSUME NEW S \in SUBSET EndpointNames
  PROVE  AsSeq(S) \in Seq(S) /\ ToSet(AsSeq(S)) = S
<1>1. {1, 2} \in SUBSET Int /\ IsFiniteSet({1, 2})
  <2>1. {1, 2} = {1} \cup {2} /\ {1, 2} \in SUBSET Int
    OBVIOUS
  <2>2. IsFiniteSet({1} \cup {2})
    BY FS_Singleton, FS_Union
  <2> QED
    BY <2>1, <2>2
<1>2. EndpointNames \in SUBSET [1..3 -> Int]
  BY <1>1, NamesAreNumbers, TriplesAreTuples DEF EndpointNames
<1>3. IsFiniteSet(EndpointNames)
  BY <1>1, NamesAreNumbers, TriplesAreFinite DEF EndpointNames
<1>4. IsFiniteSet(S) /\ S \in SUBSET [1..3 -> Int] /\ 3 \in Nat
  BY <1>2, <1>3, FS_Subset
<1> QED
  BY <1>4, TuplesListed

LEMMA LandingsKnown ==
  ASSUME LayoutKnown
  PROVE  all_landings \in SUBSET LandingNames /\ IsFiniteSet(all_landings)
<1> DEFINE L == UNION {design.layers[u] : u \in Reported}
           O == LayoutObjects \cup {0}
<1>1. IsFiniteSet(L)
  <2> DEFINE f == [u \in Reported |-> design.layers[u]]
             T == {f[u] : u \in Reported}
  <2>1. IsFiniteSet(T)
    <3> HIDE DEF f
    <3> QED BY NamesAreNumbers, ImagesAreFinite
  <2>2. \A t \in T : IsFiniteSet(t)
    BY DEF LayoutKnown
  <2>3. L = UNION T
    OBVIOUS
  <2> HIDE DEF T
  <2> QED
    BY <2>1, <2>2, <2>3, FS_UNION
<1>2. IsFiniteSet(O)
  BY NamesAreNumbers, FS_Singleton, FS_Union
<1>3. \A x \in all_landings : x \in LandingNames /\ x[2] \in L
  <2>1. \A x \in all_landings : x \in LandingNames /\ x[2] \in design.layers[x[1]]
    BY DEF all_landings, LandingNames
  <2>2. \A x \in LandingNames : x[1] \in Reported
    BY DEF LandingNames
  <2> QED
    BY <2>1, <2>2
<1> HIDE DEF L, O
<1>4. all_landings \in SUBSET (Reported \X L \X O)
  <2>1. \A x \in LandingNames : x[2] \in L => x \in Reported \X L \X O
    BY DEF LandingNames, O
  <2> QED
    BY <1>3, <2>1
<1>5. IsFiniteSet(Reported \X L \X O)
  BY <1>1, <1>2, NamesAreNumbers, TriplesAreFinite
<1> QED
  BY <1>3, <1>4, <1>5, FS_Subset

LEMMA LandingsListed ==
  ASSUME LayoutKnown, NEW S \in SUBSET all_landings
  PROVE  AsSeq(S) \in Seq(S) /\ ToSet(AsSeq(S)) = S
<1>1. LandingNames \in SUBSET [1..3 -> Int]
  <2>1. \A i \in Nat : i \in Int
    OBVIOUS
  <2>2. Reported \in SUBSET Int /\ Nat \in SUBSET Int /\ LayoutObjects \cup {0} \in SUBSET Int
    BY <2>1, NamesAreNumbers
  <2> QED
    BY <2>2, TriplesAreTuples DEF LandingNames
<1>2. IsFiniteSet(S) /\ S \in SUBSET [1..3 -> Int] /\ 3 \in Nat
  BY <1>1, LandingsKnown, FS_Subset
<1> QED
  BY <1>2, TuplesListed

LEMMA ThreeAndTwo ==
  ASSUME NEW i \in Int, NEW j \in Int, NEW k \in Int, NEW m \in Int, NEW n \in Int
  PROVE  <<i, j, k>> \o <<m, n>> = <<i, j, k, m, n>>
<1> DEFINE s == <<i, j, k>>
           t == <<m, n>>
           w == <<i, j, k, m, n>>
<1>1. s \in Seq(Int) /\ t \in Seq(Int) /\ w \in Seq(Int) /\ Len(s) = 3 /\ Len(t) = 2 /\ Len(w) = 5
  OBVIOUS
<1>2. s[1] = w[1] /\ s[2] = w[2] /\ s[3] = w[3] /\ t[1] = w[4] /\ t[2] = w[5]
  OBVIOUS
<1> HIDE DEF s, t, w
<1>3. /\ s \o t \in Seq(Int) /\ Len(s \o t) = Len(s) + Len(t)
      /\ \A x \in 1..(Len(s) + Len(t)) : (s \o t)[x] = IF x <= Len(s) THEN s[x] ELSE t[x - Len(s)]
  BY <1>1, ConcatProperties
<1>4. Len(s \o t) = 5 /\ \A x \in 1..5 : (s \o t)[x] = IF x <= 3 THEN s[x] ELSE t[x - 3]
  BY <1>1, <1>3
<1>5. /\ (s \o t)[1] = w[1] /\ (s \o t)[2] = w[2] /\ (s \o t)[3] = w[3]
      /\ (s \o t)[4] = w[4] /\ (s \o t)[5] = w[5]
  BY <1>2, <1>4
<1>6. \A x \in 1..5 : x \in {1, 2, 3, 4, 5}
  OBVIOUS
<1>7. \A x \in 1..Len(w) : (s \o t)[x] = w[x]
  BY <1>1, <1>5, <1>6
<1>8. s \o t = w
  BY <1>1, <1>3, <1>4, <1>7, SeqEqual
<1> QED
  BY <1>8 DEF s, t, w

LEMMA AdjacenciesListed ==
  ASSUME LayoutKnown, NEW S \in SUBSET (all_landings \X FragmentNames)
  PROVE  LET s == Ordered(S, LAMBDA a, b : Before(a[1] \o a[2], b[1] \o b[2])) IN
         s \in Seq(S) /\ ToSet(s) = S
<1> DEFINE key == [a \in S |-> a[1] \o a[2]]
           below == [x \in S |-> {y \in S : Before(y[1] \o y[2], x[1] \o x[2])}]
           s == Ordered(S, LAMBDA a, b : Before(a[1] \o a[2], b[1] \o b[2]))
<1>1. IsFiniteSet(S)
  BY LandingsKnown, NamesAreNumbers, FS_Product, FS_Subset DEF FragmentNames
<1>2. \A a \in S : \E i, j, k, m, n \in Int :
        a = <<<<i, j, k>>, <<m, n>>>> /\ a[1] \o a[2] = <<i, j, k, m, n>>
  <2>1. TAKE a \in S
  <2>2. a = <<a[1], a[2]>> /\ a[1] \in LandingNames /\ a[2] \in FragmentNames
    BY LandingsKnown
  <2>3. PICK i \in Reported, j \in Nat, k \in LayoutObjects \cup {0} : a[1] = <<i, j, k>>
    BY <2>2 DEF LandingNames
  <2>4. PICK m \in LayoutObjects, n \in Reported : a[2] = <<m, n>>
    BY <2>2 DEF FragmentNames
  <2>5. i \in Int /\ j \in Int /\ k \in Int /\ m \in Int /\ n \in Int
    BY NamesAreNumbers
  <2>6. <<i, j, k>> \o <<m, n>> = <<i, j, k, m, n>>
    BY <2>5, ThreeAndTwo
  <2> QED
    BY <2>2, <2>3, <2>4, <2>5, <2>6
<1>3. \A a \in S : key[a] \in [1..5 -> Int]
  <2> TAKE a \in S
  <2>1. \E i, j, k, m, n \in Int :
          a = <<<<i, j, k>>, <<m, n>>>> /\ a[1] \o a[2] = <<i, j, k, m, n>>
    BY <1>2
  <2>2. PICK i, j, k, m, n \in Int :
          a = <<<<i, j, k>>, <<m, n>>>> /\ a[1] \o a[2] = <<i, j, k, m, n>>
    BY <2>1
  <2>3. 1..5 = {1, 2, 3, 4, 5}
    OBVIOUS
  <2>4. <<i, j, k, m, n>> = [x \in 1..5 |-> <<i, j, k, m, n>>[x]]
    OBVIOUS
  <2>5. \A x \in 1..5 : <<i, j, k, m, n>>[x] \in Int
    BY <2>3
  <2> QED
    BY <2>2, <2>4, <2>5
<1>4. \A a, b \in S : key[a] = key[b] => a = b
  <2>1. TAKE a, b \in S
  <2>2. PICK i, j, k, m, n \in Int : a = <<<<i, j, k>>, <<m, n>>>> /\ a[1] \o a[2] = <<i, j, k, m, n>>
    BY <1>2
  <2>3. PICK p, q, r, t, u \in Int : b = <<<<p, q, r>>, <<t, u>>>> /\ b[1] \o b[2] = <<p, q, r, t, u>>
    BY <1>2
  <2>4. HAVE key[a] = key[b]
  <2>5. <<i, j, k, m, n>> = <<p, q, r, t, u>>
    BY <2>2, <2>3, <2>4
  <2>6. i = p /\ j = q /\ k = r /\ m = t /\ n = u
    BY <2>5
  <2> QED
    BY <2>2, <2>3, <2>6
<1>5. key \in [S -> [1..5 -> Int]]
  BY <1>3
<1>6. \A x \in S : below[x] = {y \in S : Before(key[y], key[x])}
  OBVIOUS
<1>7. below \in [S -> SUBSET S] /\ \A x \in S : below[x] = {y \in S : Before(y[1] \o y[2], x[1] \o x[2])}
  OBVIOUS
<1> HIDE DEF key, below
<1>8. StrictOrder(S, below)
  <2>1. PICK n \in Nat : n = 5
    OBVIOUS
  <2>2. key \in [S -> [1..n -> Int]]
    BY <1>5, <2>1
  <2> QED
    BY <1>4, <1>6, <2>2, KeyedOrder
<1>9. s = [i \in 1..Cardinality(S) |-> CHOOSE x \in S : Cardinality(below[x]) = i - 1]
  <2>1. s = [i \in 1..Cardinality(S) |->
               CHOOSE x \in S : Cardinality({y \in S : Before(y[1] \o y[2], x[1] \o x[2])}) = i - 1]
    BY DEF Ordered
  <2>2. \A i : (CHOOSE x \in S : Cardinality({y \in S : Before(y[1] \o y[2], x[1] \o x[2])}) = i - 1)
             = (CHOOSE x \in S : Cardinality(below[x]) = i - 1)
    <3>1. TAKE i
    <3>2. \A x : (x \in S /\ Cardinality({y \in S : Before(y[1] \o y[2], x[1] \o x[2])}) = i - 1)
              <=> (x \in S /\ Cardinality(below[x]) = i - 1)
      BY <1>7
    <3> QED
      BY <3>2
  <2> QED
    BY <2>1, <2>2
<1>10. Listing(s, S, below)
  BY <1>1, <1>7, <1>8, <1>9, ListingByRank
<1> HIDE DEF s
<1>11. s \in Seq(S) /\ ToSet(s) = S
  BY <1>1, <1>7, <1>8, <1>10, Listings
<1> QED
  BY <1>11 DEF s

LEMMA QualitiesKnown ==
  ASSUME design \in Designs, NEW v \in Reported
  PROVE  quality(v) \in Int
<1>1. witness(v) = {} \/ \E w \in witness(v) : witness(v) = {w} /\ w.quality \in 0..4
  BY ContextAssumption DEF witness
<1>2. CASE witness(v) = {}
  BY <1>2 DEF quality
<1>3. ASSUME NEW w \in witness(v), witness(v) = {w}, w.quality \in 0..4 PROVE quality(v) \in Int
  <2>1. {x.quality : x \in witness(v)} = {w.quality}
    BY <1>3
  <2>2. quality(v) = Min({w.quality})
    BY <1>3, <2>1 DEF quality
  <2>3. w.quality \in Int
    BY <1>3
  <2>4. Min({w.quality, w.quality}) \in {w.quality, w.quality}
    BY <2>3, OfTwo
  <2>5. {w.quality, w.quality} = {w.quality}
    OBVIOUS
  <2> QED
    BY <2>2, <2>3, <2>4, <2>5
<1> QED
  BY <1>1, <1>2, <1>3

LEMMA ViolationsListed ==
  ASSUME design \in Designs, NEW vs \in SUBSET Reported
  PROVE  LET s == violation_priority(vs) IN
         /\ s \in Seq(vs) /\ ToSet(s) = vs /\ \A i, j \in DOMAIN s : s[i] = s[j] => i = j
         /\ (\E v \in vs : Sources(v) # {}) => s # <<>> /\ Sources(s[1]) # {}
<1> DEFINE key == [v \in vs |-> Rank(v)]
           below == [x \in vs |-> {y \in vs : Before(Rank(y), Rank(x))}]
           s == violation_priority(vs)
<1>1. IsFiniteSet(vs)
  BY NamesAreNumbers, FS_Subset
<1>2. \A v \in vs : /\ Rank(v)[1] = (IF Sources(v) = {} THEN 1 ELSE 0) /\ Rank(v)[3] = v
                    /\ Rank(v) \in [1..3 -> Int]
  <2>1. TAKE v \in vs
  <2> DEFINE a == IF Sources(v) = {} THEN 1 ELSE 0
             b == quality(v)
  <2>2. a \in Int /\ b \in Int /\ v \in Int
    BY NamesAreNumbers, QualitiesKnown
  <2>3. Rank(v) = <<a, b, v>>
    BY DEF Rank
  <2> HIDE DEF a, b
  <2>4. 1..3 = {1, 2, 3}
    OBVIOUS
  <2>5. <<a, b, v>> = [i \in 1..3 |-> <<a, b, v>>[i]]
    OBVIOUS
  <2>6. \A i \in 1..3 : <<a, b, v>>[i] \in Int
    BY <2>2, <2>4
  <2>7. <<a, b, v>> \in [1..3 -> Int]
    BY <2>5, <2>6
  <2> QED
    BY <2>3, <2>7 DEF a
<1>3. key \in [vs -> [1..3 -> Int]]
  BY <1>2
<1>4. \A x, y \in vs : key[x] = key[y] => x = y
  BY <1>2
<1>5. \A x \in vs : below[x] = {y \in vs : Before(key[y], key[x])}
  OBVIOUS
<1>6. below \in [vs -> SUBSET vs] /\ \A x \in vs : below[x] = {y \in vs : Before(Rank(y), Rank(x))}
  OBVIOUS
<1> HIDE DEF key, below
<1>7. StrictOrder(vs, below)
  <2>1. PICK n \in Nat : n = 3
    OBVIOUS
  <2>2. key \in [vs -> [1..n -> Int]]
    BY <1>3, <2>1
  <2> QED
    BY <1>4, <1>5, <2>2, KeyedOrder
<1>8. s = [i \in 1..Cardinality(vs) |-> CHOOSE x \in vs : Cardinality(below[x]) = i - 1]
  <2>1. s = [i \in 1..Cardinality(vs) |->
               CHOOSE x \in vs : Cardinality({y \in vs : Before(Rank(y), Rank(x))}) = i - 1]
    BY DEF violation_priority, Ordered
  <2>2. \A i : (CHOOSE x \in vs : Cardinality({y \in vs : Before(Rank(y), Rank(x))}) = i - 1)
             = (CHOOSE x \in vs : Cardinality(below[x]) = i - 1)
    <3>1. TAKE i
    <3>2. \A x : (x \in vs /\ Cardinality({y \in vs : Before(Rank(y), Rank(x))}) = i - 1)
              <=> (x \in vs /\ Cardinality(below[x]) = i - 1)
      BY <1>6
    <3> QED
      BY <3>2
  <2> QED
    BY <2>1, <2>2
<1>9. Listing(s, vs, below)
  BY <1>1, <1>6, <1>7, <1>8, ListingByRank
<1> HIDE DEF s
<1>10. /\ s \in Seq(vs) /\ ToSet(s) = vs
       /\ \A i, j \in DOMAIN s : s[i] = s[j] => i = j
       /\ \A i, j \in DOMAIN s : i < j => s[i] \in below[s[j]]
  BY <1>1, <1>6, <1>7, <1>9, Listings
<1>11. ASSUME NEW v \in vs, Sources(v) # {} PROVE s # <<>> /\ Sources(s[1]) # {}
  <2>1. DOMAIN s = 1..Len(s) /\ Len(s) \in Nat /\ \A i \in 1..Len(s) : s[i] \in vs
    BY <1>10
  <2>2. PICK j \in 1..Len(s) : s[j] = v
    BY <1>10, <2>1 DEF ToSet
  <2>3. 1 \in 1..Len(s) /\ Len(s) # 0 /\ (j = 1 \/ 1 < j)
    BY <2>1, <2>2
  <2>4. CASE 1 < j
    <3>1. s[1] \in below[v]
      BY <1>10, <2>1, <2>2, <2>3, <2>4
    <3>2. Before(Rank(s[1]), Rank(v)) /\ s[1] \in vs
      BY <1>6, <2>1, <2>3, <3>1
    <3>3. PICK i \in DOMAIN Rank(s[1]) : /\ Rank(s[1])[i] < Rank(v)[i]
                                         /\ \A k \in 1..(i - 1) : Rank(s[1])[k] = Rank(v)[k]
      BY <3>2 DEF Before
    <3>4. i \in 1..3
      BY <1>2, <3>2, <3>3
    <3>5. Rank(v)[1] = 0
      BY <1>2, <1>11
    <3>6. ASSUME Sources(s[1]) = {} PROVE FALSE
      <4>1. Rank(s[1])[1] = 1
        BY <1>2, <3>2, <3>6
      <4>2. i # 1
        BY <3>3, <3>5, <4>1
      <4>3. 1 \in 1..(i - 1)
        BY <3>4, <4>2
      <4> QED
        BY <3>3, <3>5, <4>1, <4>3
    <3> QED
      BY <2>1, <2>3, <3>6
  <2>5. CASE j = 1
    BY <1>11, <2>1, <2>2, <2>3, <2>5
  <2> QED
    BY <2>3, <2>4, <2>5
<1>12. /\ s \in Seq(vs) /\ ToSet(s) = vs /\ \A i, j \in DOMAIN s : s[i] = s[j] => i = j
       /\ (\E v \in vs : Sources(v) # {}) => s # <<>> /\ Sources(s[1]) # {}
  BY <1>10, <1>11
<1> QED
  BY <1>12 DEF s

-----------------------------------------------------------------------------
(* The truncation.                                                             *)

LEMMA Popped ==
  ASSUME NEW S, NEW s \in Seq(S), s # <<>>
  PROVE  /\ Pop(s) \in Seq(S) /\ ToSet(Pop(s)) \in SUBSET ToSet(s) /\ Len(Pop(s)) = Len(s) - 1
         /\ Len(s) \in Nat /\ Len(s) >= 1 /\ Last(s) \in ToSet(s)
         /\ \A i \in 1..(Len(s) - 1) : Pop(s)[i] = s[i]
         /\ (\A i, j \in DOMAIN s : s[i] = s[j] => i = j) =>
              /\ \A i, j \in DOMAIN Pop(s) : Pop(s)[i] = Pop(s)[j] => i = j
              /\ ToSet(Pop(s)) = ToSet(s) \ {Last(s)}
<1> DEFINE n == Len(s) - 1
<1>1. Len(s) \in Nat /\ Len(s) >= 1 /\ DOMAIN s = 1..Len(s) /\ n \in Nat
  BY EmptySeq
<1>2. Pop(s) = [i \in 1..n |-> s[i]] /\ Last(s) = s[Len(s)]
  BY <1>1 DEF Pop, Last
<1>3. \A i \in 1..n : i \in 1..Len(s)
  BY <1>1
<1>4. Pop(s) \in Seq(S) /\ Len(Pop(s)) = n /\ DOMAIN Pop(s) = 1..n /\ \A i \in 1..n : Pop(s)[i] = s[i]
  BY <1>1, <1>2, <1>3
<1>5. \A i \in 1..Len(s) : i \in 1..n \/ i = Len(s)
  <2> DEFINE k == Len(s)
  <2>1. k \in Nat /\ n = k - 1
    BY <1>1
  <2> HIDE DEF k, n
  <2>2. \A i \in 1..k : i \in 1..n \/ i = k
    BY <2>1
  <2> QED
    BY <2>2 DEF k
<1>6. Len(s) \in 1..Len(s) /\ Len(s) \notin 1..n
  BY <1>1
<1> HIDE DEF n
<1>7. ToSet(s) = {s[i] : i \in 1..Len(s)} /\ ToSet(Pop(s)) = {s[i] : i \in 1..n}
  BY <1>1, <1>4 DEF ToSet
<1>8. ASSUME \A i, j \in DOMAIN s : s[i] = s[j] => i = j
      PROVE  /\ \A i, j \in DOMAIN Pop(s) : Pop(s)[i] = Pop(s)[j] => i = j
             /\ ToSet(Pop(s)) = ToSet(s) \ {Last(s)}
  <2>1. \A i, j \in DOMAIN Pop(s) : Pop(s)[i] = Pop(s)[j] => i = j
    BY <1>1, <1>3, <1>4, <1>8
  <2>2. \A i \in 1..n : s[i] # Last(s)
    BY <1>1, <1>2, <1>3, <1>6, <1>8
  <2>3. ToSet(Pop(s)) = ToSet(s) \ {Last(s)}
    BY <1>2, <1>3, <1>5, <1>7, <2>2
  <2> QED
    BY <2>1, <2>3
<1>9. ToSet(Pop(s)) \in SUBSET ToSet(s) /\ Last(s) \in ToSet(s)
  BY <1>2, <1>3, <1>6, <1>7
<1> QED
  BY <1>1, <1>4, <1>8, <1>9 DEF n

\* What the lists of a context hold, whatever was cut.
ContextFields ==
  {"region", "violations", "witnesses", "rules", "hints", "editable", "frozen", "slices", "shown", "fragments",
   "endpoints", "landings", "adjacencies", "neighbours", "evidence", "included", "assoc", "grounded",
   "segments", "vias"}
ContextTyped(c) ==
  /\ DOMAIN c = ContextFields /\ c = [f \in ContextFields |-> c[f]]
  /\ RegionTyped(c.region) /\ c.violations \in Seq(c.region.violations)
  /\ \A i, j \in DOMAIN c.violations : c.violations[i] = c.violations[j] => i = j
  /\ c.editable \in Seq(LayoutObjects) /\ c.frozen \in Seq(LayoutObjects)
  /\ c.fragments \in Seq(FragmentNames) /\ c.endpoints \in Seq(EndpointNames)
  /\ c.landings \in Seq(LandingNames) /\ c.adjacencies \in Seq(LandingNames \X FragmentNames)
\* Every name is of a listed thing.
ContextClosed(c) ==
  /\ \A e \in ToSet(c.endpoints) : <<e[1], e[2]>> \in ToSet(c.fragments)
  /\ \A a \in ToSet(c.adjacencies) : a[1] \in ToSet(c.landings) /\ a[2] \in ToSet(c.fragments)
\* Witnesses and hints are those of the listed violations, and a violation that
\* an editable source can repair comes first.
ContextInformed(c) ==
  /\ c.witnesses = Witnessed(ToSet(c.violations))
  /\ DOMAIN c.hints = {rule(v) : v \in ToSet(c.violations)}
  /\ (\E v \in c.region.violations : Sources(v) # {}) =>
       c.violations # <<>> /\ Sources(c.violations[1]) # {}
ContextHinted(c) == \A r \in DOMAIN c.hints : \A h \in c.hints[r] : HintFits(c.region, r, h)
ContextKept(c) == ContextTyped(c) /\ ContextClosed(c) /\ ContextInformed(c)

LEMMA Fields ==
  ASSUME NEW c, ContextTyped(c), NEW x
  PROVE  \A f \in ContextFields :
           /\ DOMAIN [c EXCEPT ![f] = x] = ContextFields
           /\ [c EXCEPT ![f] = x] = [g \in ContextFields |-> [c EXCEPT ![f] = x][g]]
           /\ \A g \in ContextFields : [c EXCEPT ![f] = x][g] = IF g = f THEN x ELSE c[g]
BY DEF ContextTyped

LEMMA SequencesGrow ==
  ASSUME NEW S, NEW T, S \subseteq T, NEW s \in Seq(S)
  PROVE  s \in Seq(T)
OBVIOUS

LEMMA Serialized ==
  ASSUME design \in Designs, SitesKnown, NEW r, RegionTyped(r)
  PROVE  ContextKept(serialize(r)) /\ ContextHinted(serialize(r))
<1> DEFINE c == serialize(r)
           vs == r.violations
           order == violation_priority(vs)
           fragments == local_fragments(r)
           landings == {x \in all_landings : x[1] \in vs}
           ends == {e \in all_endpoints : <<e[1], e[2]>> \in fragments}
           joins == {a \in via_metal(all_landings, all_fragments) : a[2] \in fragments}
           joined == Ordered(joins, LAMBDA a, b : Before(a[1] \o a[2], b[1] \o b[2]))
           hinted == [x \in {rule(v) : v \in vs} |-> hints(order, x)]
<1>0. LayoutKnown /\ vs \in SUBSET Reported
  BY DesignsAreLayouts DEF RegionTyped
<1>1. /\ DOMAIN c = ContextFields /\ c = [f \in ContextFields |-> c[f]]
      /\ c.region = r /\ c.violations = order /\ c.witnesses = Witnessed(vs) /\ c.hints = hinted
      /\ c.editable = Ids(r.editable) /\ c.frozen = Ids(r.frozen)
      /\ c.fragments = AsSeq(fragments) /\ c.endpoints = AsSeq(ends)
      /\ c.landings = AsSeq(landings) /\ c.adjacencies = joined
  BY DEF serialize, ContextFields
<1>2. /\ order \in Seq(vs) /\ ToSet(order) = vs
      /\ \A i, j \in DOMAIN order : order[i] = order[j] => i = j
      /\ (\E v \in vs : Sources(v) # {}) => order # <<>> /\ Sources(order[1]) # {}
  BY <1>0, ViolationsListed
<1>3. fragments \in SUBSET FragmentNames /\ \A f \in fragments : f[2] \in vs /\ f \in all_fragments
  BY DEF local_fragments, all_fragments, FragmentNames
<1>4. ends \in SUBSET EndpointNames
  BY DEF all_endpoints, all_fragments, EndpointNames
<1>5. /\ joins \in SUBSET (all_landings \X FragmentNames)
      /\ \A a \in joins : a[1] \in landings /\ a[2] \in fragments
  <2>1. all_fragments \in SUBSET FragmentNames
    BY DEF all_fragments, FragmentNames
  <2>2. \A a \in joins : a \in all_landings \X all_fragments /\ a[1][1] = a[2][2] /\ a[2] \in fragments
    BY DEF via_metal
  <2> QED
    BY <1>3, <2>1, <2>2
<1>6. AsSeq(fragments) \in Seq(FragmentNames) /\ ToSet(AsSeq(fragments)) = fragments
  <2>1. AsSeq(fragments) \in Seq(fragments) /\ ToSet(AsSeq(fragments)) = fragments
    BY <1>3, FragmentsListed
  <2> QED
    BY <1>3, <2>1
<1>7. AsSeq(ends) \in Seq(EndpointNames) /\ ToSet(AsSeq(ends)) = ends
  <2>1. AsSeq(ends) \in Seq(ends) /\ ToSet(AsSeq(ends)) = ends
    BY <1>4, EndpointsListed
  <2> HIDE DEF ends
  <2> QED
    BY <1>4, <2>1, SequencesGrow
<1>8. AsSeq(landings) \in Seq(LandingNames) /\ ToSet(AsSeq(landings)) = landings
  <2>1. AsSeq(landings) \in Seq(landings) /\ ToSet(AsSeq(landings)) = landings
    BY <1>0, LandingsListed
  <2>2. landings \in SUBSET LandingNames
    BY <1>0, LandingsKnown
  <2> HIDE DEF landings
  <2> QED
    BY <2>1, <2>2, SequencesGrow
<1>9. joined \in Seq(LandingNames \X FragmentNames) /\ ToSet(joined) = joins
  <2>1. joined \in Seq(joins) /\ ToSet(joined) = joins
    BY <1>0, <1>5, AdjacenciesListed
  <2>2. joins \in SUBSET (LandingNames \X FragmentNames)
    BY <1>0, <1>5, LandingsKnown
  <2> HIDE DEF joins, joined
  <2> QED
    BY <2>1, <2>2, SequencesGrow
<1>10. Ids(r.editable) \in Seq(LayoutObjects) /\ Ids(r.frozen) \in Seq(LayoutObjects)
  <2>1. \A os \in SUBSET LayoutObjects : Ids(os) \in Seq(LayoutObjects)
    <3>1. TAKE os \in SUBSET LayoutObjects
    <3>2. os \in SUBSET Nat /\ IsFiniteSet(os)
      BY LayoutAssumption, FS_Subset
    <3>3. Ids(os) \in Seq(os)
      BY <3>2, IdsListed
    <3> QED
      BY <3>3
  <2> QED
    BY <2>1 DEF RegionTyped
<1>11. ASSUME NEW x \in DOMAIN hinted, NEW h \in hinted[x] PROVE HintFits(r, x, h)
  <2> DEFINE givers == {i \in DOMAIN order : rule(order[i]) = x /\ derived(order[i]) # {}}
             k == Max(givers)
  <2>1. h \in hints(order, x)
    BY <1>11
  <2>2. has_distance(x) /\ givers # {} /\ h \in derived(order[k])
    BY <2>1 DEF hints
  <2>3. k \in givers
    <3>1. DOMAIN order = 1..Len(order) /\ Len(order) \in Nat
      BY <1>2
    <3>2. givers \in SUBSET Int /\ IsFiniteSet(givers)
      <4>1. givers \in SUBSET (1..Len(order)) /\ IsFiniteSet(1..Len(order))
        BY <3>1, FS_Interval
      <4> QED
        BY <4>1, FS_Subset
    <3> QED
      BY <2>2, <3>2, LeastAndGreatest
  <2>4. order[k] \in vs /\ rule(order[k]) = x
    BY <1>2, <2>3
  <2> HIDE DEF k, order
  <2> QED
    BY <1>0, <2>2, <2>4, DerivedFits
<1> HIDE DEF c, order, fragments, landings, ends, joins, joined, hinted
<1>12. DOMAIN hinted = {rule(v) : v \in vs}
  BY DEF hinted
<1>13. ContextTyped(c)
  BY <1>1, <1>2, <1>6, <1>7, <1>8, <1>9, <1>10 DEF ContextTyped
<1>14. \A e \in ends : <<e[1], e[2]>> \in fragments
  BY DEF ends
<1>15. ContextClosed(c)
  BY <1>1, <1>5, <1>6, <1>7, <1>8, <1>9, <1>14 DEF ContextClosed
<1>16. ContextInformed(c)
  BY <1>1, <1>2, <1>12 DEF ContextInformed
<1>17. ContextHinted(c)
  BY <1>1, <1>11 DEF ContextHinted
<1> QED
  BY <1>13, <1>15, <1>16, <1>17 DEF ContextKept, c

\* The lists that names and facts are read from.
NamedFields == {"region", "violations", "witnesses", "hints", "editable", "frozen", "fragments", "endpoints",
                "landings", "adjacencies"}

LEMMA OtherFields ==
  ASSUME NEW c, ContextKept(c), ContextHinted(c), NEW f \in ContextFields \ NamedFields, NEW x
  PROVE  ContextKept([c EXCEPT ![f] = x]) /\ ContextHinted([c EXCEPT ![f] = x])
<1> DEFINE d == [c EXCEPT ![f] = x]
<1>1. /\ DOMAIN d = ContextFields /\ d = [g \in ContextFields |-> d[g]]
      /\ \A g \in ContextFields : d[g] = IF g = f THEN x ELSE c[g]
  BY Fields DEF ContextKept
<1> HIDE DEF d
<1>2. \A g \in NamedFields : g \in ContextFields /\ g # f
  BY DEF NamedFields, ContextFields
<1>3. /\ d.region = c.region /\ d.violations = c.violations /\ d.witnesses = c.witnesses /\ d.hints = c.hints
      /\ d.editable = c.editable /\ d.frozen = c.frozen /\ d.fragments = c.fragments
      /\ d.endpoints = c.endpoints /\ d.landings = c.landings /\ d.adjacencies = c.adjacencies
  BY <1>1, <1>2 DEF NamedFields
<1>4. ContextTyped(d)
  BY <1>1, <1>3 DEF ContextKept, ContextTyped
<1>5. ContextClosed(d) /\ ContextInformed(d)
  BY <1>3 DEF ContextKept, ContextClosed, ContextInformed
<1>6. ContextHinted(d)
  BY <1>3 DEF ContextHinted
<1> QED
  BY <1>4, <1>5, <1>6 DEF ContextKept, d

\* A list of objects, endpoints or adjacencies loses its last item; a list that
\* names are taken from only does when nothing names its items any more.
LEMMA ListPopped ==
  ASSUME NEW c, ContextKept(c), ContextHinted(c),
         NEW f \in {"frozen", "editable", "endpoints", "adjacencies", "landings", "fragments"},
         c[f] # <<>>,
         f = "landings" => c.adjacencies = <<>>,
         f = "fragments" => c.endpoints = <<>> /\ c.adjacencies = <<>>
  PROVE  ContextKept([c EXCEPT ![f] = Pop(c[f])]) /\ ContextHinted([c EXCEPT ![f] = Pop(c[f])])
<1> DEFINE x == Pop(c[f])
           d == [c EXCEPT ![f] = x]
<1>0. ContextTyped(c) /\ f \in ContextFields
  BY DEF ContextKept, ContextFields
<1>1. /\ DOMAIN d = ContextFields /\ d = [g \in ContextFields |-> d[g]]
      /\ \A g \in ContextFields : d[g] = IF g = f THEN x ELSE c[g]
  BY <1>0, Fields
<1>2. \A S : c[f] \in Seq(S) => x \in Seq(S) /\ ToSet(x) \subseteq ToSet(c[f])
  BY Popped
<1> HIDE DEF d, x
<1>3. /\ d.region = c.region /\ d.violations = c.violations /\ d.witnesses = c.witnesses /\ d.hints = c.hints
      /\ \A g \in {"editable", "frozen", "fragments", "endpoints", "landings", "adjacencies"} :
           g = f \/ d[g] = c[g]
      /\ d[f] = x
  BY <1>0, <1>1 DEF ContextFields
<1>4. ContextTyped(d)
  <2>1. d.editable \in Seq(LayoutObjects)
    BY <1>0, <1>2, <1>3 DEF ContextTyped
  <2>2. d.frozen \in Seq(LayoutObjects)
    BY <1>0, <1>2, <1>3 DEF ContextTyped
  <2>3. d.fragments \in Seq(FragmentNames)
    BY <1>0, <1>2, <1>3 DEF ContextTyped
  <2>4. d.endpoints \in Seq(EndpointNames)
    BY <1>0, <1>2, <1>3 DEF ContextTyped
  <2>5. d.landings \in Seq(LandingNames)
    BY <1>0, <1>2, <1>3 DEF ContextTyped
  <2>6. d.adjacencies \in Seq(LandingNames \X FragmentNames)
    BY <1>0, <1>2, <1>3 DEF ContextTyped
  <2> QED
    BY <1>0, <1>1, <1>3, <2>1, <2>2, <2>3, <2>4, <2>5, <2>6 DEF ContextTyped
<1>5. ContextClosed(d)
  <2>1. ToSet(<<>>) = {}
    BY DEF ToSet
  <2>2. ToSet(d.endpoints) \subseteq ToSet(c.endpoints) /\ ToSet(d.adjacencies) \subseteq ToSet(c.adjacencies)
    <3>1. c.endpoints \in Seq(EndpointNames) /\ c.adjacencies \in Seq(LandingNames \X FragmentNames)
      BY <1>0 DEF ContextTyped
    <3> QED
      BY <1>2, <1>3, <3>1
  <2>3. CASE f = "fragments"
    <3>1. d.endpoints = <<>> /\ d.adjacencies = <<>>
      BY <1>3, <2>3
    <3> QED
      BY <2>1, <3>1 DEF ContextClosed
  <2>4. CASE f = "landings"
    <3>1. d.endpoints = c.endpoints /\ d.adjacencies = <<>> /\ d.fragments = c.fragments
      BY <1>3, <2>4
    <3> QED
      BY <2>1, <3>1 DEF ContextClosed, ContextKept
  <2>5. CASE f \notin {"fragments", "landings"}
    <3>1. d.fragments = c.fragments /\ d.landings = c.landings
      BY <1>3, <2>5
    <3> QED
      BY <2>2, <3>1 DEF ContextClosed, ContextKept
  <2> QED
    BY <2>3, <2>4, <2>5
<1>6. ContextInformed(d) /\ ContextHinted(d)
  BY <1>3 DEF ContextKept, ContextInformed, ContextHinted
<1> QED
  BY <1>4, <1>5, <1>6 DEF ContextKept, d, x

LEMMA ViolationDropped ==
  ASSUME NEW c, ContextKept(c), ContextHinted(c), Len(c.violations) > 1
  PROVE  ContextKept(drop_violation(c)) /\ ContextHinted(drop_violation(c))
<1> DEFINE s == c.violations
           left == Pop(s)
           hs == {rule(v) : v \in ToSet(left)}
           d == drop_violation(c)
<1>0. ContextTyped(c) /\ ContextInformed(c) /\ ContextClosed(c)
  BY DEF ContextKept
<1>1. s \in Seq(c.region.violations) /\ Len(s) \in Nat /\ s # <<>> /\ DOMAIN s = 1..Len(s)
  BY <1>0 DEF ContextTyped
<1>2. /\ left \in Seq(c.region.violations) /\ Len(left) = Len(s) - 1 /\ left[1] = s[1]
      /\ \A i, j \in DOMAIN left : left[i] = left[j] => i = j
      /\ ToSet(left) = ToSet(s) \ {Last(s)}
  <2>1. \A i, j \in DOMAIN s : s[i] = s[j] => i = j
    BY <1>0 DEF ContextTyped
  <2>2. 1 \in 1..(Len(s) - 1)
    BY <1>1
  <2> HIDE DEF s, left
  <2>3. Pop(s) = left
    BY DEF left
  <2> QED
    BY <1>1, <2>1, <2>2, <2>3, Popped
<1>3. left # <<>>
  BY <1>1, <1>2
<1>4. /\ DOMAIN d = ContextFields /\ d = [g \in ContextFields |-> d[g]]
      /\ d.violations = left /\ d.witnesses = c.witnesses \ {Last(s)} /\ d.hints = Restrict(c.hints, hs)
      /\ d.region = c.region /\ d.editable = c.editable /\ d.frozen = c.frozen /\ d.fragments = c.fragments
      /\ d.endpoints = c.endpoints /\ d.landings = c.landings /\ d.adjacencies = c.adjacencies
  <2>1. DOMAIN c = ContextFields
    BY <1>0 DEF ContextTyped
  <2> HIDE DEF left, hs, s
  <2>2. d = [c EXCEPT !.violations = left, !.witnesses = c.witnesses \ {Last(s)},
                      !.rules = {rule(v) : v \in ToSet(left)}, !.hints = Restrict(c.hints, hs)]
    BY DEF drop_violation, left, s, hs
  <2> HIDE DEF d
  <2> QED
    BY <2>1, <2>2 DEF ContextFields
<1>5. DOMAIN Restrict(c.hints, hs) = hs /\ \A r \in hs : r \in DOMAIN c.hints /\ Restrict(c.hints, hs)[r] = c.hints[r]
  <2>1. DOMAIN c.hints = {rule(v) : v \in ToSet(s)}
    BY <1>0 DEF ContextInformed
  <2>2. hs \subseteq DOMAIN c.hints
    BY <1>2, <2>1
  <2> HIDE DEF hs
  <2>3. hs \intersect DOMAIN c.hints = hs
    BY <2>2
  <2> QED
    BY <2>2, <2>3 DEF Restrict
<1>6. c.witnesses \ {Last(s)} = Witnessed(ToSet(left))
  BY <1>0, <1>2 DEF ContextInformed, Witnessed
<1> HIDE DEF d, left
<1>7. ContextTyped(d)
  BY <1>0, <1>2, <1>4 DEF ContextTyped
<1>8. ContextClosed(d)
  BY <1>0, <1>4 DEF ContextClosed
<1>9. ContextInformed(d)
  BY <1>0, <1>2, <1>3, <1>4, <1>5, <1>6 DEF ContextInformed
<1>10. ContextHinted(d)
  <2> HIDE DEF hs
  <2> QED
    BY <1>4, <1>5 DEF ContextHinted
<1> QED
  BY <1>7, <1>8, <1>9, <1>10 DEF ContextKept, d

LEMMA Shortened ==
  ASSUME NEW c, ContextKept(c), ContextHinted(c)
  PROVE  ContextKept(shorten(c)) /\ ContextHinted(shorten(c))
<1>0. ContextTyped(c)
  BY DEF ContextKept
<1>1. CASE ListedSlices(c) # <<>>
  <2>1. shorten(c) = [c EXCEPT !["slices"] = c.slices \ {Last(ListedSlices(c))}]
    BY <1>1 DEF shorten
  <2>2. "slices" \in ContextFields \ NamedFields
    BY DEF ContextFields, NamedFields
  <2>3. \A x : ContextKept([c EXCEPT !["slices"] = x]) /\ ContextHinted([c EXCEPT !["slices"] = x])
    <3>1. TAKE x
    <3> QED
      BY <2>2, OtherFields
  <2> QED
    BY <2>1, <2>3
<1>2. CASE ListedSlices(c) = <<>> /\ Expendable(c) # {}
  <2> DEFINE k == Min(Expendable(c))
             f == Lists[k]
  <2>1. /\ DOMAIN Lists = 1..4 /\ 1..4 = {1, 2, 3, 4} /\ Lists[1] = "frozen" /\ Lists[2] = "endpoints"
        /\ Lists[3] = "adjacencies" /\ Lists[4] = "landings"
    BY DEF Lists
  <2>2. Expendable(c) \in SUBSET (1..4) /\ IsFiniteSet(Expendable(c))
    <3>1. Expendable(c) \in SUBSET (1..4)
      BY <2>1 DEF Expendable
    <3>2. IsFiniteSet(1..4)
      <4>1. \A n \in Int : IsFiniteSet(1..n)
        <5>1. TAKE n \in Int
        <5> QED
          BY FS_Interval
      <4>2. PICK n \in Int : n = 4
        OBVIOUS
      <4>3. IsFiniteSet(1..n)
        BY <4>1
      <4> QED
        BY <4>2, <4>3
    <3> QED
      BY <3>1, <3>2, FS_Subset
  <2>3. Expendable(c) \in SUBSET Int
    BY <2>2
  <2>4. k \in Expendable(c) /\ \A i \in Expendable(c) : k <= i
    BY <1>2, <2>2, <2>3, LeastAndGreatest
  <2> HIDE DEF k
  <2>5. k \in {1, 2, 3, 4} /\ c[f] # <<>>
    BY <2>1, <2>2, <2>4 DEF Expendable
  <2>6. k = 4 => 3 \notin Expendable(c)
    BY <2>4
  <2>7. f \in {"frozen", "endpoints", "adjacencies", "landings"} /\ (f = "landings" => c.adjacencies = <<>>)
    BY <2>1, <2>5, <2>6 DEF Expendable
  <2>8. shorten(c) = [c EXCEPT ![f] = Pop(c[f])]
    <3>1. f \in DOMAIN c
      BY <1>0, <2>7 DEF ContextTyped, ContextFields
    <3>2. shorten(c) = [c EXCEPT ![f] = Pop(@)]
      BY <1>2 DEF shorten, k
    <3> HIDE DEF f
    <3> QED
      BY <3>1, <3>2
  <2>9. PICK g \in {"frozen", "endpoints", "adjacencies", "landings"} : g = f
    BY <2>7
  <2> HIDE DEF f
  <2>10. c[g] # <<>> /\ (g = "landings" => c.adjacencies = <<>>) /\ g # "fragments"
    BY <2>5, <2>7, <2>9
  <2>11. ContextKept([c EXCEPT ![g] = Pop(c[g])]) /\ ContextHinted([c EXCEPT ![g] = Pop(c[g])])
    BY <2>10, ListPopped
  <2> QED
    BY <2>8, <2>9, <2>11
<1>3. CASE ListedSlices(c) = <<>> /\ Expendable(c) = {}
  <2>1. c.endpoints = <<>> /\ c.adjacencies = <<>>
    <3>1. 2 \in DOMAIN Lists /\ 3 \in DOMAIN Lists /\ Lists[2] = "endpoints" /\ Lists[3] = "adjacencies"
      BY DEF Lists
    <3> QED
      BY <1>3, <3>1 DEF Expendable
  <2>2. CASE Len(c.neighbours) > 1
    <3>1. shorten(c) = [c EXCEPT !["neighbours"] = Pop(c.neighbours)]
      BY <1>3, <2>2 DEF shorten
    <3>2. "neighbours" \in ContextFields \ NamedFields
      BY DEF ContextFields, NamedFields
    <3>3. \A x : ContextKept([c EXCEPT !["neighbours"] = x]) /\ ContextHinted([c EXCEPT !["neighbours"] = x])
      <4>1. TAKE x
      <4> QED
        BY <3>2, OtherFields
    <3> QED
      BY <3>1, <3>3
  <2>3. CASE ~(Len(c.neighbours) > 1) /\ Len(c.violations) > 1
    <3>1. shorten(c) = drop_violation(c)
      BY <1>3, <2>3 DEF shorten
    <3> QED
      BY <2>3, <3>1, ViolationDropped
  <2>4. CASE ~(Len(c.neighbours) > 1) /\ ~(Len(c.violations) > 1) /\ Len(c.editable) > 1
    <3>1. shorten(c) = [c EXCEPT !["editable"] = Pop(c["editable"])]
      BY <1>3, <2>4 DEF shorten
    <3>2. c["editable"] # <<>>
      BY <2>4
    <3> QED
      BY <3>1, <3>2, ListPopped
  <2>5. CASE ~(Len(c.neighbours) > 1) /\ ~(Len(c.violations) > 1) /\ ~(Len(c.editable) > 1)
    <3>1. shorten(c) = [c EXCEPT !["fragments"] = Pop(c["fragments"])]
      BY <1>3, <2>5 DEF shorten
    <3>2. CASE c["fragments"] # <<>>
      BY <2>1, <3>1, <3>2, ListPopped
    <3>3. CASE c["fragments"] = <<>>
      <4>1. Pop(<<>>) = <<>>
        BY DEF Pop
      <4>2. c = [f \in ContextFields |-> c[f]] /\ "fragments" \in ContextFields
        BY <1>0 DEF ContextTyped, ContextFields
      <4>3. [c EXCEPT !["fragments"] = c["fragments"]] = c
        BY <4>2
      <4> QED
        BY <3>1, <3>3, <4>1, <4>3
    <3> QED
      BY <3>2, <3>3
  <2> QED
    BY <2>2, <2>3, <2>4, <2>5
<1> QED
  BY <1>1, <1>2, <1>3

\* What an answer may cite and name.
ContextAnswerable(c) ==
  /\ \A e \in c.evidence : e[1] \in {"violation", "witness"} => e[2] \in ToSet(c.violations)
  /\ \A v \in ToSet(c.violations) : <<"violation", v>> \in c.evidence
  /\ \A p \in c.grounded :
       /\ p[1] \in ToSet(c.editable) /\ p[2] \in ToSet(c.violations)
       /\ p[2] \in c.witnesses /\ quality(p[2]) <= 1 => p[1] \in Sources(p[2])
  /\ c.segments \cup c.vias \subseteq {p[1] : p \in c.grounded}

\* The context of a planner, from its serialization to the prompt.
ContextInv ==
  /\ stage \in {"context", "prompt"} => ContextKept(ctx)
  /\ stage = "context" => ContextHinted(ctx)
  /\ stage = "prompt" => ContextAnswerable(ctx)

LEMMA Grounded ==
  ASSUME NEW c, NEW v, NEW o \in grounding(c, v)
  PROVE  /\ o \in ToSet(c.editable)
         /\ v \in c.witnesses /\ quality(v) <= 1 => o \in Sources(v)
BY DEF grounding, has_witness_authority

LEMMA Cited ==
  ASSUME NEW vs, NEW ws \in SUBSET vs, NEW ns
  PROVE  /\ \A e \in Evidence(vs, ws, ns) : e[1] \in {"violation", "witness"} => e[2] \in vs
         /\ \A v \in vs : <<"violation", v>> \in Evidence(vs, ws, ns)
<1>1. ASSUME NEW e \in Evidence(vs, ws, ns), e[1] \in {"violation", "witness"} PROVE e[2] \in vs
  <2>1. \/ \E v \in vs : e = <<"violation", v>>
        \/ \E v \in ws : e = <<"witness", v>>
        \/ \E m \in ns : e = <<"edge", {m.from, m.to}, m.relation>>
    BY DEF Evidence
  <2>2. ASSUME NEW m \in ns, e = <<"edge", {m.from, m.to}, m.relation>> PROVE FALSE
    <3>1. e[1] = "edge"
      BY <2>2
    <3> QED
      BY <1>1, <3>1
  <2> QED
    BY <2>1, <2>2
<1>2. \A v \in vs : <<"violation", v>> \in Evidence(vs, ws, ns)
  BY DEF Evidence
<1> QED
  BY <1>1, <1>2

LEMMA Finished ==
  ASSUME FinishContext, ContextKept(ctx)
  PROVE  ContextKept(ctx') /\ ContextAnswerable(ctx') /\ stage' = "prompt" /\ UNCHANGED <<design, site>>
<1> DEFINE listed == ToSet(ctx.violations)
           pairs == UNION {{<<o, v>> : o \in grounding(ctx, v)} : v \in listed}
           traceable == {p[1] : p \in pairs} \cap {o \in LayoutObjects : net(o) # {}}
           segments == {o \in traceable : ~Via(obj(o).layer)}
           vias == {o \in traceable : Via(obj(o).layer)}
           cited == included_evidence(ctx)
           held == included_objects(ctx)
           assoc == [v \in listed |-> associated(ctx, v)]
<1>1. /\ ctx' = [ctx EXCEPT !.evidence = cited, !.included = held, !.assoc = assoc, !.grounded = pairs,
                            !.segments = segments, !.vias = vias]
      /\ stage' = "prompt" /\ UNCHANGED <<design, site>>
  BY DEF FinishContext
<1>2. ContextTyped(ctx) /\ ContextClosed(ctx) /\ ContextInformed(ctx)
  BY DEF ContextKept
<1>3. DOMAIN ctx = ContextFields
  BY <1>2 DEF ContextTyped
<1>4. /\ \A e \in cited : e[1] \in {"violation", "witness"} => e[2] \in listed
      /\ \A v \in listed : <<"violation", v>> \in cited
  <2>1. ctx.witnesses \in SUBSET listed
    BY <1>2 DEF ContextInformed, Witnessed
  <2>2. cited = Evidence(listed, ctx.witnesses, ToSet(ctx.neighbours))
    BY DEF included_evidence
  <2> HIDE DEF cited, listed
  <2> QED
    BY <2>1, <2>2, Cited
<1>5. \A p \in pairs : /\ p[1] \in ToSet(ctx.editable) /\ p[2] \in listed
                       /\ p[2] \in ctx.witnesses /\ quality(p[2]) <= 1 => p[1] \in Sources(p[2])
  <2>1. TAKE p \in pairs
  <2>2. PICK v \in listed : \E o \in grounding(ctx, v) : p = <<o, v>>
    OBVIOUS
  <2>3. PICK o \in grounding(ctx, v) : p = <<o, v>>
    BY <2>2
  <2>4. p[1] = o /\ p[2] = v
    BY <2>3
  <2> HIDE DEF listed, pairs
  <2>5. /\ o \in ToSet(ctx.editable)
        /\ v \in ctx.witnesses /\ quality(v) <= 1 => o \in Sources(v)
    BY Grounded
  <2> QED
    BY <2>2, <2>4, <2>5
<1>6. segments \cup vias \subseteq {p[1] : p \in pairs}
  OBVIOUS
<1> HIDE DEF listed, pairs, traceable, segments, vias, cited, held, assoc
<1>7. /\ DOMAIN ctx' = ContextFields /\ ctx' = [f \in ContextFields |-> ctx'[f]]
      /\ ctx'.region = ctx.region /\ ctx'.violations = ctx.violations /\ ctx'.witnesses = ctx.witnesses
      /\ ctx'.hints = ctx.hints /\ ctx'.editable = ctx.editable /\ ctx'.frozen = ctx.frozen
      /\ ctx'.fragments = ctx.fragments /\ ctx'.endpoints = ctx.endpoints /\ ctx'.landings = ctx.landings
      /\ ctx'.adjacencies = ctx.adjacencies
      /\ ctx'.evidence = cited /\ ctx'.grounded = pairs /\ ctx'.segments = segments /\ ctx'.vias = vias
  BY <1>1, <1>3 DEF ContextFields
<1>8. ContextTyped(ctx')
  BY <1>2, <1>7 DEF ContextTyped
<1>9. ContextClosed(ctx') /\ ContextInformed(ctx')
  BY <1>2, <1>7 DEF ContextClosed, ContextInformed
<1>10. ContextAnswerable(ctx')
  BY <1>4, <1>5, <1>6, <1>7 DEF ContextAnswerable, listed
<1> QED
  BY <1>1, <1>8, <1>9, <1>10 DEF ContextKept

LEMMA ContextInvIsSound ==
  ASSUME ContextInv
  PROVE  ContextIsSound
<1>1. CASE stage \notin {"context", "prompt"}
  BY <1>1 DEF ContextIsSound, ContextIsClosed, EvidenceIsShown, WitnessDecides, RepairableViolationIsKept, HintsClose
<1>2. CASE stage \in {"context", "prompt"}
  <2>1. ContextTyped(ctx) /\ ContextClosed(ctx) /\ ContextInformed(ctx)
    BY <1>2 DEF ContextInv, ContextKept
  <2>2. ctx.witnesses = Witnessed(ToSet(ctx.violations)) /\ ctx.witnesses \subseteq ToSet(ctx.violations)
    BY <2>1 DEF ContextInformed, Witnessed
  <2>3. RepairableViolationIsKept
    <3>1. SUFFICES ASSUME NEW v \in ctx.region.violations, Sources(v) # {}
                   PROVE  \E u \in ToSet(ctx.violations) : Sources(u) # {} /\ u \in ctx.witnesses
      BY DEF RepairableViolationIsKept
    <3> DEFINE u == ctx.violations[1]
    <3>2. ctx.violations # <<>> /\ Sources(u) # {}
      BY <2>1, <3>1 DEF ContextInformed
    <3>3. u \in ToSet(ctx.violations)
      <4>1. ctx.violations \in Seq(ctx.region.violations)
        BY <2>1 DEF ContextTyped
      <4>2. DOMAIN ctx.violations = 1..Len(ctx.violations) /\ 1 \in 1..Len(ctx.violations)
        BY <3>2, <4>1, EmptySeq
      <4> QED
        BY <4>2 DEF ToSet
    <3> HIDE DEF u
    <3>4. witness(u) # {}
      BY <3>2 DEF Sources
    <3> QED
      BY <2>2, <3>2, <3>3, <3>4 DEF Witnessed
  <2>4. ContextIsClosed
    <3>1. SUFFICES ASSUME stage = "prompt" PROVE ContextIsClosed
      BY DEF ContextIsClosed
    <3>2. ContextAnswerable(ctx)
      BY <3>1 DEF ContextInv
    <3>3. DOMAIN ctx.hints = {rule(v) : v \in ToSet(ctx.violations)}
      BY <2>1 DEF ContextInformed
    <3>4. \A p \in ctx.grounded : p[1] \in ToSet(ctx.editable) /\ p[2] \in ToSet(ctx.violations)
      BY <3>2 DEF ContextAnswerable
    <3>5. ctx.segments \cup ctx.vias \subseteq {p[1] : p \in ctx.grounded}
      BY <3>2 DEF ContextAnswerable
    <3> QED
      BY <2>1, <2>2, <3>3, <3>4, <3>5 DEF ContextIsClosed, ContextClosed
  <2>5. EvidenceIsShown /\ WitnessDecides
    <3>1. stage = "prompt" => ContextAnswerable(ctx)
      BY DEF ContextInv
    <3> QED
      BY <3>1 DEF ContextAnswerable, EvidenceIsShown, WitnessDecides
  <2>6. HintsClose
    <3>1. stage = "context" => ContextHinted(ctx)
      BY DEF ContextInv
    <3> QED
      BY <3>1 DEF ContextHinted, HintFits, Closes, HintsClose
  <2> QED
    BY <2>3, <2>4, <2>5, <2>6 DEF ContextIsSound
<1> QED
  BY <1>1, <1>2

\* What a context is checked against is fixed once the layout is parsed.
LEMMA LayoutStays ==
  ASSUME UNCHANGED <<design, site>>
  PROVE  /\ \A v : rule(v)' = rule(v) /\ Sources(v)' = Sources(v) /\ quality(v)' = quality(v)
         /\ \A vs : Witnessed(vs)' = Witnessed(vs)
         /\ \A g, r, h : HintFits(g, r, h)' <=> HintFits(g, r, h)
<1>1. \A v : rule(v)' = rule(v) /\ witness(v)' = witness(v) /\ marker(v)' = marker(v) /\ objects(v)' = objects(v)
             /\ obj(v)' = obj(v)
  BY DEF rule, witness, marker, objects, obj
<1>2. \A v : Sources(v)' = Sources(v) /\ quality(v)' = quality(v)
  BY <1>1 DEF Sources, quality
<1>3. \A vs : Witnessed(vs)' = Witnessed(vs)
  BY <1>1 DEF Witnessed
<1>4. \A v, o, r, h : Closes(v, o, r, h)' <=> Closes(v, o, r, h)
  BY <1>1 DEF Closes
<1>5. \A g, r, h : HintFits(g, r, h)' <=> HintFits(g, r, h)
  BY <1>1, <1>4 DEF HintFits
<1> QED
  BY <1>1, <1>2, <1>3, <1>5

LEMMA KeptAfter ==
  ASSUME UNCHANGED <<design, site>>, ContextKept(ctx')
  PROVE  ContextKept(ctx)'
<1>1. ContextTyped(ctx)'
  BY DEF ContextKept, ContextTyped
<1>2. ContextClosed(ctx)'
  BY DEF ContextKept, ContextClosed
<1>3. ContextInformed(ctx)'
  BY LayoutStays DEF ContextKept, ContextInformed
<1> QED
  BY <1>1, <1>2, <1>3 DEF ContextKept

LEMMA HintedAfter ==
  ASSUME UNCHANGED <<design, site>>, ContextHinted(ctx')
  PROVE  ContextHinted(ctx)'
BY LayoutStays DEF ContextHinted

LEMMA AnswerableAfter ==
  ASSUME UNCHANGED <<design, site>>, ContextAnswerable(ctx')
  PROVE  ContextAnswerable(ctx)'
BY LayoutStays DEF ContextAnswerable

LEMMA ContextInvSteps ==
  ASSUME RegionInv, ContextInv, [RegionStep]_contextVars
  PROVE  ContextInv'
<1>1. CASE GraphNext
  <2>1. stage' \notin {"context", "prompt"}
    BY <1>1 DEF GraphNext, parse_design_state, start_pairs, unite_hard, start_merges, unite_merge, build_regions,
                build_agent_graph, prune_agent_graph, PassMessages
  <2> QED
    BY <2>1 DEF ContextInv
<1>2. CASE BuildContext
  <2>1. design \in Designs /\ SitesKnown /\ UNCHANGED <<design, site>> /\ stage' = "context"
    BY <1>2 DEF BuildContext, RegionInv
  <2>2. PICK r \in regions : ctx' = serialize(r)
    BY <1>2 DEF BuildContext
  <2>3. RegionTyped(r)
    BY <1>2 DEF BuildContext, RegionInv
  <2>4. ContextKept(ctx') /\ ContextHinted(ctx')
    BY <2>1, <2>2, <2>3, Serialized
  <2>5. ContextKept(ctx)' /\ ContextHinted(ctx)'
    BY <2>1, <2>4, KeptAfter, HintedAfter
  <2> QED
    BY <2>1, <2>5 DEF ContextInv
<1>3. CASE Truncate
  <2>1. UNCHANGED <<design, site>> /\ stage = "context" /\ stage' = "context" /\ ctx' = shorten(ctx)
    BY <1>3 DEF Truncate, graphVars
  <2>2. ContextKept(ctx) /\ ContextHinted(ctx)
    BY <2>1 DEF ContextInv
  <2>3. ContextKept(ctx') /\ ContextHinted(ctx')
    BY <2>1, <2>2, Shortened
  <2>4. ContextKept(ctx)' /\ ContextHinted(ctx)'
    BY <2>1, <2>3, KeptAfter, HintedAfter
  <2> QED
    BY <2>1, <2>4 DEF ContextInv
<1>4. CASE RefuseContext
  <2>1. stage' = "refused"
    BY <1>4 DEF RefuseContext
  <2> QED
    BY <2>1 DEF ContextInv
<1>5. CASE FinishContext
  <2>1. ContextKept(ctx)
    BY <1>5 DEF FinishContext, ContextInv
  <2>2. ContextKept(ctx') /\ ContextAnswerable(ctx') /\ stage' = "prompt" /\ UNCHANGED <<design, site>>
    BY <1>5, <2>1, Finished
  <2>3. ContextKept(ctx)' /\ ContextAnswerable(ctx)'
    BY <2>2, KeptAfter, AnswerableAfter
  <2> QED
    BY <2>2, <2>3 DEF ContextInv
<1>6. CASE UNCHANGED contextVars
  <2>1. UNCHANGED <<design, site, stage, ctx>>
    BY <1>6 DEF contextVars, graphVars
  <2>2. ContextKept(ctx) => ContextKept(ctx)'
    BY <2>1, KeptAfter
  <2>3. ContextHinted(ctx) => ContextHinted(ctx)'
    BY <2>1, HintedAfter
  <2>4. ContextAnswerable(ctx) => ContextAnswerable(ctx)'
    BY <2>1, AnswerableAfter
  <2> QED
    BY <2>1, <2>2, <2>3, <2>4 DEF ContextInv
<1> QED
  BY <1>1, <1>2, <1>3, <1>4, <1>5, <1>6 DEF RegionStep, ContextNext

(* A context, from its serialization through any truncation to the prompt, is
   closed under what it names, informs of exactly the violations it lists and
   keeps one that can be repaired first, and its hints close their violations:
   the invariant behind ContextsAreSound, for CompactRegionContextSerializer. *)
THEOREM ContextInvariant == ContextSpec => []ContextInv
<1>1. BuildInit => ContextInv
  BY DEF BuildInit, ContextInv
<1>2. RegionInv /\ ContextInv /\ [RegionStep]_contextVars => ContextInv'
  BY ContextInvSteps
<1> QED
  BY <1>1, <1>2, RegionInvariant, PTL DEF ContextSpec, RegionStep

(* What a planner is shown is closed, grounded and citable, whatever was cut to
   meet the token budget, and what its region can be repaired by reaches it. *)
THEOREM ContextsAreSound == ContextSpec => []ContextIsSound
<1>1. ContextInv => ContextIsSound
  BY ContextInvIsSound
<1> QED
  BY <1>1, ContextInvariant, PTL
=============================================================================
