----------------------- MODULE WindowCoordinationProofs -----------------------
(***************************************************************************)
(* Proofs about the checker that candidates pass, the coordination of a    *)
(* window and the batches of its bundles, for any candidates, caps and     *)
(* budgets.                                                                *)
(***************************************************************************)
EXTENDS WindowCoordination, CandidateCheck, SequenceTheorems, WellFoundedInduction,
        FiniteSetTheorems, TLAPS

-----------------------------------------------------------------------------
(* Natural numbers: sets of them have a least element, and a set that holds 0
   and what follows each of its members holds all.                             *)

LEMMA LeastElement ==
  ASSUME NEW N \in SUBSET Nat, N # {}
  PROVE  \E n \in N : \A m \in N : n <= m
<1> DEFINE Below == OpToRel(<, Nat)
<1>1. IsWellFoundedOn(Below, Nat)
  BY NatLessThanWellFounded, Zenon
<1>2. \A x, y \in Nat : y < x => <<y, x>> \in Below
  BY DEF OpToRel
<1> HIDE DEF Below
<1>3. PICK n \in N : \A m \in N : ~(<<m, n>> \in Below)
  BY <1>1, WFMin
<1>4. \A m \in N : m \in Nat /\ n \in Nat /\ ~(m < n)
  BY <1>2, <1>3
<1>5. \A m \in N : n <= m
  BY <1>4
<1>6. QED
  BY <1>5

LEMMA NatSteps ==
  ASSUME NEW S, 0 \in S, \A n \in Nat : n \in S => n + 1 \in S
  PROVE  Nat \subseteq S
<1>1. SUFFICES ASSUME Nat \ S # {} PROVE FALSE
  OBVIOUS
<1>2. PICK x \in Nat \ S : \A y \in Nat \ S : x <= y
  <2>1. Nat \ S \in SUBSET Nat
    OBVIOUS
  <2>2. QED
    BY <1>1, <2>1, LeastElement
<1>3. x - 1 \in Nat /\ x - 1 < x
  BY <1>2
<1>4. x - 1 \in S
  BY <1>2, <1>3
<1>5. (x - 1) + 1 \in S
  BY <1>3, <1>4
<1>6. QED
  BY <1>2, <1>5

(* What a recursive function over 0..N defines exists, whatever each step does. *)
HasFold(D, base, N, G) ==
  \E f \in [0..N -> D] : f[0] = base /\ \A i \in 1..N : f[i] = G[i][f[i - 1]]
LEMMA Folded ==
  ASSUME NEW D, NEW base \in D, NEW N \in Nat, NEW G \in [1..N -> [D -> D]]
  PROVE  HasFold(D, base, N, G)
<1> DEFINE Steps(f, n) == f[0] = base /\ \A i \in 1..n : f[i] = G[i][f[i - 1]]
           Built == {n \in Nat : n <= N => \E f \in [0..n -> D] : Steps(f, n)}
<1>1. 0 \in Built
  <2>1. [i \in 0..0 |-> base] \in [0..0 -> D] /\ Steps([i \in 0..0 |-> base], 0)
    OBVIOUS
  <2>2. QED
    BY <2>1
<1>2. ASSUME NEW n \in Nat, n \in Built
      PROVE  n + 1 \in Built
  <2>1. SUFFICES ASSUME n + 1 <= N PROVE \E f \in [0..(n + 1) -> D] : Steps(f, n + 1)
    OBVIOUS
  <2>2. PICK f \in [0..n -> D] : Steps(f, n)
    BY <1>2, <2>1
  <2> DEFINE g == [i \in 0..(n + 1) |-> IF i <= n THEN f[i] ELSE G[n + 1][f[n]]]
  <2>3. G[n + 1][f[n]] \in D
    <3>1. n + 1 \in 1..N /\ f[n] \in D
      BY <2>1
    <3>2. QED
      BY <3>1
  <2>4. g \in [0..(n + 1) -> D]
    <3>1. \A i \in 0..(n + 1) : i <= n => i \in 0..n
      OBVIOUS
    <3>2. QED
      BY <2>3, <3>1
  <2>5. g[0] = base
    BY <2>2
  <2>6. \A i \in 1..(n + 1) : g[i] = G[i][g[i - 1]]
    <3>1. TAKE i \in 1..(n + 1)
    <3>2. i - 1 \in 0..n /\ i - 1 \in 0..(n + 1) /\ g[i - 1] = f[i - 1]
      BY <3>1
    <3>3. CASE i <= n
      <4>1. i \in 1..n /\ g[i] = f[i]
        BY <3>1, <3>3
      <4>2. QED
        BY <2>2, <3>2, <4>1
    <3>4. CASE i = n + 1
      BY <3>2, <3>4
    <3>5. QED
      BY <3>1, <3>3, <3>4
  <2>7. QED
    <3> HIDE DEF g
    <3> QED BY <2>4, <2>5, <2>6
<1>3. Nat \subseteq Built
  <2> HIDE DEF Built
  <2> QED BY <1>1, <1>2, NatSteps
<1>4. N \in Built
  BY <1>3
<1>5. QED
  BY <1>4 DEF HasFold

-----------------------------------------------------------------------------
(* The scheduler. *)

Bundles == SUBSET DOMAIN Objects
PackType == [open : Seq(Bundles), size : Nat, done : Seq(Seq(Bundles))]

\* A bundle, and the set of the objects it modifies, is finite.
LEMMA BundleFacts ==
  ASSUME NEW b \in Bundles
  PROVE  /\ IsFiniteSet(b) /\ Cardinality(b) \in Nat
         /\ (Cardinality(b) = 0 <=> b = {})
         /\ IsFiniteSet(modified(b)) /\ Cardinality(modified(b)) \in Nat
<1>1. IsFiniteSet(b)
  BY FS_Subset, BatchingAssumption DEF Bundles
<1>2. IsFiniteSet(modified(b))
  <2> DEFINE S == {Objects[c] : c \in b}
             f == [c \in b |-> Objects[c]]
  <2>1. IsFiniteSet(S)
    <3>1. f \in Surjection(b, S)
      BY DEF Surjection
    <3> HIDE DEF f, S
    <3>2. QED
      BY <1>1, <3>1, FS_Surjection
  <2>2. \A T \in S : IsFiniteSet(T)
    BY BatchingAssumption DEF Bundles
  <2> HIDE DEF S
  <2>3. IsFiniteSet(UNION S)
    BY <2>1, <2>2, FS_UNION
  <2>4. QED
    BY <2>3 DEF S, modified
<1>3. QED
  BY <1>1, <1>2, FS_CardinalityType, FS_EmptySet

\* A turn of the loop of schedule keeps the shape of its state.
LEMMA PackFacts ==
  ASSUME NEW s \in PackType, NEW b \in Bundles
  PROVE  flush(s) \in PackType /\ pack(s, b) \in PackType
<1>1. flush(s) \in PackType
  <2>1. s.open \in Seq(Bundles) /\ s.done \in Seq(Seq(Bundles))
    BY DEF PackType
  <2>2. Append(s.done, s.open) \in Seq(Seq(Bundles)) /\ <<>> \in Seq(Bundles)
    BY <2>1, AppendProperties, EmptySeq
  <2>3. QED
    BY <2>2 DEF flush, NothingPacked, PackType
<1>2. ASSUME NEW t \in PackType
      PROVE  [t EXCEPT !.open = Append(@, b), !.size = @ + Cardinality(b)] \in PackType
  <2>1. Append(t.open, b) \in Seq(Bundles)
    BY AppendProperties DEF PackType
  <2>2. t.size + Cardinality(b) \in Nat
    BY BundleFacts DEF PackType
  <2>3. QED
    BY <2>1, <2>2 DEF PackType
<1>3. QED
  BY <1>1, <1>2 DEF pack

(* The turns of the loop of schedule. *)
LEMMA ScheduleTurns ==
  ASSUME NEW list \in Seq(Bundles)
  PROVE  \E turn \in [0..Len(list) -> PackType] :
           /\ turn[0] = NothingPacked
           /\ \A i \in 1..Len(list) : turn[i] = pack(turn[i - 1], list[i])
           /\ schedule(list) = flush(turn[Len(list)]).done
<1> DEFINE N == Len(list)
           Def(h) == [i \in 0..N |-> IF i = 0 THEN NothingPacked ELSE pack(h[i - 1], list[i])]
           G == [i \in 1..N |-> [s \in PackType |-> pack(s, list[i])]]
<1>1. N \in Nat /\ \A i \in 1..N : list[i] \in Bundles
  BY LenProperties, ElementOfSeq
<1>2. NothingPacked \in PackType
  BY EmptySeq DEF NothingPacked, PackType
<1>3. G \in [1..N -> [PackType -> PackType]]
  BY <1>1, PackFacts
<1>4. PICK f \in [0..N -> PackType] :
         f[0] = NothingPacked /\ \A i \in 1..N : f[i] = G[i][f[i - 1]]
  <2> HIDE DEF G, N
  <2>1. HasFold(PackType, NothingPacked, N, G)
    BY <1>1, <1>2, <1>3, Folded
  <2>2. QED
    BY <2>1, Zenon DEF HasFold
<1>5. \A i \in 1..N : f[i] = pack(f[i - 1], list[i])
  <2>1. TAKE i \in 1..N
  <2>2. f[i - 1] \in PackType
    BY <1>1, <2>1
  <2>3. QED
    BY <1>4, <2>1, <2>2
<1>6. f = Def(f)
  <2>1. \A i \in 0..N : f[i] = IF i = 0 THEN NothingPacked ELSE pack(f[i - 1], list[i])
    BY <1>1, <1>4, <1>5
  <2>2. QED
    BY <2>1
<1> DEFINE F == CHOOSE h : h = Def(h)
<1>7. F = Def(F)
  <2> HIDE DEF Def
  <2> QED BY <1>6
<1>8. schedule(list) = flush(F[N]).done
  BY DEF schedule
<1>9. F[0] = NothingPacked /\ \A i \in 1..N : F[i] = pack(F[i - 1], list[i])
  <2>1. \A i \in 0..N : F[i] = IF i = 0 THEN NothingPacked ELSE pack(F[i - 1], list[i])
    <3> HIDE DEF F
    <3> QED BY <1>7
  <2>2. 0 \in 0..N /\ \A i \in 1..N : i \in 0..N /\ i # 0
    BY <1>1
  <2> HIDE DEF F
  <2>3. QED
    BY <2>1, <2>2
<1>10. F \in [0..N -> PackType]
  <2> DEFINE Fine == {i \in Nat : i <= N => F[i] \in PackType}
  <2>1. 0 \in Fine
    BY <1>2, <1>9
  <2>2. ASSUME NEW n \in Nat, n \in Fine PROVE n + 1 \in Fine
    <3>1. SUFFICES ASSUME n + 1 <= N PROVE F[n + 1] \in PackType
      OBVIOUS
    <3>2. n + 1 \in 1..N /\ F[n] \in PackType /\ (n + 1) - 1 = n
      BY <1>1, <2>2, <3>1
    <3>3. F[n + 1] = pack(F[n], list[n + 1])
      BY <1>9, <3>2
    <3>4. QED
      BY <1>1, <3>2, <3>3, PackFacts
  <2>3. Nat \subseteq Fine
    <3> HIDE DEF Fine
    <3> QED BY <2>1, <2>2, NatSteps
  <2>4. \A i \in 0..N : F[i] \in PackType
    BY <1>1, <2>3
  <2>5. QED
    BY <1>7, <2>4
<1>11. QED
  <2> HIDE DEF F, Def
  <2> QED BY <1>8, <1>9, <1>10
\* A bundle within the caps makes one batch of its own.
LEMMA ScheduleOne ==
  ASSUME NEW b \in Bundles, b # {}, ~oversized(b)
  PROVE  schedule(<<b>>) = <<<<b>>>>
<1>1. <<b>> \in Seq(Bundles) /\ Len(<<b>>) = 1 /\ <<b>>[1] = b
  OBVIOUS
<1>2. PICK turn \in [0..1 -> PackType] :
        /\ turn[0] = NothingPacked /\ turn[1] = pack(turn[0], b)
        /\ schedule(<<b>>) = flush(turn[1]).done
  <2>1. PICK turn \in [0..1 -> PackType] :
          /\ turn[0] = NothingPacked
          /\ \A i \in 1..1 : turn[i] = pack(turn[i - 1], <<b>>[i])
          /\ schedule(<<b>>) = flush(turn[1]).done
    BY <1>1, ScheduleTurns
  <2>2. 1 \in 1..1 /\ 1 - 1 = 0
    OBVIOUS
  <2>3. turn[1] = pack(turn[0], b)
    BY <1>1, <2>1, <2>2
  <2>4. QED
    BY <2>1, <2>3
<1>3. Together(<<>>) \cup b = b
  BY DEF Together, ToSet
<1>4. Cardinality(b) \in Nat /\ Cardinality(b) <= MaxActions /\ Cardinality(modified(b)) <= MaxObjects
  BY BundleFacts, BatchingAssumption DEF oversized
<1>5. pack(NothingPacked, b).open = <<b>> /\ pack(NothingPacked, b).done = <<>>
  <2>1. NothingPacked.size + Cardinality(b) <= MaxActions
    BY <1>4 DEF NothingPacked
  <2>2. Cardinality(modified(Together(NothingPacked.open) \cup b)) <= MaxObjects
    BY <1>3, <1>4 DEF NothingPacked
  <2>3. pack(NothingPacked, b) = [NothingPacked EXCEPT !.open = Append(@, b), !.size = @ + Cardinality(b)]
    BY <2>1, <2>2 DEF pack
  <2>4. \A o, n : /\ [NothingPacked EXCEPT !.open = o, !.size = n].open = o
                 /\ [NothingPacked EXCEPT !.open = o, !.size = n].done = <<>>
    BY DEF NothingPacked
  <2>5. NothingPacked.open = <<>> /\ Append(<<>>, b) = <<b>>
    BY DEF NothingPacked
  <2>6. QED
    BY <2>3, <2>4, <2>5
<1>6. flush(pack(NothingPacked, b)).done = <<<<b>>>>
  <2>1. flush(pack(NothingPacked, b)) = [NothingPacked EXCEPT !.done = Append(<<>>, <<b>>)]
    BY <1>5 DEF flush
  <2>2. Append(<<>>, <<b>>) = <<<<b>>>>
    OBVIOUS
  <2>3. QED
    BY <2>1, <2>2 DEF NothingPacked
<1>7. QED
  BY <1>2, <1>5, <1>6

-----------------------------------------------------------------------------
(* The rounds of the coordination. *)

\* The smaller of two numbers.
LEMMA MinTwo ==
  ASSUME NEW a \in Int, NEW b \in Int
  PROVE  Min({a, b}) = IF a <= b THEN a ELSE b
<1>1. \E x \in {a, b} : \A y \in {a, b} : x <= y
  <2>1. CASE a <= b
    BY <2>1
  <2>2. CASE b <= a
    BY <2>2
  <2>3. QED
    BY <2>1, <2>2
<1>2. Min({a, b}) \in {a, b} /\ \A y \in {a, b} : Min({a, b}) <= y
  BY <1>1 DEF Min
<1>3. QED
  BY <1>2

\* The sets of candidates a window may select are bundles of the scheduler.
LEMMA CandidateBundles ==
  ASSUME NEW b \in SUBSET Candidates
  PROVE  /\ b \in Bundles /\ b # Unknown
         /\ Cardinality(b) \in Nat /\ (Cardinality(b) = 0 <=> b = {})
<1>1. b \in Bundles /\ b # Unknown
  <2>1. b \subseteq Candidates /\ Candidates \subseteq DOMAIN Objects /\ 0 \notin Candidates
    BY CoordinationAssumption
  <2>2. b \in Bundles
    BY <2>1 DEF Bundles
  <2>3. b # {0}
    BY <2>1
  <2>4. QED
    BY <2>2, <2>3 DEF Unknown
<1>2. QED
  BY <1>1, BundleFacts

Ceiling == Min({MaxActions, MaxBundle})

\* The first cap of a window leaves room for one candidate.
LEMMA CeilingFacts ==
  Ceiling \in Nat \ {0}
BY MinTwo, BatchingAssumption, CoordinationAssumption DEF Ceiling

\* What the sandbox may say, and of which candidates.
EvidenceType ==
  [status : {"none", "clean", "dirty", "incomplete", "foreign"}, of : SUBSET Candidates]
CoordinationTypeOK ==
  /\ phase \in {"solve", "compile", "verify", "judge", "reject", "done"}
  /\ budget \in [rounds : Nat, jobs : Nat]
  /\ round \in Nat /\ selection_cap \in Nat
  /\ bundle \in SUBSET Candidates
  /\ preview \in (SUBSET Candidates) \cup {Unknown}
  /\ no_goods \in SUBSET SUBSET Candidates
  /\ jobs \in Nat /\ jobs <= budget.jobs
  /\ sandboxed \in [SUBSET Candidates -> {0, 1}]
  /\ evidence \in EvidenceType

\* What the rounds have left: a round for every cardinality below the cap.
RoundsLeft ==
  /\ selection_cap >= 1 /\ round <= budget.rounds
  /\ budget.rounds >= Ceiling =>
       /\ phase = "solve" => budget.rounds - round >= selection_cap
       /\ phase \in {"compile", "verify", "judge", "reject"} =>
            budget.rounds - round >= selection_cap - 1
       /\ outcome = "NO_SAFE_BUNDLE" /\ round = budget.rounds => Cardinality(bundle) = 1
  /\ phase \in {"compile", "verify", "judge", "reject"} =>
       bundle # {} /\ Cardinality(bundle) <= selection_cap
  /\ preview # Unknown /\ phase # "done" =>
       phase = "solve" /\ preview # {} /\ Cardinality(preview) <= selection_cap

\* What the sandbox was asked is remembered before it is asked again.
Bought ==
  /\ \A b \in SUBSET Candidates :
       sandboxed[b] = 1 =>
         \/ b \in no_goods \/ phase = "done"
         \/ phase \in {"judge", "reject"} /\ b = bundle
  /\ phase \in {"compile", "verify"} => bundle \notin no_goods
  /\ preview # Unknown => preview \notin no_goods

\* What is verified fits in one batch.
Verified ==
  /\ phase \in {"verify", "judge", "reject"} => ~oversized(bundle)
  /\ phase # "done" => outcome = "none"
  /\ evidence.status \in {"none", "foreign"} => evidence.of = {}
  /\ SafeIsExact

CoordinationInv == CoordinationTypeOK /\ RoundsLeft /\ Bought /\ Verified

\* A backoff either gives up at a singleton or goes one below the bundle.
LEMMA BackoffStep ==
  ASSUME CoordinationTypeOK, RoundsLeft, phase \in {"compile", "reject"}, backoff
  PROVE  /\ Cardinality(bundle) \in Nat
         /\ \/ /\ phase' = "done" /\ outcome' = "NO_SAFE_BUNDLE" /\ selection_cap' = selection_cap
               /\ Cardinality(bundle) = 1
            \/ /\ phase' = "solve" /\ outcome' = outcome
               /\ selection_cap' = Cardinality(bundle) - 1
               /\ selection_cap' \in Nat /\ selection_cap' >= 1 /\ selection_cap' < selection_cap
<1>1. /\ Cardinality(bundle) \in Nat /\ selection_cap \in Nat
      /\ Cardinality(bundle) >= 1 /\ Cardinality(bundle) <= selection_cap
  BY CandidateBundles DEF CoordinationTypeOK, RoundsLeft
<1>2. Min({selection_cap - 1, Cardinality(bundle) - 1}) = Cardinality(bundle) - 1
  BY <1>1, MinTwo
<1>3. IF Cardinality(bundle) - 1 < 1 THEN Return("NO_SAFE_BUNDLE") /\ UNCHANGED selection_cap
      ELSE selection_cap' = Cardinality(bundle) - 1 /\ phase' = "solve" /\ UNCHANGED outcome
  BY <1>2 DEF backoff
<1>4. QED
  BY <1>1, <1>3 DEF Return

\* A round that is spent lowers what is left by one.
LEMMA SpentRound ==
  ASSUME NEW rounds \in Nat, NEW r \in Nat, NEW cap \in Nat, r <= rounds, r # rounds
  PROVE  /\ r + 1 \in Nat /\ r + 1 <= rounds
         /\ rounds - r >= cap => rounds - (r + 1) >= cap - 1
OBVIOUS

\* A window starts with its rounds and its money intact.
LEMMA InitHolds ==
  CoordinationInit => CoordinationInv
<1> SUFFICES ASSUME CoordinationInit PROVE CoordinationInv
  OBVIOUS
<1> USE DEF CoordinationInit
<1>1. budget \in [rounds : Nat, jobs : Nat] /\ selection_cap = Ceiling /\ Ceiling \in Nat \ {0}
  BY CeilingFacts, CoordinationAssumption DEF Ceiling
<1>2. CoordinationTypeOK
  <2>1. sandboxed \in [SUBSET Candidates -> {0, 1}]
    OBVIOUS
  <2>2. jobs \in Nat /\ jobs <= budget.jobs
    BY <1>1
  <2>3. preview \in (SUBSET Candidates) \cup {Unknown} /\ bundle \in SUBSET Candidates
        /\ no_goods \in SUBSET SUBSET Candidates
    BY Zenon
  <2>4. evidence \in EvidenceType
    BY DEF NoEvidence, EvidenceType
  <2>5. QED
    BY <1>1, <2>1, <2>2, <2>3, <2>4 DEF CoordinationTypeOK
<1>3. RoundsLeft
  BY <1>1 DEF RoundsLeft
<1>4. Bought
  BY DEF Bought
<1>5. Verified
  BY DEF Verified, SafeIsExact, NoEvidence
<1>6. QED
  BY <1>2, <1>3, <1>4, <1>5 DEF CoordinationInv

\* Solving spends a round, and returns a bundle no no-good equals.
LEMMA SolveHolds ==
  CoordinationInv /\ Solve => CoordinationInv'
<1> SUFFICES ASSUME CoordinationInv, Solve PROVE CoordinationInv'
  OBVIOUS
<1> USE DEF CoordinationInv
<1>1. CASE round = budget.rounds
  <2>1. /\ phase' = "done" /\ outcome' = "NO_SAFE_BUNDLE"
        /\ UNCHANGED <<budget, round, selection_cap, bundle, preview, no_goods,
                       same_cardinality_retried, jobs, evidence, sandboxed>>
    BY <1>1 DEF Solve, Return
  <2>2. CoordinationTypeOK'
    BY <2>1 DEF CoordinationTypeOK
  <2>3. RoundsLeft'
    <3>1. budget.rounds - round = 0 /\ selection_cap >= 1 /\ phase = "solve"
      BY <1>1 DEF CoordinationTypeOK, RoundsLeft, Solve
    <3>2. ~ budget.rounds >= Ceiling
      BY <3>1 DEF RoundsLeft, CoordinationTypeOK
    <3>3. QED
      BY <2>1, <3>2 DEF RoundsLeft
  <2>4. Bought'
    BY <2>1 DEF Bought
  <2>5. Verified'
    BY <2>1 DEF Verified, SafeIsExact
  <2>6. QED
    BY <2>2, <2>3, <2>4, <2>5
<1>2. CASE round # budget.rounds
  <2>1. /\ phase = "solve" /\ round' = round + 1 /\ preview' = Unknown
        /\ bundle' \in IF preview # Unknown THEN {preview} ELSE Solutions(selection_cap, no_goods)
        /\ \/ bundle' = {} /\ phase' = "done" /\ outcome' = "NO_OP"
           \/ bundle' # {} /\ phase' = "compile" /\ outcome' = outcome
        /\ UNCHANGED <<budget, selection_cap, no_goods, same_cardinality_retried, jobs,
                       evidence, sandboxed>>
    BY <1>2 DEF Solve, Return
  <2>2. /\ bundle' \in SUBSET Candidates /\ Cardinality(bundle') <= selection_cap
        /\ bundle' \notin no_goods
    <3>1. CASE preview # Unknown
      <4>1. bundle' = preview /\ preview \in SUBSET Candidates
        BY <2>1, <3>1 DEF CoordinationTypeOK
      <4>2. Cardinality(preview) <= selection_cap /\ preview \notin no_goods
        BY <2>1, <3>1 DEF RoundsLeft, Bought
      <4>3. QED
        BY <4>1, <4>2
    <3>2. CASE preview = Unknown
      <4>1. bundle' \in Solutions(selection_cap, no_goods)
        BY <2>1, <3>2
      <4>2. QED
        BY <4>1 DEF Solutions
    <3>3. QED
      BY <3>1, <3>2
  <2>3. /\ budget.rounds \in Nat /\ round \in Nat /\ selection_cap \in Nat /\ round <= budget.rounds
    BY DEF CoordinationTypeOK, RoundsLeft
  <2>4. /\ round' \in Nat /\ round' <= budget.rounds
        /\ budget.rounds - round >= selection_cap => budget.rounds - round' >= selection_cap - 1
    BY <1>2, <2>1, <2>3, SpentRound
  <2>5. CoordinationTypeOK'
    <3>1. preview' \in (SUBSET Candidates) \cup {Unknown}
      BY <2>1, Zenon
    <3>2. phase' \in {"compile", "done"}
      BY <2>1
    <3>3. QED
      BY <2>1, <2>2, <2>4, <3>1, <3>2 DEF CoordinationTypeOK
  <2>6. RoundsLeft'
    <3>1. /\ budget' = budget /\ selection_cap' = selection_cap
          /\ phase' \in {"compile", "done"} /\ outcome' # "NO_SAFE_BUNDLE"
      BY <2>1 DEF Verified
    <3>2. selection_cap >= 1
      BY DEF RoundsLeft
    <3>3. budget.rounds >= Ceiling => budget.rounds - round' >= selection_cap - 1
      BY <2>1, <2>4 DEF RoundsLeft
    <3>4. phase' = "compile" => bundle' # {} /\ Cardinality(bundle') <= selection_cap
      BY <2>1, <2>2
    <3>5. preview' = Unknown
      BY <2>1
    <3>6. QED
      BY <2>4, <3>1, <3>2, <3>3, <3>4, <3>5 DEF RoundsLeft
  <2>7. Bought'
    <3>1. \A b \in SUBSET Candidates : sandboxed[b] = 1 => b \in no_goods
      BY <2>1 DEF Bought
    <3>2. QED
      BY <2>1, <2>2, <3>1 DEF Bought
  <2>8. Verified'
    BY <2>1 DEF Verified, SafeIsExact
  <2>9. QED
    BY <2>5, <2>6, <2>7, <2>8
<1>3. QED
  BY <1>1, <1>2

\* A bundle that does not compile, or is over a cap, is learned and backed off from.
LEMMA CompileHolds ==
  CoordinationInv /\ Compile => CoordinationInv'
<1> SUFFICES ASSUME CoordinationInv, Compile PROVE CoordinationInv'
  OBVIOUS
<1> USE DEF CoordinationInv
<1>1. /\ phase = "compile" /\ outcome = "none"
      /\ UNCHANGED <<budget, round, bundle, preview, same_cardinality_retried, jobs, evidence, sandboxed>>
  BY DEF Compile, Verified
<1>2. preview = Unknown /\ bundle # {} /\ Cardinality(bundle) <= selection_cap /\ bundle \in SUBSET Candidates
  BY <1>1 DEF RoundsLeft, CoordinationTypeOK
<1>3. CASE ~within_caps \/ ~compile
  <2>1. no_goods' = no_goods \cup {bundle} /\ backoff
    BY <1>3 DEF Compile
  <2>2. /\ Cardinality(bundle) \in Nat
        /\ \/ /\ phase' = "done" /\ outcome' = "NO_SAFE_BUNDLE" /\ selection_cap' = selection_cap
              /\ Cardinality(bundle) = 1
           \/ /\ phase' = "solve" /\ outcome' = outcome
              /\ selection_cap' = Cardinality(bundle) - 1
              /\ selection_cap' \in Nat /\ selection_cap' >= 1 /\ selection_cap' < selection_cap
    BY <1>1, <2>1, BackoffStep
  <2>3. CoordinationTypeOK'
    BY <1>1, <1>2, <2>1, <2>2 DEF CoordinationTypeOK
  <2>4. RoundsLeft'
    <3>1. selection_cap >= 1 /\ round <= budget.rounds /\ budget.rounds \in Nat /\ round \in Nat
          /\ selection_cap \in Nat
      BY DEF RoundsLeft, CoordinationTypeOK
    <3>2. budget.rounds >= Ceiling => budget.rounds - round >= selection_cap - 1
      BY <1>1 DEF RoundsLeft
    <3>3. CASE phase' = "done"
      BY <1>1, <1>2, <2>2, <3>1, <3>3 DEF RoundsLeft
    <3>4. CASE phase' = "solve"
      <4>1. selection_cap' >= 1 /\ (budget.rounds >= Ceiling => budget.rounds - round >= selection_cap')
        BY <2>2, <3>1, <3>2, <3>4
      <4>2. QED
        BY <1>1, <1>2, <2>2, <3>1, <3>4, <4>1 DEF RoundsLeft
    <3>5. QED
      BY <2>2, <3>3, <3>4
  <2>5. Bought'
    <3>1. \A b \in SUBSET Candidates : sandboxed[b] = 1 => b \in no_goods
      BY <1>1 DEF Bought
    <3>2. QED
      BY <1>1, <1>2, <2>1, <2>2, <3>1 DEF Bought
  <2>6. Verified'
    BY <1>1, <2>2 DEF Verified, SafeIsExact
  <2>7. QED
    BY <2>3, <2>4, <2>5, <2>6
<1>4. CASE within_caps /\ compile
  <2>1. phase' = "verify" /\ UNCHANGED <<no_goods, selection_cap, outcome>>
    BY <1>4 DEF Compile
  <2>2. CoordinationTypeOK'
    BY <1>1, <2>1 DEF CoordinationTypeOK
  <2>3. RoundsLeft'
    BY <1>1, <2>1 DEF RoundsLeft
  <2>4. Bought'
    BY <1>1, <2>1 DEF Bought
  <2>5. Verified'
    BY <1>1, <1>4, <2>1 DEF Verified, SafeIsExact, within_caps, oversized, modified
  <2>6. QED
    BY <2>2, <2>3, <2>4, <2>5
<1>5. QED
  BY <1>3, <1>4

\* The evidence of a bundle is asked for, or brought along.
LEMMA VerifyHolds ==
  CoordinationInv /\ (Reuse \/ Sandbox) => CoordinationInv'
<1> SUFFICES ASSUME CoordinationInv, Reuse \/ Sandbox PROVE CoordinationInv'
  OBVIOUS
<1> USE DEF CoordinationInv
<1>1. /\ phase = "verify" /\ outcome = "none"
      /\ phase' \in {"judge", "done"} /\ outcome' # "SAFE"
      /\ phase' # "done" => outcome' = "none"
      /\ UNCHANGED <<budget, round, selection_cap, bundle, preview, no_goods, same_cardinality_retried>>
  BY DEF Reuse, Sandbox, Return, Verified
<1>2. bundle \in SUBSET Candidates /\ bundle \notin no_goods /\ sandboxed[bundle] = 0
  BY <1>1 DEF Bought, CoordinationTypeOK
<1>3. jobs' \in Nat /\ jobs' <= budget.jobs
  BY DEF Reuse, Sandbox, CoordinationTypeOK
<1>4. /\ sandboxed' \in [SUBSET Candidates -> {0, 1}]
      /\ \A b \in SUBSET Candidates : sandboxed'[b] = 1 => sandboxed[b] = 1 \/ b = bundle
  BY <1>2 DEF Reuse, Sandbox, CoordinationTypeOK
<1>5. evidence' \in EvidenceType /\ (evidence'.status \in {"none", "foreign"} => evidence'.of = {})
  BY <1>2 DEF Reuse, Sandbox, CoordinationTypeOK, EvidenceType, Verified
<1>6. CoordinationTypeOK'
  BY <1>1, <1>3, <1>4, <1>5 DEF CoordinationTypeOK
<1>7. RoundsLeft'
  <2>1. /\ selection_cap >= 1 /\ round <= budget.rounds /\ preview = Unknown
        /\ bundle # {} /\ Cardinality(bundle) <= selection_cap
        /\ budget.rounds >= Ceiling => budget.rounds - round >= selection_cap - 1
    BY <1>1 DEF RoundsLeft
  <2>2. Cardinality(bundle) \in Nat /\ Cardinality(bundle) >= 1 /\ selection_cap \in Nat
        /\ budget.rounds \in Nat /\ round \in Nat
    BY <1>2, <2>1, CandidateBundles DEF CoordinationTypeOK
  <2>3. budget.rounds >= Ceiling /\ round = budget.rounds => Cardinality(bundle) = 1
    BY <2>1, <2>2
  <2>4. QED
    BY <1>1, <2>1, <2>3 DEF RoundsLeft
<1>8. Bought'
  <2>1. \A b \in SUBSET Candidates : sandboxed'[b] = 1 => b \in no_goods \/ b = bundle
    BY <1>1, <1>4 DEF Bought
  <2>2. QED
    BY <1>1, <2>1 DEF Bought
<1>9. Verified'
  BY <1>1, <1>5 DEF Verified, SafeIsExact, oversized, modified
<1>10. QED
  BY <1>6, <1>7, <1>8, <1>9

\* The verdict on the evidence: SAFE only for clean evidence of this bundle.
LEMMA JudgeHolds ==
  CoordinationInv /\ Judge => CoordinationInv'
<1> SUFFICES ASSUME CoordinationInv, Judge PROVE CoordinationInv'
  OBVIOUS
<1> USE DEF CoordinationInv
<1>1. /\ phase = "judge" /\ outcome = "none"
      /\ UNCHANGED <<budget, round, selection_cap, bundle, preview, no_goods,
                     same_cardinality_retried, jobs, evidence, sandboxed>>
  BY DEF Judge, Verified
<1>2. /\ bundle # {} /\ bundle \in Bundles /\ ~oversized(bundle) /\ evidence \in EvidenceType
  BY <1>1, CandidateBundles DEF RoundsLeft, CoordinationTypeOK, Verified
<1>3. schedule(<<bundle>>) = <<<<bundle>>>>
  BY <1>2, ScheduleOne
<1>4. \/ phase' = "done" /\ outcome' \in {"NO_SAFE_BUNDLE", "INFRASTRUCTURE_FAILURE"}
      \/ phase' = "done" /\ outcome' = "SAFE" /\ evidence.status = "clean" /\ evidence.of = bundle
      \/ phase' = "reject" /\ outcome' = "none" /\ evidence.status = "dirty"
  <2>1. CASE evidence.status = "incomplete"
    BY <2>1 DEF Judge, Return
  <2>2. CASE evidence.status # "incomplete" /\ evidence.of # bundle
    <3>1. Return("INFRASTRUCTURE_FAILURE")
      BY <2>2 DEF Judge
    <3>2. QED
      BY <3>1 DEF Return
  <2>3. CASE evidence.status # "incomplete" /\ evidence.of = bundle /\ evidence.status = "clean"
    <3>1. Return("SAFE")
      BY <1>3, <2>3 DEF Judge
    <3>2. QED
      BY <2>3, <3>1 DEF Return
  <2>4. CASE evidence.status # "incomplete" /\ evidence.of = bundle /\ evidence.status # "clean"
    <3>1. phase' = "reject" /\ outcome' = outcome
      BY <2>4 DEF Judge
    <3>2. evidence.status = "dirty"
      BY <1>2, <2>4 DEF EvidenceType, Verified
    <3>3. QED
      BY <1>1, <3>1, <3>2
  <2>5. QED
    BY <2>1, <2>2, <2>3, <2>4
<1>5. CoordinationTypeOK'
  <2>1. phase' \in {"reject", "done"}
    BY <1>4
  <2>2. QED
    BY <1>1, <2>1 DEF CoordinationTypeOK
<1>6. RoundsLeft'
  <2>1. /\ selection_cap >= 1 /\ round <= budget.rounds /\ preview = Unknown
        /\ Cardinality(bundle) <= selection_cap
        /\ budget.rounds >= Ceiling => budget.rounds - round >= selection_cap - 1
    BY <1>1 DEF RoundsLeft
  <2>2. Cardinality(bundle) \in Nat /\ Cardinality(bundle) >= 1 /\ selection_cap \in Nat
        /\ budget.rounds \in Nat /\ round \in Nat
    BY <1>2, CandidateBundles DEF CoordinationTypeOK
  <2>3. budget.rounds >= Ceiling /\ round = budget.rounds => Cardinality(bundle) = 1
    BY <2>1, <2>2
  <2>4. phase' \in {"reject", "done"}
    BY <1>4
  <2>5. QED
    BY <1>1, <1>2, <2>1, <2>3, <2>4 DEF RoundsLeft
<1>7. Bought'
  BY <1>1, <1>4 DEF Bought
<1>8. Verified'
  <2>1. evidence.status = "clean" /\ evidence.of = bundle => evidence = [status |-> "clean", of |-> bundle]
    BY <1>2 DEF EvidenceType
  <2>2. QED
    BY <1>1, <1>2, <1>4, <2>1 DEF Verified, SafeIsExact, oversized, modified
<1>9. QED
  BY <1>5, <1>6, <1>7, <1>8

\* A rejected bundle is learned; a round at the same cap is granted from spare rounds only.
LEMMA RejectHolds ==
  CoordinationInv /\ Reject => CoordinationInv'
<1> SUFFICES ASSUME CoordinationInv, Reject PROVE CoordinationInv'
  OBVIOUS
<1> USE DEF CoordinationInv
<1>1. /\ phase = "reject" /\ outcome = "none" /\ no_goods' = no_goods \cup {bundle}
      /\ UNCHANGED <<budget, round, bundle, jobs, evidence, sandboxed>>
  BY DEF Reject, learned, Verified
<1>2. /\ preview = Unknown /\ bundle # {} /\ Cardinality(bundle) <= selection_cap
      /\ bundle \in SUBSET Candidates /\ selection_cap >= 1 /\ round <= budget.rounds
      /\ budget.rounds >= Ceiling => budget.rounds - round >= selection_cap - 1
  BY <1>1 DEF RoundsLeft, CoordinationTypeOK
<1>3. /\ Cardinality(bundle) \in Nat /\ Cardinality(bundle) >= 1 /\ selection_cap \in Nat
      /\ budget.rounds \in Nat /\ round \in Nat
  BY <1>2, CandidateBundles DEF CoordinationTypeOK
<1>4. Bought'
  <2>1. \A b \in SUBSET Candidates : sandboxed[b] = 1 => b \in no_goods \cup {bundle}
    BY <1>1 DEF Bought
  <2>2. phase' \in {"solve", "done"}
    BY DEF Reject, backoff, Return
  <2>3. preview' # Unknown => preview' \notin no_goods \cup {bundle}
    BY <1>2 DEF Reject, learned, Solutions
  <2>4. QED
    BY <1>1, <2>1, <2>2, <2>3 DEF Bought
<1>5. CASE backoff /\ UNCHANGED <<preview, same_cardinality_retried>>
  <2>1. \/ /\ phase' = "done" /\ outcome' = "NO_SAFE_BUNDLE" /\ selection_cap' = selection_cap
           /\ Cardinality(bundle) = 1
        \/ /\ phase' = "solve" /\ outcome' = outcome
           /\ selection_cap' = Cardinality(bundle) - 1
           /\ selection_cap' \in Nat /\ selection_cap' >= 1 /\ selection_cap' < selection_cap
    BY <1>1, <1>5, BackoffStep
  <2>2. CoordinationTypeOK'
    BY <1>1, <1>2, <1>5, <2>1 DEF CoordinationTypeOK
  <2>3. RoundsLeft'
    <3>1. CASE phase' = "done"
      BY <1>1, <1>2, <1>3, <1>5, <2>1, <3>1 DEF RoundsLeft
    <3>2. CASE phase' = "solve"
      <4>1. selection_cap' >= 1 /\ (budget.rounds >= Ceiling => budget.rounds - round >= selection_cap')
        BY <1>2, <1>3, <2>1, <3>2
      <4>2. QED
        BY <1>1, <1>2, <1>5, <2>1, <3>2, <4>1 DEF RoundsLeft
    <3>3. QED
      BY <2>1, <3>1, <3>2
  <2>4. Verified'
    BY <1>1, <2>1 DEF Verified, SafeIsExact
  <2>5. QED
    BY <1>4, <2>2, <2>3, <2>4
<1>6. ASSUME spare_round(Cardinality(bundle)),
             NEW b \in Solutions(Cardinality(bundle), learned), Cardinality(b) = Cardinality(bundle),
             preview' = b, selection_cap' = Cardinality(bundle), phase' = "solve", outcome' = outcome
      PROVE  CoordinationInv'
  <2>1. b \in SUBSET Candidates /\ b # {}
    <3>1. b \in SUBSET Candidates
      BY <1>6 DEF Solutions
    <3>2. QED
      BY <1>3, <1>6, <3>1, CandidateBundles
  <2>2. budget.rounds - round >= Cardinality(bundle)
    BY <1>6 DEF spare_round
  <2>3. CoordinationTypeOK'
    BY <1>1, <1>3, <1>6, <2>1 DEF CoordinationTypeOK
  <2>4. RoundsLeft'
    <3>1. outcome' # "NO_SAFE_BUNDLE"
      BY <1>1, <1>6
    <3>2. Cardinality(preview') <= selection_cap' /\ selection_cap' >= 1
      BY <1>3, <1>6
    <3>3. QED
      BY <1>1, <1>2, <1>3, <1>6, <2>1, <2>2, <3>1, <3>2 DEF RoundsLeft
  <2>5. Verified'
    BY <1>1, <1>6 DEF Verified, SafeIsExact
  <2>6. QED
    BY <1>4, <2>3, <2>4, <2>5
<1>7. QED
  BY <1>5, <1>6 DEF Reject

(* coordinate_active_window: the strengthening that makes the rounds inductive.
   Between two phases a round owes one round per cardinality below the cap
   (RoundsLeft), a bundle the sandbox saw is a no-good or on its way to become
   one (Bought), and what is verified fits in one batch (Verified).           *)
THEOREM CoordinationInvariant == CoordinationSpec => []CoordinationInv
<1>1. CoordinationInv /\ [CoordinationNext]_coordinationVars => CoordinationInv'
  <2>1. CASE CoordinationNext
    BY <2>1, SolveHolds, CompileHolds, VerifyHolds, JudgeHolds, RejectHolds DEF CoordinationNext
  <2>2. CASE UNCHANGED coordinationVars
    BY <2>2 DEF coordinationVars, CoordinationInv, CoordinationTypeOK, RoundsLeft, Bought, Verified,
                SafeIsExact, oversized, modified
  <2>3. QED
    BY <2>1, <2>2
<1>2. QED
  BY <1>1, InitHolds, PTL DEF CoordinationSpec

(* coordinate_active_window ends SAFE only on clean evidence about exactly the
   bundle it returns, its reject is only of dirty evidence, the backoff keeps
   its way down to a singleton, and no bundle goes to the sandbox twice.      *)
THEOREM CoordinationExact == CoordinationSpec => []CoordinationIsExact
<1>1. CoordinationInv => CoordinationIsExact
  <2>1. SUFFICES ASSUME CoordinationInv PROVE CoordinationIsExact
    OBVIOUS
  <2>2. SafeIsExact
    BY <2>1 DEF CoordinationInv, Verified
  <2>3. BackoffReachesSingleton
    BY <2>1 DEF CoordinationInv, RoundsLeft, BackoffReachesSingleton, Ceiling
  <2>4. SandboxedOnce
    BY <2>1 DEF CoordinationInv, CoordinationTypeOK, SandboxedOnce
  <2>5. QED
    BY <2>2, <2>3, <2>4 DEF CoordinationIsExact
<1>2. QED
  BY <1>1, CoordinationInvariant, PTL

-----------------------------------------------------------------------------
(* The batches of the scheduler: what the turns of its loop have packed. *)

\* FlattenSeq as a fold.
LEMMA FlattenTurns ==
  ASSUME NEW B, NEW ss \in Seq(Seq(B))
  PROVE  \E f \in [0..Len(ss) -> Seq(B)] :
           /\ f[0] = <<>> /\ \A i \in 1..Len(ss) : f[i] = f[i - 1] \o ss[i]
           /\ FlattenSeq(ss) = f[Len(ss)]
<1> DEFINE N == Len(ss)
           G == [i \in 1..N |-> [s \in Seq(B) |-> s \o ss[i]]]
           Def(h) == [i \in 1..N |-> IF i = 1 THEN ss[i] ELSE h[i - 1] \o ss[i]]
<1>1. N \in Nat /\ \A i \in 1..N : ss[i] \in Seq(B)
  BY LenProperties, ElementOfSeq
<1>2. <<>> \in Seq(B) /\ G \in [1..N -> [Seq(B) -> Seq(B)]]
  BY <1>1, EmptySeq, ConcatProperties
<1>3. PICK f \in [0..N -> Seq(B)] : f[0] = <<>> /\ \A i \in 1..N : f[i] = G[i][f[i - 1]]
  <2> HIDE DEF G, N
  <2>1. HasFold(Seq(B), <<>>, N, G)
    BY <1>1, <1>2, Folded
  <2>2. QED
    BY <2>1, Zenon DEF HasFold
<1>4. \A i \in 1..N : f[i] = f[i - 1] \o ss[i]
  <2>1. TAKE i \in 1..N
  <2>2. i - 1 \in 0..N
    BY <1>1, <2>1
  <2>3. f[i - 1] \in Seq(B)
    BY <2>2
  <2>4. G[i][f[i - 1]] = f[i - 1] \o ss[i]
    BY <2>1, <2>3
  <2>5. QED
    BY <1>3, <2>1, <2>4
<1>5. CASE N = 0
  <2>1. FlattenSeq(ss) = ss /\ ss = <<>>
    BY <1>5, EmptySeq DEF FlattenSeq
  <2>2. QED
    BY <1>3, <1>4, <1>5, <2>1
<1>6. CASE N # 0
  <2> DEFINE F == CHOOSE h : h = Def(h)
             g == [i \in 1..N |-> f[i]]
  <2>1. g = Def(g)
    <3>1. \A i \in 1..N : g[i] = IF i = 1 THEN ss[i] ELSE g[i - 1] \o ss[i]
      <4>1. TAKE i \in 1..N
      <4>2. CASE i = 1
        <5>1. f[1] = <<>> \o ss[1] /\ ss[1] \in Seq(B)
          <6>1. 1 \in 1..N /\ 1 - 1 = 0
            BY <4>1, <4>2
          <6>2. f[1] = f[1 - 1] \o ss[1]
            BY <1>4, <6>1
          <6>3. f[1 - 1] = <<>>
            BY <1>3, <6>1
          <6>4. QED
            BY <1>1, <6>1, <6>2, <6>3
        <5>2. <<>> \o ss[1] = ss[1]
          BY <5>1, ConcatEmptySeq
        <5>3. QED
          BY <4>1, <4>2, <5>1, <5>2
      <4>3. CASE i # 1
        <5>1. i - 1 \in 1..N
          BY <1>1, <4>1, <4>3
        <5>2. QED
          BY <1>4, <4>1, <4>3, <5>1
      <4>4. QED
        BY <4>2, <4>3
    <3>2. QED
      BY <3>1
  <2>2. F = Def(F)
    <3> HIDE DEF Def, g
    <3> QED BY <2>1
  <2>3. FlattenSeq(ss) = F[N]
    BY <1>6, Zenon DEF FlattenSeq
  <2>4. \A i \in 1..N : F[i] = IF i = 1 THEN ss[i] ELSE F[i - 1] \o ss[i]
    <3> HIDE DEF F
    <3> QED BY <2>2
  <2>5. \A i \in 1..N : g[i] = IF i = 1 THEN ss[i] ELSE g[i - 1] \o ss[i]
    <3> HIDE DEF g
    <3> QED BY <2>1
  <2> DEFINE Same == {n \in Nat : n + 1 <= N => F[n + 1] = g[n + 1]}
  <2> HIDE DEF F, g
  <2>6. 0 \in Same
    BY <1>1, <1>6, <2>4, <2>5
  <2>7. ASSUME NEW n \in Nat, n \in Same PROVE n + 1 \in Same
    <3>1. SUFFICES ASSUME (n + 1) + 1 <= N PROVE F[(n + 1) + 1] = g[(n + 1) + 1]
      OBVIOUS
    <3>2. (n + 1) + 1 \in 1..N /\ (n + 1) + 1 # 1 /\ ((n + 1) + 1) - 1 = n + 1 /\ F[n + 1] = g[n + 1]
      BY <1>1, <2>7, <3>1
    <3>3. QED
      BY <2>4, <2>5, <3>2
  <2>8. Nat \subseteq Same
    <3> HIDE DEF Same
    <3> QED BY <2>6, <2>7, NatSteps
  <2>9. F[N] = g[N]
    <3>1. N - 1 \in Nat /\ (N - 1) + 1 = N
      BY <1>1, <1>6
    <3>2. N - 1 \in Same
      BY <2>8, <3>1
    <3>3. (N - 1) + 1 <= N => F[(N - 1) + 1] = g[(N - 1) + 1]
      BY <3>2
    <3>4. QED
      BY <1>1, <3>1, <3>3
  <2>10. g[N] = f[N]
    BY <1>1, <1>6 DEF g
  <2>11. QED
    BY <1>3, <1>4, <2>3, <2>9, <2>10
<1>7. QED
  BY <1>5, <1>6

\* Closing a batch appends its bundles to those of the closed batches.
LEMMA FlattenAppend ==
  ASSUME NEW B, NEW ss \in Seq(Seq(B)), NEW s \in Seq(B)
  PROVE  FlattenSeq(ss) \in Seq(B) /\ FlattenSeq(Append(ss, s)) = FlattenSeq(ss) \o s
<1> DEFINE N == Len(ss)
           tt == Append(ss, s)
<1>1. /\ N \in Nat /\ tt \in Seq(Seq(B)) /\ Len(tt) = N + 1 /\ tt[N + 1] = s
      /\ \A i \in 1..N : tt[i] = ss[i]
  BY LenProperties, AppendProperties
<1>2. PICK f \in [0..N -> Seq(B)] :
        /\ f[0] = <<>> /\ \A i \in 1..N : f[i] = f[i - 1] \o ss[i]
        /\ FlattenSeq(ss) = f[N]
  BY FlattenTurns
<1> HIDE DEF tt
<1>3. PICK g \in [0..(N + 1) -> Seq(B)] :
        /\ g[0] = <<>> /\ \A i \in 1..(N + 1) : g[i] = g[i - 1] \o tt[i]
        /\ FlattenSeq(tt) = g[N + 1]
  <2>1. PICK g \in [0..Len(tt) -> Seq(B)] :
          /\ g[0] = <<>> /\ \A i \in 1..Len(tt) : g[i] = g[i - 1] \o tt[i]
          /\ FlattenSeq(tt) = g[Len(tt)]
    BY <1>1, FlattenTurns
  <2>2. QED
    BY <1>1, <2>1
<1> HIDE DEF N
<1> DEFINE Same == {n \in Nat : n <= N => f[n] = g[n]}
<1>4. 0 \in Same
  BY <1>2, <1>3
<1>5. ASSUME NEW n \in Nat, n \in Same PROVE n + 1 \in Same
  <2>1. SUFFICES ASSUME n + 1 <= N PROVE f[n + 1] = g[n + 1]
    OBVIOUS
  <2>2. n + 1 \in 1..N /\ n + 1 \in 1..(N + 1) /\ (n + 1) - 1 = n /\ f[n] = g[n]
    BY <1>1, <1>5, <2>1
  <2>3. f[n + 1] = f[n] \o ss[n + 1] /\ g[n + 1] = g[n] \o tt[n + 1] /\ tt[n + 1] = ss[n + 1]
    BY <1>1, <1>2, <1>3, <2>2
  <2>4. QED
    BY <2>2, <2>3
<1>6. Nat \subseteq Same
  <2> HIDE DEF Same
  <2> QED BY <1>4, <1>5, NatSteps
<1>7. f[N] = g[N]
  BY <1>1, <1>6
<1>8. N + 1 \in 1..(N + 1) /\ (N + 1) - 1 = N
  BY <1>1
<1>9. g[N + 1] = g[N] \o s
  BY <1>1, <1>3, <1>8
<1>10. f[N] \in Seq(B)
  BY <1>1, <1>2
<1>11. QED
  BY <1>2, <1>3, <1>7, <1>9, <1>10 DEF tt

\* The candidates of a batch are those of its bundles.
LEMMA TogetherFacts ==
  ASSUME NEW list \in Seq(Bundles), NEW b \in Bundles
  PROVE  /\ Together(list) \in Bundles
         /\ Together(Append(list, b)) = Together(list) \cup b
         /\ Together(<<>>) = {}
<1> DEFINE more == Append(list, b)
<1>1. /\ Len(list) \in Nat /\ DOMAIN list = 1..Len(list) /\ \A i \in 1..Len(list) : list[i] \in Bundles
      /\ DOMAIN more = 1..(Len(list) + 1) /\ more[Len(list) + 1] = b
      /\ \A i \in 1..Len(list) : more[i] = list[i]
  BY LenProperties, ElementOfSeq, AppendProperties
<1>2. Together(list) \in Bundles
  <2>1. \A S \in ToSet(list) : S \subseteq DOMAIN Objects
    BY <1>1 DEF ToSet, Bundles
  <2>2. QED
    BY <2>1 DEF Together, Bundles
<1> HIDE DEF more
<1>3. ToSet(more) = ToSet(list) \cup {b}
  <2>1. \A i \in 1..(Len(list) + 1) : i \in 1..Len(list) \/ i = Len(list) + 1
    BY <1>1
  <2>2. Len(list) + 1 \in 1..(Len(list) + 1) /\ 1..Len(list) \subseteq 1..(Len(list) + 1)
    BY <1>1
  <2>3. \A x : x \in ToSet(more) => x \in ToSet(list) \cup {b}
    BY <1>1, <2>1 DEF ToSet
  <2>4. \A x : x \in ToSet(list) \cup {b} => x \in ToSet(more)
    BY <1>1, <2>2 DEF ToSet
  <2>5. QED
    BY <2>3, <2>4
<1>4. Together(more) = Together(list) \cup b
  BY <1>3 DEF Together
<1>5. Together(<<>>) = {}
  BY DEF Together, ToSet
<1>6. QED
  BY <1>2, <1>4, <1>5 DEF more

\* The bundles packed so far are those of pre, and no batch is over a cap.
PackedWell(s, pre) ==
  /\ FlattenSeq(s.done) \o s.open = pre
  /\ \A j \in DOMAIN s.done : s.done[j] # <<>> /\ ~oversized(Together(s.done[j]))
  /\ ~oversized(Together(s.open)) /\ Cardinality(Together(s.open)) <= s.size

\* The loop of schedule starts well.
LEMMA NothingIsPackedWell ==
  PackedWell(NothingPacked, <<>>)
<1>1. NothingPacked.done = <<>> /\ NothingPacked.open = <<>> /\ NothingPacked.size = 0
  BY DEF NothingPacked
<1>2. FlattenSeq(<<>>) = <<>> /\ <<>> \o <<>> = <<>>
  BY DEF FlattenSeq
<1>3. Together(<<>>) = {} /\ {} \in Bundles
  BY DEF Together, ToSet, Bundles
<1>4. Cardinality({}) = 0 /\ modified({}) = {}
  BY FS_EmptySet DEF modified
<1>5. ~oversized({})
  <2>1. MaxActions \in Nat /\ MaxObjects \in Nat
    BY BatchingAssumption
  <2>2. ~ Cardinality({}) > MaxActions /\ ~ Cardinality(modified({})) > MaxObjects
    BY <1>4, <2>1
  <2>3. QED
    BY <2>2, Zenon DEF oversized
<1>6. QED
  BY <1>1, <1>2, <1>3, <1>4, <1>5 DEF PackedWell

\* Closing the open batch loses no bundle.
LEMMA FlushKeeps ==
  ASSUME NEW s \in PackType, NEW pre, PackedWell(s, pre)
  PROVE  /\ PackedWell(flush(s), pre) /\ flush(s).open = <<>> /\ flush(s) \in PackType
         /\ FlattenSeq(flush(s).done) = pre
<1>1. s.open \in Seq(Bundles) /\ s.done \in Seq(Seq(Bundles)) /\ flush(s) \in PackType
  BY PackFacts DEF PackType, Bundles
<1>2. PackedWell(flush(s), pre) /\ flush(s).open = <<>>
  <2>1. CASE s.open = <<>>
    BY <2>1 DEF flush
  <2>2. CASE s.open # <<>>
    <3> DEFINE more == Append(s.done, s.open)
               t == [NothingPacked EXCEPT !.done = more]
    <3>1. flush(s) = t
      BY <2>2 DEF flush
    <3>2. t.open = <<>> /\ t.size = 0 /\ t.done = more
      BY DEF NothingPacked
    <3>3. FlattenSeq(more) = FlattenSeq(s.done) \o s.open /\ FlattenSeq(s.done) \in Seq(Bundles)
      BY <1>1, FlattenAppend
    <3>4. FlattenSeq(more) \o <<>> = pre
      <4>1. FlattenSeq(more) \in Seq(Bundles) /\ FlattenSeq(more) = pre
        BY <1>1, <3>3, ConcatProperties DEF PackedWell
      <4>2. QED
        BY <4>1, ConcatEmptySeq
    <3>5. \A j \in DOMAIN more : more[j] # <<>> /\ ~oversized(Together(more[j]))
      <4>1. /\ Len(s.done) \in Nat /\ DOMAIN more = 1..(Len(s.done) + 1) /\ DOMAIN s.done = 1..Len(s.done)
            /\ more[Len(s.done) + 1] = s.open /\ \A j \in 1..Len(s.done) : more[j] = s.done[j]
        BY <1>1, LenProperties, AppendProperties
      <4> HIDE DEF more
      <4>2. TAKE j \in DOMAIN more
      <4>3. j \in 1..Len(s.done) \/ j = Len(s.done) + 1
        BY <4>1, <4>2
      <4>4. QED
        BY <2>2, <4>1, <4>3 DEF PackedWell
    <3>6. ~oversized(Together(<<>>)) /\ Cardinality(Together(<<>>)) <= 0
      BY NothingIsPackedWell DEF PackedWell, NothingPacked
    <3>7. QED
      <4> HIDE DEF t, more
      <4> QED BY <3>1, <3>2, <3>4, <3>5, <3>6 DEF PackedWell
  <2>3. QED
    BY <2>1, <2>2
<1>3. FlattenSeq(flush(s).done) = pre
  <2>1. flush(s).done \in Seq(Seq(Bundles))
    BY <1>1 DEF PackType
  <2>2. FlattenSeq(flush(s).done) \in Seq(Bundles)
    BY <1>1, <2>1, FlattenAppend
  <2>3. FlattenSeq(flush(s).done) \o <<>> = FlattenSeq(flush(s).done)
    BY <2>2, ConcatEmptySeq
  <2>4. QED
    BY <1>2, <2>3 DEF PackedWell
<1>4. QED
  BY <1>1, <1>2, <1>3

\* One turn of the loop takes the bundle whole, or defers it when it is oversized.
LEMMA PackKeeps ==
  ASSUME NEW s \in PackType, NEW pre \in Seq(Bundles), PackedWell(s, pre), NEW b \in Bundles
  PROVE  PackedWell(pack(s, b), IF b = {} \/ oversized(b) THEN pre ELSE Append(pre, b))
<1>1. CASE b = {}
  BY <1>1 DEF pack
<1>2. CASE b # {} /\ oversized(b)
  BY <1>2, FlushKeeps DEF pack
<1>3. CASE b # {} /\ ~oversized(b)
  <2> DEFINE room == /\ s.size + Cardinality(b) <= MaxActions
                     /\ Cardinality(modified(Together(s.open) \cup b)) <= MaxObjects
             t == IF room THEN s ELSE flush(s)
             u == [t EXCEPT !.open = Append(@, b), !.size = @ + Cardinality(b)]
  <2>1. pack(s, b) = u
    BY <1>3 DEF pack
  <2>2. t \in PackType /\ PackedWell(t, pre)
    BY FlushKeeps
  <2>3. t.open \in Seq(Bundles) /\ t.size \in Nat /\ t.done \in Seq(Seq(Bundles))
    BY <2>2 DEF PackType
  <2>4. u.open = Append(t.open, b) /\ u.size = t.size + Cardinality(b) /\ u.done = t.done
    BY <2>2 DEF PackType
  <2>5. ~room => t.open = <<>>
    BY FlushKeeps
  <2>6. Together(u.open) = Together(t.open) \cup b /\ Together(t.open) \in Bundles
    BY <2>3, <2>4, TogetherFacts
  <2>7. /\ Cardinality(Together(t.open)) \in Nat /\ Cardinality(b) \in Nat
        /\ Cardinality(Together(u.open)) <= Cardinality(Together(t.open)) + Cardinality(b)
        /\ Cardinality(Together(u.open)) \in Nat /\ Cardinality(modified(Together(u.open))) \in Nat
    <3>1. IsFiniteSet(Together(t.open)) /\ IsFiniteSet(b) /\ Together(t.open) \cap b \in Bundles
          /\ Together(t.open) \cup b \in Bundles
      BY <2>6, BundleFacts DEF Bundles
    <3>2. Cardinality(Together(t.open) \cup b)
            = Cardinality(Together(t.open)) + Cardinality(b) - Cardinality(Together(t.open) \cap b)
      BY <3>1, FS_Union
    <3>3. /\ Cardinality(Together(t.open)) \in Nat /\ Cardinality(b) \in Nat
          /\ Cardinality(Together(t.open) \cap b) \in Nat
      BY <2>6, <3>1, BundleFacts
    <3>4. Cardinality(Together(u.open)) \in Nat /\ Cardinality(modified(Together(u.open))) \in Nat
      BY <2>6, <3>1, BundleFacts
    <3>5. QED
      <4> HIDE DEF t, u, room
      <4> QED BY <2>6, <3>2, <3>3, <3>4
  <2>8. Cardinality(Together(t.open)) <= t.size
    BY <2>2 DEF PackedWell
  <2>9. ~oversized(Together(u.open))
    <3>1. CASE room
      <4>1. t = s /\ t.size + Cardinality(b) <= MaxActions
            /\ Cardinality(modified(Together(u.open))) <= MaxObjects
        BY <2>6, <3>1
      <4>2. Cardinality(Together(u.open)) <= MaxActions
        <5> HIDE DEF t, u, room
        <5> QED BY <2>3, <2>7, <2>8, <4>1, BatchingAssumption
      <4>3. QED
        <5> HIDE DEF t, u, room
        <5> QED BY <2>7, <4>1, <4>2, BatchingAssumption DEF oversized
    <3>2. CASE ~room
      <4>1. Together(u.open) = b
        <5>1. t.open = <<>> /\ Together(<<>>) = {}
          BY <2>3, <2>5, <3>2, TogetherFacts
        <5> HIDE DEF t, u, room
        <5>2. QED
          BY <2>6, <5>1
      <4>2. QED
        BY <1>3, <4>1
    <3>3. QED
      BY <3>1, <3>2
  <2>10. FlattenSeq(u.done) \o u.open = Append(pre, b)
    <3> HIDE DEF t, u, room
    <3>1. FlattenSeq(t.done) \in Seq(Bundles) /\ FlattenSeq(t.done) \o t.open = pre
      BY <2>2, <2>3, FlattenAppend DEF PackedWell
    <3>2. \A q \in Seq(Bundles) : Append(q, b) = q \o <<b>>
      BY AppendIsConcat
    <3>3. (FlattenSeq(t.done) \o t.open) \o <<b>> = FlattenSeq(t.done) \o (t.open \o <<b>>)
      <4>1. <<b>> \in Seq(Bundles)
        OBVIOUS
      <4>2. \A p, q, r \in Seq(Bundles) : (p \o q) \o r = p \o (q \o r)
        BY ConcatAssociative
      <4>3. QED
        BY <2>3, <3>1, <4>1, <4>2, Zenon
    <3>4. QED
      BY <2>3, <2>4, <3>1, <3>2, <3>3
  <2>11. Cardinality(Together(u.open)) <= u.size
    <3> HIDE DEF t, u, room
    <3> QED BY <2>3, <2>4, <2>7, <2>8
  <2>12. \A j \in DOMAIN u.done : u.done[j] # <<>> /\ ~oversized(Together(u.done[j]))
    <3> HIDE DEF t, u, room
    <3> QED BY <2>2, <2>4 DEF PackedWell
  <2>13. PackedWell(u, Append(pre, b))
    <3> HIDE DEF t, u, room
    <3> QED BY <2>9, <2>10, <2>11, <2>12 DEF PackedWell
  <2>14. QED
    <3> HIDE DEF t, u, room
    <3> QED BY <1>3, <2>1, <2>13
<1>4. QED
  BY <1>1, <1>2, <1>3

\* The packable bundles of a list, as a fold over it.
LEMMA PackableTurns ==
  ASSUME NEW list \in Seq(Bundles)
  PROVE  \E upto \in [0..Len(list) -> Seq(Bundles)] :
           /\ upto[0] = <<>>
           /\ \A i \in 1..Len(list) :
                upto[i] = IF list[i] = {} \/ oversized(list[i]) THEN upto[i - 1]
                          ELSE Append(upto[i - 1], list[i])
           /\ Packable(list) = upto[Len(list)]
<1> DEFINE N == Len(list)
           More(i, p) == IF list[i] = {} \/ oversized(list[i]) THEN p ELSE Append(p, list[i])
           Def(h) == [i \in 0..N |-> IF i = 0 THEN <<>> ELSE More(i, h[i - 1])]
           G == [i \in 1..N |-> [p \in Seq(Bundles) |-> More(i, p)]]
<1>1. N \in Nat /\ \A i \in 1..N : list[i] \in Bundles
  BY LenProperties, ElementOfSeq
<1>20. \A i \in 1..N : \A p \in Seq(Bundles) : More(i, p) \in Seq(Bundles)
  BY <1>1, AppendProperties
<1>21. Packable(list) = (CHOOSE h : h = Def(h))[N]
  BY DEF Packable
<1> HIDE DEF More
<1>2. <<>> \in Seq(Bundles) /\ G \in [1..N -> [Seq(Bundles) -> Seq(Bundles)]]
  BY <1>20, EmptySeq
<1>3. PICK f \in [0..N -> Seq(Bundles)] : f[0] = <<>> /\ \A i \in 1..N : f[i] = G[i][f[i - 1]]
  <2> HIDE DEF G, N
  <2>1. HasFold(Seq(Bundles), <<>>, N, G)
    BY <1>1, <1>2, Folded
  <2>2. QED
    BY <2>1, Zenon DEF HasFold
<1>4. \A i \in 1..N : i - 1 \in 0..N /\ i \in 0..N /\ i # 0
  BY <1>1
<1>5. \A i \in 1..N : f[i] = More(i, f[i - 1])
  <2>1. TAKE i \in 1..N
  <2>2. f[i - 1] \in Seq(Bundles)
    BY <1>4, <2>1
  <2>3. QED
    BY <1>3, <2>1, <2>2
<1>6. f = Def(f)
  <2>1. \A i \in 0..N : f[i] = IF i = 0 THEN <<>> ELSE More(i, f[i - 1])
    BY <1>1, <1>3, <1>5
  <2>2. QED
    BY <2>1
<1> DEFINE F == CHOOSE h : h = Def(h)
<1>7. F = Def(F)
  <2> HIDE DEF Def
  <2> QED BY <1>6
<1>8. Packable(list) = F[N]
  BY <1>21
<1>9. F[0] = <<>> /\ \A i \in 1..N : F[i] = More(i, F[i - 1])
  <2>1. \A i \in 0..N : F[i] = IF i = 0 THEN <<>> ELSE More(i, F[i - 1])
    <3> HIDE DEF F
    <3> QED BY <1>7
  <2>2. 0 \in 0..N
    BY <1>1
  <2> HIDE DEF F
  <2>3. QED
    BY <1>4, <2>1, <2>2
<1>10. F \in [0..N -> Seq(Bundles)]
  <2> DEFINE Fine == {i \in Nat : i <= N => F[i] \in Seq(Bundles)}
  <2> HIDE DEF F, N
  <2>1. 0 \in Fine
    BY <1>2, <1>9
  <2>2. ASSUME NEW n \in Nat, n \in Fine PROVE n + 1 \in Fine
    <3>1. SUFFICES ASSUME n + 1 <= N PROVE F[n + 1] \in Seq(Bundles)
      OBVIOUS
    <3>2. n + 1 \in 1..N /\ F[n] \in Seq(Bundles) /\ (n + 1) - 1 = n /\ list[n + 1] \in Bundles
      BY <1>1, <2>2, <3>1
    <3>3. F[n + 1] = More(n + 1, F[n]) /\ More(n + 1, F[n]) \in Seq(Bundles)
      BY <1>9, <1>20, <3>2
    <3>4. QED
      BY <3>3
  <2>3. Nat \subseteq Fine
    <3> HIDE DEF Fine
    <3> QED BY <2>1, <2>2, NatSteps
  <2>4. \A i \in 0..N : F[i] \in Seq(Bundles)
    BY <1>1, <2>3
  <2>5. QED
    BY <1>7, <2>4 DEF N
<1>11. QED
  <2> HIDE DEF F, Def
  <2>1. \A i \in 1..N : F[i] = IF list[i] = {} \/ oversized(list[i]) THEN F[i - 1]
                                ELSE Append(F[i - 1], list[i])
    BY <1>9 DEF More
  <2>2. QED
    BY <1>8, <1>9, <1>10, <2>1

(* The batches hold the packable bundles in order, each within both caps. *)
LEMMA SchedulePacks ==
  ASSUME NEW list \in Seq(Bundles)
  PROVE  /\ schedule(list) \in Seq(Seq(Bundles))
         /\ FlattenSeq(schedule(list)) = Packable(list)
         /\ \A i \in DOMAIN schedule(list) :
              schedule(list)[i] # <<>> /\ ~oversized(Together(schedule(list)[i]))
<1> DEFINE N == Len(list)
<1>1. N \in Nat /\ \A i \in 1..N : list[i] \in Bundles
  BY LenProperties, ElementOfSeq
<1>2. PICK turn \in [0..N -> PackType] :
        /\ turn[0] = NothingPacked
        /\ \A i \in 1..N : turn[i] = pack(turn[i - 1], list[i])
        /\ schedule(list) = flush(turn[N]).done
  BY ScheduleTurns
<1>3. PICK upto \in [0..N -> Seq(Bundles)] :
        /\ upto[0] = <<>>
        /\ \A i \in 1..N : upto[i] = IF list[i] = {} \/ oversized(list[i]) THEN upto[i - 1]
                                      ELSE Append(upto[i - 1], list[i])
        /\ Packable(list) = upto[N]
  BY PackableTurns
<1> HIDE DEF N
<1> DEFINE Well == {n \in Nat : n <= N => PackedWell(turn[n], upto[n])}
<1>4. 0 \in Well
  BY <1>1, <1>2, <1>3, NothingIsPackedWell
<1>5. ASSUME NEW n \in Nat, n \in Well PROVE n + 1 \in Well
  <2>1. SUFFICES ASSUME n + 1 <= N PROVE PackedWell(turn[n + 1], upto[n + 1])
    OBVIOUS
  <2>2. /\ n + 1 \in 1..N /\ n \in 0..N /\ (n + 1) - 1 = n /\ list[n + 1] \in Bundles
        /\ PackedWell(turn[n], upto[n])
    BY <1>1, <1>5, <2>1
  <2>3. turn[n] \in PackType /\ upto[n] \in Seq(Bundles)
    BY <1>2, <1>3, <2>2
  <2>4. /\ turn[n + 1] = pack(turn[n], list[n + 1])
        /\ upto[n + 1] = IF list[n + 1] = {} \/ oversized(list[n + 1]) THEN upto[n]
                         ELSE Append(upto[n], list[n + 1])
    BY <1>2, <1>3, <2>2
  <2>5. QED
    BY <2>2, <2>3, <2>4, PackKeeps
<1>6. Nat \subseteq Well
  <2> HIDE DEF Well
  <2> QED BY <1>4, <1>5, NatSteps
<1>7. PackedWell(turn[N], upto[N]) /\ turn[N] \in PackType
  BY <1>1, <1>2, <1>6
<1>8. /\ PackedWell(flush(turn[N]), upto[N]) /\ flush(turn[N]) \in PackType
      /\ FlattenSeq(flush(turn[N]).done) = upto[N]
  BY <1>7, FlushKeeps
<1>9. QED
  BY <1>2, <1>3, <1>8 DEF PackedWell, PackType

-----------------------------------------------------------------------------
(* Failure attribution. *)

Increasing(s) == \A i, j \in DOMAIN s : i < j => s[i] < s[j]

\* Every finite set of numbers can be listed in increasing order.
LEMMA Enumerated ==
  ASSUME NEW S \in SUBSET Nat, IsFiniteSet(S)
  PROVE  \E s \in [1..Cardinality(S) -> S] : Increasing(s)
<1> DEFINE Listed == {n \in Nat : \A T \in SUBSET Nat : IsFiniteSet(T) /\ Cardinality(T) = n =>
                                     \E s \in [1..n -> T] : Increasing(s)}
<1>1. 0 \in Listed
  <2>1. \A T : [i \in 1..0 |-> 0] \in [1..0 -> T] /\ Increasing([i \in 1..0 |-> 0])
    BY DEF Increasing
  <2>2. QED
    BY <2>1
<1>2. ASSUME NEW n \in Nat, n \in Listed PROVE n + 1 \in Listed
  <2>1. SUFFICES ASSUME NEW T \in SUBSET Nat, IsFiniteSet(T), Cardinality(T) = n + 1
                 PROVE  \E s \in [1..(n + 1) -> T] : Increasing(s)
    OBVIOUS
  <2>2. T # {}
    BY <2>1, FS_EmptySet
  <2>3. PICK m \in T : \A x \in T : m <= x
    BY <2>1, <2>2, LeastElement
  <2> DEFINE U == T \ {m}
  <2>4. U \in SUBSET Nat /\ IsFiniteSet(U) /\ Cardinality(U) = n /\ \A x \in U : m < x
    <3>1. IsFiniteSet(U) /\ Cardinality(U) = Cardinality(T) - 1
      BY <2>1, <2>3, FS_RemoveElement
    <3>2. QED
      BY <2>1, <2>3, <3>1
  <2>5. PICK u \in [1..n -> U] : Increasing(u)
    <3> HIDE DEF U
    <3> QED BY <1>2, <2>4
  <2> DEFINE s == [i \in 1..(n + 1) |-> IF i = 1 THEN m ELSE u[i - 1]]
  <2>6. \A i \in 1..(n + 1) : i # 1 => i - 1 \in 1..n
    OBVIOUS
  <2>7. \A i \in 1..(n + 1) : s[i] \in T
    BY <2>3, <2>5, <2>6
  <2>8. Increasing(s)
    <3>1. SUFFICES ASSUME NEW i \in 1..(n + 1), NEW j \in 1..(n + 1), i < j PROVE s[i] < s[j]
      BY DEF Increasing
    <3>2. j # 1 /\ j - 1 \in 1..n
      BY <3>1
    <3>3. s[j] = u[j - 1] /\ u[j - 1] \in U
      BY <2>5, <3>2
    <3>4. CASE i = 1
      BY <2>4, <3>3, <3>4
    <3>5. CASE i # 1
      <4>1. i - 1 \in 1..n /\ i - 1 < j - 1
        BY <3>1, <3>5
      <4>2. s[i] = u[i - 1]
        BY <3>5
      <4>3. u[i - 1] < u[j - 1]
        BY <2>5, <3>2, <4>1 DEF Increasing
      <4>4. QED
        BY <3>3, <4>2, <4>3
    <3>6. QED
      BY <3>4, <3>5
  <2>9. QED
    <3>1. s \in [1..(n + 1) -> T]
      BY <2>7
    <3> HIDE DEF s
    <3>2. QED
      BY <2>8, <3>1
<1>3. Nat \subseteq Listed
  <2> HIDE DEF Listed
  <2> QED BY <1>1, <1>2, NatSteps
<1>4. Cardinality(S) \in Nat
  BY FS_CardinalityType
<1>5. QED
  BY <1>3, <1>4

\* The candidates of the first batch, as the attributor lists them.
LEMMA CandidateIds ==
  ASSUME NEW B \in Seq(Seq(Bundles)), B # <<>>, batches = B
  PROVE  candidate_ids \in Seq(Nat)
<1> DEFINE S == Together(batches[1])
<1>1. batches[1] \in Seq(Bundles)
  <2>1. Len(B) \in Nat /\ Len(B) # 0
    BY EmptySeq, LenProperties
  <2>2. 1 \in 1..Len(B)
    BY <2>1
  <2>3. QED
    BY <2>2, ElementOfSeq
<1>2. S \in Bundles
  BY <1>1, TogetherFacts DEF Bundles
<1>3. S \in SUBSET Nat /\ IsFiniteSet(S) /\ Cardinality(S) \in Nat
  BY <1>2, BundleFacts, BatchingAssumption DEF Bundles
<1> HIDE DEF S
<1>4. \E s \in [1..Cardinality(S) -> S] : Increasing(s)
  BY <1>3, Enumerated
<1>5. candidate_ids = CHOOSE s \in [1..Cardinality(S) -> S] : Increasing(s)
  BY Zenon DEF candidate_ids, Increasing, S
<1>6. candidate_ids \in [1..Cardinality(S) -> S]
  BY <1>4, <1>5, Zenon
<1>7. candidate_ids \in [1..Cardinality(S) -> Nat]
  BY <1>3, <1>6
<1>8. QED
  BY <1>3, <1>7

\* Either half of a list of more than one candidate is shorter than the list.
LEMMA HalfFacts ==
  ASSUME NEW s \in Seq(Nat), Len(s) > 1, NEW h \in {1, 2}
  PROVE  LET mid == Len(s) \div 2
             halves == <<SubSeq(s, 1, mid), SubSeq(s, mid + 1, Len(s))>>
         IN  halves[h] \in Seq(Nat) /\ Len(halves[h]) < Len(s)
<1> DEFINE mid == Len(s) \div 2
<1>1. Len(s) \in Nat
  BY LenProperties
<1>2. mid \in Nat /\ mid >= 1 /\ mid < Len(s)
  BY <1>1
<1> HIDE DEF mid
<1>3. \A i \in 1..Len(s) : s[i] \in Nat
  BY ElementOfSeq
<1>4. SubSeq(s, 1, mid) \in Seq(Nat) /\ Len(SubSeq(s, 1, mid)) = mid
  <2>1. \A i \in 1..mid : s[i] \in Nat
    BY <1>1, <1>2, <1>3
  <2>2. QED
    BY <1>2, <2>1, SubSeqProperties
<1>5. SubSeq(s, mid + 1, Len(s)) \in Seq(Nat) /\ Len(SubSeq(s, mid + 1, Len(s))) = Len(s) - mid
  <2>1. \A i \in (mid + 1)..Len(s) : s[i] \in Nat
    BY <1>1, <1>2, <1>3
  <2>2. Len(s) \in Int /\ mid + 1 \in Int /\ mid + 1 <= Len(s)
    BY <1>1, <1>2
  <2>3. QED
    BY <1>1, <1>2, <2>1, <2>2, SubSeqProperties
<1> DEFINE halves == <<SubSeq(s, 1, mid), SubSeq(s, mid + 1, Len(s))>>
<1>6. halves[1] = SubSeq(s, 1, mid) /\ halves[2] = SubSeq(s, mid + 1, Len(s))
  OBVIOUS
<1> HIDE DEF halves
<1>7. halves[h] \in Seq(Nat) /\ Len(halves[h]) < Len(s)
  <2>1. mid < Len(s) /\ Len(s) - mid < Len(s)
    BY <1>1, <1>2
  <2>2. QED
    BY <1>4, <1>5, <1>6, <2>1
<1>8. QED
  BY <1>7, Zenon DEF mid, halves

\* Once a batch is there, what is being narrowed down stays its own.
BatchingTypeOK ==
  /\ bundles \in Seq(Bundles) /\ batches \in {<<>>, schedule(bundles)}
  /\ current \in Seq(Nat) /\ half \in 0..2 /\ replays \in Nat /\ replays <= MaxReplays

Narrowed ==
  /\ batches = <<>> => current = <<>> /\ attribution = Pending
  /\ current # <<>> => \/ current = candidate_ids
                       \/ Len(current) < Len(candidate_ids) /\ ToSet(current) \in reproducing

BatchingInv == BatchingTypeOK /\ Narrowed /\ BlameIsReplayed

\* The batch decides the candidates the attributor starts from.
LEMMA SameIds ==
  UNCHANGED batches => candidate_ids' = candidate_ids
BY DEF candidate_ids, Together, ToSet

\* The schedule is a function of the bundles.
LEMMA SameSchedule ==
  UNCHANGED bundles => schedule(bundles)' = schedule(bundles)
<1>1. PICK b : b = bundles
  OBVIOUS
<1>2. schedule(b)' = schedule(b)
  BY DEF schedule, pack, flush, NothingPacked, oversized, modified, Together, ToSet
<1>3. QED
  BY <1>1, <1>2

\* The batches are lists of lists of bundles.
LEMMA BatchesTyped ==
  ASSUME BatchingTypeOK
  PROVE  /\ batches \in Seq(Seq(Bundles))
         /\ batches # <<>> => candidate_ids \in Seq(Nat)
<1>1. bundles \in Seq(Bundles) /\ batches \in {<<>>, schedule(bundles)}
  BY DEF BatchingTypeOK
<1>2. batches \in Seq(Seq(Bundles))
  <2>1. schedule(bundles) \in Seq(Seq(Bundles)) /\ <<>> \in Seq(Seq(Bundles))
    BY <1>1, SchedulePacks, EmptySeq
  <2>2. QED
    BY <1>1, <2>1
<1>3. \A B \in Seq(Seq(Bundles)) : B # <<>> /\ batches = B => candidate_ids \in Seq(Nat)
  BY CandidateIds
<1>4. QED
  BY <1>2, <1>3

\* The scheduler starts with nothing executed and nothing blamed.
LEMMA BatchingInitHolds ==
  BatchingInit => BatchingInv
<1> SUFFICES ASSUME BatchingInit PROVE BatchingInv
  OBVIOUS
<1>1. bundles \in Seq(Bundles)
  BY BatchingAssumption DEF BatchingInit, Bundles
<1>2. current \in Seq(Nat)
  BY EmptySeq DEF BatchingInit
<1>3. BatchingTypeOK
  BY <1>1, <1>2, BatchingAssumption DEF BatchingInit, BatchingTypeOK
<1>4. Narrowed /\ BlameIsReplayed
  BY BatchingAssumption DEF BatchingInit, Narrowed, BlameIsReplayed
<1>5. QED
  BY <1>3, <1>4 DEF BatchingInv

\* Scheduling executes nothing.
LEMMA ScheduleHolds ==
  BatchingInv /\ Schedule => BatchingInv'
<1> SUFFICES ASSUME BatchingInv, Schedule PROVE BatchingInv'
  OBVIOUS
<1>1. /\ batches = <<>> /\ batches' = schedule(bundles) /\ current = <<>> /\ attribution = Pending
      /\ UNCHANGED <<bundles, current, half, replays, reproducing, attribution>>
  BY DEF Schedule, BatchingInv, Narrowed
<1>2. BatchingTypeOK'
  BY <1>1, SameSchedule DEF BatchingInv, BatchingTypeOK
<1>3. Narrowed'
  BY <1>1 DEF Narrowed
<1>4. BlameIsReplayed'
  BY <1>1 DEF BatchingInv, BlameIsReplayed, Pending
<1>5. QED
  BY <1>2, <1>3, <1>4 DEF BatchingInv

\* The attributor starts from every candidate of the batch.
LEMMA AttributeHolds ==
  BatchingInv /\ Attribute => BatchingInv'
<1> SUFFICES ASSUME BatchingInv, Attribute PROVE BatchingInv'
  OBVIOUS
<1>1. /\ batches # <<>> /\ current' = candidate_ids /\ half' = 1
      /\ UNCHANGED <<bundles, batches, replays, reproducing, attribution>>
  BY DEF Attribute
<1>2. candidate_ids \in Seq(Nat) /\ candidate_ids' = candidate_ids
  BY <1>1, BatchesTyped, SameIds DEF BatchingInv
<1>3. BatchingTypeOK'
  BY <1>1, <1>2, SameSchedule DEF BatchingInv, BatchingTypeOK
<1>4. Narrowed'
  BY <1>1, <1>2 DEF Narrowed
<1>5. BlameIsReplayed'
  BY <1>1, <1>2 DEF BatchingInv, BlameIsReplayed
<1>6. QED
  BY <1>3, <1>4, <1>5 DEF BatchingInv

\* A replay that fails narrows the candidates to what it replayed.
LEMMA ReplayHolds ==
  BatchingInv /\ Replay => BatchingInv'
<1> SUFFICES ASSUME BatchingInv, Replay PROVE BatchingInv'
  OBVIOUS
<1>1. /\ attribution = Pending /\ half \in {1, 2} /\ Len(current) > 1 /\ replays < MaxReplays
      /\ current \in Seq(Nat) /\ replays \in Nat /\ replays' = replays + 1
      /\ UNCHANGED <<bundles, batches, attribution>>
  BY DEF Replay, narrowing, BatchingInv, BatchingTypeOK
<1>2. current # <<>> /\ batches # <<>>
  BY <1>1 DEF BatchingInv, Narrowed
<1>3. candidate_ids \in Seq(Nat) /\ candidate_ids' = candidate_ids
  BY <1>1, <1>2, BatchesTyped, SameIds DEF BatchingInv
<1>4. Halves[half] \in Seq(Nat) /\ Len(Halves[half]) < Len(current)
  BY <1>1, HalfFacts DEF Halves
<1>5. Len(current) <= Len(candidate_ids)
  <2>1. Len(current) \in Nat /\ Len(candidate_ids) \in Nat
    BY <1>1, <1>3, LenProperties
  <2>2. QED
    BY <1>2, <2>1 DEF BatchingInv, Narrowed
<1>6. replays' \in Nat /\ replays' <= MaxReplays
  BY <1>1, BatchingAssumption
<1>7. BlameIsReplayed'
  BY <1>1, <1>6 DEF BlameIsReplayed
<1>8. CASE /\ current' = Halves[half] /\ half' = 1
           /\ reproducing' = reproducing \cup {ToSet(Halves[half])}
  <2>1. BatchingTypeOK'
    BY <1>1, <1>4, <1>6, <1>8, SameSchedule DEF BatchingInv, BatchingTypeOK
  <2>2. Len(current') < Len(candidate_ids)
    <3>1. Len(Halves[half]) \in Nat /\ Len(current) \in Nat /\ Len(candidate_ids) \in Nat
      BY <1>1, <1>3, <1>4, LenProperties
    <3>2. QED
      BY <1>4, <1>5, <1>8, <3>1
  <2>3. ToSet(current)' \in reproducing'
    BY <1>8 DEF ToSet
  <2>4. Narrowed'
    BY <1>1, <1>2, <1>3, <2>2, <2>3 DEF Narrowed
  <2>5. QED
    BY <1>7, <2>1, <2>4 DEF BatchingInv
<1>9. CASE half' = (IF half = 1 /\ replays' < MaxReplays THEN 2 ELSE 0) /\ UNCHANGED <<current, reproducing>>
  <2>1. BatchingTypeOK'
    BY <1>1, <1>6, <1>9, SameSchedule DEF BatchingInv, BatchingTypeOK
  <2>2. Narrowed'
    BY <1>1, <1>2, <1>3, <1>9 DEF BatchingInv, Narrowed, ToSet
  <2>3. QED
    BY <1>7, <2>1, <2>2 DEF BatchingInv
<1>10. QED
  BY <1>8, <1>9 DEF Replay

\* The conclusion blames what was replayed, or the one candidate of the batch.
LEMMA ConcludeHolds ==
  BatchingInv /\ Conclude => BatchingInv'
<1> SUFFICES ASSUME BatchingInv, Conclude PROVE BatchingInv'
  OBVIOUS
<1> DEFINE narrowed == Len(current) < Len(candidate_ids)
<1>1. /\ current # <<>> /\ current \in Seq(Nat)
      /\ attribution'.reproduced = IF narrowed THEN ToSet(current) ELSE {}
      /\ attribution'.causal = (Len(current) = 1)
      /\ UNCHANGED <<bundles, batches, current, half, replays, reproducing>>
  BY DEF Conclude, BatchingInv, BatchingTypeOK
<1>2. batches # <<>>
  BY <1>1 DEF BatchingInv, Narrowed
<1>3. candidate_ids' = candidate_ids
  BY <1>1, SameIds
<1>4. BatchingTypeOK'
  BY <1>1, SameSchedule DEF BatchingInv, BatchingTypeOK
<1>5. Narrowed'
  BY <1>1, <1>2, <1>3 DEF BatchingInv, Narrowed, ToSet
<1>6. narrowed => ToSet(current) \in reproducing
  <2>1. SUFFICES ASSUME narrowed, current = candidate_ids PROVE FALSE
    BY <1>1 DEF BatchingInv, Narrowed
  <2>2. Len(current) \in Nat /\ Len(current) < Len(current)
    BY <1>1, <2>1, LenProperties
  <2>3. QED
    BY <2>2
<1>7. ~narrowed => current = candidate_ids
  BY <1>1 DEF BatchingInv, Narrowed
<1>8. Len(current) = 1 => Cardinality(ToSet(current)) = 1
  <2>1. SUFFICES ASSUME Len(current) = 1 PROVE Cardinality(ToSet(current)) = 1
    OBVIOUS
  <2>2. DOMAIN current = 1..1
    BY <1>1, <2>1, LenProperties
  <2>3. ToSet(current) = {current[1]}
    BY <2>2 DEF ToSet
  <2>4. QED
    BY <2>3, FS_Singleton
<1>9. BlameIsReplayed'
  <2>1. replays' <= MaxReplays
    BY <1>1 DEF BatchingInv, BatchingTypeOK
  <2>2. attribution'.reproduced \in reproducing' \cup {{}}
    BY <1>1, <1>6
  <2>3. attribution'.causal => \/ Len(candidate_ids') = 1
                              \/ /\ attribution'.reproduced \in reproducing'
                                 /\ Cardinality(attribution'.reproduced) = 1
    BY <1>1, <1>3, <1>6, <1>7, <1>8
  <2>4. QED
    BY <2>1, <2>2, <2>3 DEF BlameIsReplayed
<1>10. QED
  BY <1>4, <1>5, <1>9 DEF BatchingInv

(* The attributor narrows down the candidates of one batch, and whatever it has
   narrowed them to was replayed and failed.                                  *)
THEOREM BatchingInvariant == BatchingSpec => []BatchingInv
<1>1. BatchingInv /\ [BatchingNext]_batchingVars => BatchingInv'
  <2>1. CASE BatchingNext
    BY <2>1, ScheduleHolds, AttributeHolds, ReplayHolds, ConcludeHolds DEF BatchingNext
  <2>2. CASE UNCHANGED batchingVars
    BY <2>2, SameIds, SameSchedule DEF batchingVars, BatchingInv, BatchingTypeOK, Narrowed, BlameIsReplayed, ToSet
  <2>3. QED
    BY <2>1, <2>2
<1>2. QED
  BY <1>1, BatchingInitHolds, PTL DEF BatchingSpec

(* BatchScheduler.schedule cuts the packable bundles into batches within both
   caps, in order and whole; the attributor blames what it replayed.          *)
THEOREM BatchesAndBlameHold == BatchingSpec => []BatchesAndBlame
<1>1. BatchingInv => BatchesAndBlame
  <2>1. SUFFICES ASSUME BatchingInv PROVE BatchesAndBlame
    OBVIOUS
  <2>2. BatchesNeverSplit
    <3>1. SUFFICES ASSUME batches # <<>>
                   PROVE  /\ FlattenSeq(batches) = Packable(bundles)
                          /\ \A i \in DOMAIN batches : batches[i] # <<>> /\ ~oversized(Together(batches[i]))
      BY DEF BatchesNeverSplit
    <3>2. bundles \in Seq(Bundles) /\ batches = schedule(bundles)
      BY <2>1, <3>1 DEF BatchingInv, BatchingTypeOK
    <3>3. QED
      BY <3>2, SchedulePacks
  <2>3. QED
    BY <2>1, <2>2 DEF BatchingInv, BatchesAndBlame
<1>2. QED
  BY <1>1, BatchingInvariant, PTL

-----------------------------------------------------------------------------
(* Products of integers. *)

LEMMA Products ==
  /\ \A x, y \in Int : x * y \in Int /\ x * y = y * x /\ (-x) * y = -(x * y)
  /\ \A x, y, z \in Int : /\ x * (y + z) = x * y + x * z /\ x * (y - z) = x * y - x * z
                          /\ (x + y) * z = x * z + y * z /\ (x - y) * z = x * z - y * z
                          /\ (x * y) * z = x * (y * z)
<1>1. \A x, y \in Int : x * y \in Int
  OBVIOUS
<1>2. \A x, y \in Int : x * y = y * x
  OBVIOUS
<1>3. \A x, y \in Int : (-x) * y = -(x * y)
  OBVIOUS
<1>4. \A x, y, z \in Int : x * (y + z) = x * y + x * z
  OBVIOUS
<1>5. \A x, y, z \in Int : x * (y - z) = x * y - x * z
  OBVIOUS
<1>6. \A x, y, z \in Int : (x + y) * z = x * z + y * z
  OBVIOUS
<1>7. \A x, y, z \in Int : (x - y) * z = x * z - y * z
  OBVIOUS
<1>8. \A x, y, z \in Int : (x * y) * z = x * (y * z)
  OBVIOUS
<1> QED
  BY <1>1, <1>2, <1>3, <1>4, <1>5, <1>6, <1>7, <1>8

LEMMA Signs ==
  /\ \A x, y \in Int : x >= 0 /\ y >= 0 => x * y >= 0
  /\ \A x, y \in Int : x > 0 /\ y > 0 => x * y > 0
  /\ \A x, y \in Int : x >= 0 /\ y <= 0 => x * y <= 0
  /\ \A x, y \in Int : x > 0 /\ y < 0 => x * y < 0
  /\ \A x \in Int : x * x >= 0 /\ (x # 0 => x * x > 0)
  /\ \A x, y \in Int : x * y = 0 => x = 0 \/ y = 0
<1>1. \A x, y \in Int : x >= 0 /\ y >= 0 => x * y >= 0
  OBVIOUS
<1>2. \A x, y \in Int : x > 0 /\ y > 0 => x * y > 0
  OBVIOUS
<1>3. \A x, y \in Int : x >= 0 /\ y <= 0 => x * y <= 0
  OBVIOUS
<1>4. \A x, y \in Int : x > 0 /\ y < 0 => x * y < 0
  OBVIOUS
<1>5. \A x \in Int : x * x >= 0 /\ (x # 0 => x * x > 0)
  OBVIOUS
<1>6. \A x, y \in Int : x * y = 0 => x = 0 \/ y = 0
  OBVIOUS
<1> QED
  BY <1>1, <1>2, <1>3, <1>4, <1>5, <1>6

\* How far c lies to one side of the line from a to b.
LEMMA Turn ==
  ASSUME NEW a1 \in Int, NEW a2 \in Int, NEW b1 \in Int, NEW b2 \in Int, NEW c1 \in Int, NEW c2 \in Int
  PROVE  (b2 - a2) * (c1 - b1) - (b1 - a1) * (c2 - b2) = (c1 - a1) * (b2 - a2) - (b1 - a1) * (c2 - a2)
OBVIOUS

\* The product of the differences of sums.
LEMMA Crossings ==
  ASSUME NEW s1 \in Int, NEW s2 \in Int, NEW u1 \in Int, NEW u2 \in Int, NEW w1 \in Int, NEW w2 \in Int
  PROVE  /\ (s1 + w1) * u2 - u1 * (s2 + w2) = (s1 * u2 - u1 * s2) - (u1 * w2 - w1 * u2)
         /\ (u1 - s1) * w2 - w1 * (u2 - s2) = (u1 * w2 - w1 * u2) - (s1 * w2 - w1 * s2)
         /\ (-s1) * w2 - w1 * (-s2) = 0 - (s1 * w2 - w1 * s2)
OBVIOUS

\* A vector along u, in proportion: its part along u decides where it ends.
LEMMA Along ==
  ASSUME NEW s1 \in Int, NEW s2 \in Int, NEW u1 \in Int, NEW u2 \in Int, s1 * u2 = u1 * s2
  PROVE  /\ s1 * (u1 * u1 + u2 * u2) = (s1 * u1 + s2 * u2) * u1
         /\ s2 * (u1 * u1 + u2 * u2) = (s1 * u1 + s2 * u2) * u2
OBVIOUS

\* Vectors in proportion to one that is not null are in proportion to each other.
LEMMA Parallel ==
  ASSUME NEW s1 \in Int, NEW s2 \in Int, NEW u1 \in Int, NEW u2 \in Int, NEW w1 \in Int, NEW w2 \in Int,
         s1 * u2 = u1 * s2, w1 * u2 = u1 * w2
  PROVE  (s1 * w2 - w1 * s2) * u1 = 0 /\ (s1 * w2 - w1 * s2) * u2 = 0
OBVIOUS

LEMMA Proportion ==
  ASSUME NEW s \in Int, NEW k \in Int, NEW U \in Int, NEW x \in Int, U > 0, s * U = k * x, 0 <= k, k <= U
  PROVE  (0 <= s /\ s <= x) \/ (x <= s /\ s <= 0)
<1>1. (U - k) * x = (x - s) * U /\ U - k \in Int /\ x - s \in Int
  BY Products
<1>2. s < 0 => s * U < 0
  BY Signs, Products
<1>3. s > 0 => s * U > 0
  BY Signs
<1>4. x - s < 0 => (x - s) * U < 0
  BY <1>1, Signs, Products
<1>5. x - s > 0 => (x - s) * U > 0
  BY <1>1, Signs
<1>6. CASE x >= 0
  <2>1. k * x >= 0 /\ (U - k) * x >= 0
    BY <1>1, <1>6, Signs
  <2> QED
    BY <1>1, <1>2, <1>4, <2>1
<1>7. CASE x <= 0
  <2>1. k * x <= 0 /\ (U - k) * x <= 0
    BY <1>1, <1>7, Signs
  <2> QED
    BY <1>1, <1>3, <1>5, <2>1
<1> QED
  BY <1>6, <1>7

LEMMA Straddle ==
  ASSUME NEW s \in Int, NEW e \in Int, NEW k \in Int, NEW m \in Int, NEW U \in Int, NEW x \in Int, U > 0,
         s * U = k * x, e * U = m * x, k <= 0, 0 <= m
  PROVE  (s <= 0 /\ 0 <= e) \/ (e <= 0 /\ 0 <= s)
<1>1. \A y \in Int : (y < 0 => y * U < 0) /\ (y > 0 => y * U > 0)
  BY Signs, Products
<1>2. CASE x >= 0
  <2>1. k * x <= 0 /\ m * x >= 0
    BY <1>2, Signs, Products
  <2> QED
    BY <1>1, <2>1
<1>3. CASE x <= 0
  <2>1. k * x >= 0 /\ m * x <= 0
    <3>1. (-k) * x <= 0 /\ -k \in Int /\ (-k) * x = -(k * x)
      BY <1>3, Signs, Products
    <3>2. m * x <= 0 /\ k * x \in Int
      BY <1>3, Signs, Products
    <3> QED
      BY <3>1, <3>2
  <2> QED
    BY <1>1, <2>1
<1> QED
  BY <1>2, <1>3

-----------------------------------------------------------------------------
(* Points, boxes and segments. *)

Point == Int \X Int
Box == Int \X Int \X Int \X Int
LEMMA Points ==
  ASSUME NEW p \in Point
  PROVE  p = <<p[1], p[2]>> /\ p[1] \in Int /\ p[2] \in Int
BY DEF Point

MinMax(a, b) ==
  /\ Min({a, b}) = IF a <= b THEN a ELSE b
  /\ Max({a, b}) = IF a <= b THEN b ELSE a
LEMMA MinMaxTwo ==
  ASSUME NEW a \in Int, NEW b \in Int
  PROVE  MinMax(a, b)
<1>1. \E x \in {a, b} : \A y \in {a, b} : x <= y
  <2>1. a <= b \/ b <= a
    OBVIOUS
  <2> QED
    BY <2>1
<1>2. \E x \in {a, b} : \A y \in {a, b} : x >= y
  <2>1. a <= b \/ b <= a
    OBVIOUS
  <2> QED
    BY <2>1
<1>3. Min({a, b}) \in {a, b} /\ \A y \in {a, b} : Min({a, b}) <= y
  BY <1>1 DEF Min
<1>4. Max({a, b}) \in {a, b} /\ \A y \in {a, b} : Max({a, b}) >= y
  BY <1>2 DEF Max
<1> QED
  BY <1>3, <1>4 DEF MinMax

Between(a, b, c) == (a <= b /\ b <= c) \/ (c <= b /\ b <= a)
LEMMA OnSegments ==
  ASSUME NEW a \in Point, NEW b \in Point, NEW c \in Point, Between(a[1], b[1], c[1]), Between(a[2], b[2], c[2])
  PROVE  on_segment(a, b, c)
<1>1. /\ a[1] \in Int /\ a[2] \in Int /\ b[1] \in Int /\ b[2] \in Int /\ c[1] \in Int /\ c[2] \in Int
  BY Points
<1> DEFINE boxes == {<<p[1], p[2], p[1], p[2]>> : p \in ToSet(<<a, c>>)}
<1>2. ToSet(<<a, c>>) = {a, c}
  BY DEF ToSet
<1>3. boxes = {<<a[1], a[2], a[1], a[2]>>, <<c[1], c[2], c[1], c[2]>>}
  BY <1>2
<1>4. /\ {x[1] : x \in boxes} = {a[1], c[1]} /\ {x[2] : x \in boxes} = {a[2], c[2]}
      /\ {x[3] : x \in boxes} = {a[1], c[1]} /\ {x[4] : x \in boxes} = {a[2], c[2]}
  <2> DEFINE A == <<a[1], a[2], a[1], a[2]>>
             C == <<c[1], c[2], c[1], c[2]>>
  <2>1. /\ A[1] = a[1] /\ A[2] = a[2] /\ A[3] = a[1] /\ A[4] = a[2]
        /\ C[1] = c[1] /\ C[2] = c[2] /\ C[3] = c[1] /\ C[4] = c[2]
    OBVIOUS
  <2>2. boxes = {A, C}
    BY <1>3
  <2> HIDE DEF A, C, boxes
  <2>3. \A i \in {1, 2, 3, 4} : {x[i] : x \in boxes} = {A[i], C[i]}
    BY <2>2
  <2> QED
    BY <2>1, <2>3
<1> HIDE DEF boxes
<1>5. hull(boxes) = <<Min({a[1], c[1]}), Min({a[2], c[2]}), Max({a[1], c[1]}), Max({a[2], c[2]})>>
  BY <1>4 DEF hull
<1>6. MinMax(a[1], c[1]) /\ MinMax(a[2], c[2])
  BY <1>1, MinMaxTwo
<1>7. geometry_box(<<a, c>>) = hull(boxes)
  BY DEF geometry_box, boxes
<1> QED
  BY <1>1, <1>5, <1>6, <1>7 DEF on_segment, inside, Between, MinMax

\* The sign of an orientation.
Sign(n) == IF n = 0 THEN 0 ELSE IF n > 0 THEN 1 ELSE -1
Side(a, b, c) == (c[1] - a[1]) * (b[2] - a[2]) - (b[1] - a[1]) * (c[2] - a[2])
LEMMA Orientations ==
  ASSUME NEW a \in Point, NEW b \in Point, NEW c \in Point
  PROVE  orientation(a, b, c) = Sign(Side(a, b, c)) /\ Side(a, b, c) \in Int
<1>1. /\ a[1] \in Int /\ a[2] \in Int /\ b[1] \in Int /\ b[2] \in Int /\ c[1] \in Int /\ c[2] \in Int
  BY Points
<1>2. (b[2] - a[2]) * (c[1] - b[1]) - (b[1] - a[1]) * (c[2] - b[2]) = Side(a, b, c)
  BY <1>1, Turn DEF Side
<1>3. Side(a, b, c) \in Int
  <2>1. c[1] - a[1] \in Int /\ b[2] - a[2] \in Int /\ b[1] - a[1] \in Int /\ c[2] - a[2] \in Int
    BY <1>1
  <2>2. (c[1] - a[1]) * (b[2] - a[2]) \in Int /\ (b[1] - a[1]) * (c[2] - a[2]) \in Int
    BY <2>1, Products
  <2> QED
    BY <2>2 DEF Side
<1>4. orientation(a, b, c) = Sign((b[2] - a[2]) * (c[1] - b[1]) - (b[1] - a[1]) * (c[2] - b[2]))
  BY DEF orientation, Sign
<1> QED
  BY <1>2, <1>3, <1>4

\* A vector in proportion to u that ends within u, or two that end on either
\* side of where they start.
LEMMA Collinear ==
  ASSUME NEW s1 \in Int, NEW s2 \in Int, NEW u1 \in Int, NEW u2 \in Int, s1 * u2 = u1 * s2, u1 # 0 \/ u2 # 0
  PROVE  LET U == u1 * u1 + u2 * u2  k == s1 * u1 + s2 * u2 IN
         /\ U \in Int /\ k \in Int /\ U > 0 /\ s1 * U = k * u1 /\ s2 * U = k * u2
         /\ 0 <= k /\ k <= U => Between(0, s1, u1) /\ Between(0, s2, u2)
<1> DEFINE U == u1 * u1 + u2 * u2
           k == s1 * u1 + s2 * u2
<1>1. s1 * U = k * u1 /\ s2 * U = k * u2
  BY Along
<1>2. /\ u1 * u1 \in Int /\ u2 * u2 \in Int /\ u1 * u1 >= 0 /\ u2 * u2 >= 0
      /\ u1 # 0 => u1 * u1 > 0
      /\ u2 # 0 => u2 * u2 > 0
  BY Signs, Products
<1>3. U \in Int /\ U > 0
  BY <1>2
<1>4. k \in Int
  <2>1. s1 * u1 \in Int /\ s2 * u2 \in Int
    BY Products
  <2> QED
    BY <2>1
<1> HIDE DEF U, k
<1>5. ASSUME 0 <= k, k <= U PROVE Between(0, s1, u1) /\ Between(0, s2, u2)
  <2>1. (0 <= s1 /\ s1 <= u1) \/ (u1 <= s1 /\ s1 <= 0)
    BY <1>1, <1>3, <1>4, <1>5, Proportion
  <2>2. (0 <= s2 /\ s2 <= u2) \/ (u2 <= s2 /\ s2 <= 0)
    BY <1>1, <1>3, <1>4, <1>5, Proportion
  <2> QED
    BY <2>1, <2>2 DEF Between
<1>6. /\ U \in Int /\ k \in Int /\ U > 0 /\ s1 * U = k * u1 /\ s2 * U = k * u2
      /\ 0 <= k /\ k <= U => Between(0, s1, u1) /\ Between(0, s2, u2)
  BY <1>1, <1>3, <1>4, <1>5
<1> QED
  BY <1>6 DEF U, k

(* What the checker's orientation tests decide is whether two closed segments
   have a point in common: a common point makes them answer yes.              *)
LEMMA CommonPointsAreFound ==
  ASSUME NEW a \in Point, NEW b \in Point, NEW c \in Point, NEW d \in Point, a # b, Meet(a, b, c, d)
  PROVE  segments_intersect(a, b, c, d)
<1> DEFINE u1 == b[1] - a[1]
           u2 == b[2] - a[2]
           w1 == d[1] - c[1]
           w2 == d[2] - c[2]
           s1 == c[1] - a[1]
           s2 == c[2] - a[2]
           det == u1 * w2 - w1 * u2
           A == s1 * u2 - u1 * s2
           B == s1 * w2 - w1 * s2
           U == u1 * u1 + u2 * u2
           k == s1 * u1 + s2 * u2
           m == w1 * u1 + w2 * u2
<1>1. /\ a[1] \in Int /\ a[2] \in Int /\ b[1] \in Int /\ b[2] \in Int
      /\ c[1] \in Int /\ c[2] \in Int /\ d[1] \in Int /\ d[2] \in Int
  BY Points
<1>2. u1 \in Int /\ u2 \in Int /\ w1 \in Int /\ w2 \in Int /\ s1 \in Int /\ s2 \in Int
  BY <1>1
<1>3. u1 # 0 \/ u2 # 0
  <2>1. a = <<a[1], a[2]>> /\ b = <<b[1], b[2]>>
    BY Points
  <2>2. a[1] # b[1] \/ a[2] # b[2]
    BY <2>1
  <2> QED
    BY <1>1, <2>2
<1>4. IF det # 0 THEN /\ IF det > 0 THEN B \in 0..det ELSE B \in det..0
                      /\ IF det > 0 THEN A \in 0..det ELSE A \in det..0
      ELSE A = 0 /\ Max({0, Min({k, k + m})}) <= Min({U, Max({k, k + m})})
  BY DEF Meet, cross
<1>5. /\ d[1] - a[1] = s1 + w1 /\ d[2] - a[2] = s2 + w2 /\ a[1] - c[1] = -s1 /\ a[2] - c[2] = -s2
      /\ b[1] - c[1] = u1 - s1 /\ b[2] - c[2] = u2 - s2
  BY <1>1
<1>6. /\ Side(a, b, c) = A /\ Side(a, b, d) = (s1 + w1) * u2 - u1 * (s2 + w2)
      /\ Side(c, d, a) = (-s1) * w2 - w1 * (-s2) /\ Side(c, d, b) = (u1 - s1) * w2 - w1 * (u2 - s2)
  BY <1>5 DEF Side
<1> HIDE DEF u1, u2, w1, w2, s1, s2
<1>7. det \in Int /\ A \in Int /\ B \in Int
  <2>1. /\ u1 * w2 \in Int /\ w1 * u2 \in Int /\ s1 * u2 \in Int /\ u1 * s2 \in Int
        /\ s1 * w2 \in Int /\ w1 * s2 \in Int
    BY <1>2, Products
  <2> QED
    BY <2>1
<1>8. Side(a, b, d) = A - det /\ Side(c, d, a) = 0 - B /\ Side(c, d, b) = det - B
  BY <1>2, <1>6, Crossings
<1> HIDE DEF det, A, B, U, k, m
<1>9. /\ orientation(a, b, c) = Sign(A) /\ orientation(a, b, d) = Sign(A - det)
      /\ orientation(c, d, a) = Sign(0 - B) /\ orientation(c, d, b) = Sign(det - B)
  BY <1>6, <1>8, Orientations
<1>10. CASE det # 0
  <2>1. Sign(A) # Sign(A - det) /\ Sign(0 - B) # Sign(det - B)
    BY <1>4, <1>7, <1>10 DEF Sign
  <2> QED
    BY <1>9, <2>1 DEF segments_intersect, crossing
<1>11. CASE det = 0
  <2>1. A = 0 /\ Max({0, Min({k, k + m})}) <= Min({U, Max({k, k + m})})
    BY <1>4, <1>11
  <2>2. s1 * u2 = u1 * s2
    <3>1. s1 * u2 \in Int /\ u1 * s2 \in Int
      BY <1>2, Products
    <3> QED
      BY <2>1, <3>1 DEF A
  <2>3. w1 * u2 = u1 * w2
    <3>1. w1 * u2 \in Int /\ u1 * w2 \in Int
      BY <1>2, Products
    <3> QED
      BY <1>11, <3>1 DEF det
  <2>4. (s1 + w1) * u2 = u1 * (s2 + w2) /\ s1 + w1 \in Int /\ s2 + w2 \in Int
    <3>1. (s1 + w1) * u2 = s1 * u2 + w1 * u2 /\ u1 * (s2 + w2) = u1 * s2 + u1 * w2
      BY <1>2, Products
    <3> QED
      BY <1>2, <2>2, <2>3, <3>1
  <2>5. k + m = (s1 + w1) * u1 + (s2 + w2) * u2
    <3>1. (s1 + w1) * u1 = s1 * u1 + w1 * u1 /\ (s2 + w2) * u2 = s2 * u2 + w2 * u2
      BY <1>2, Products
    <3>2. s1 * u1 \in Int /\ w1 * u1 \in Int /\ s2 * u2 \in Int /\ w2 * u2 \in Int
      BY <1>2, Products
    <3> QED
      BY <3>1, <3>2 DEF k, m
  <2>6. /\ U \in Int /\ k \in Int /\ U > 0 /\ s1 * U = k * u1 /\ s2 * U = k * u2
        /\ 0 <= k /\ k <= U => Between(0, s1, u1) /\ Between(0, s2, u2)
    BY <1>2, <1>3, <2>2, Collinear DEF U, k
  <2>7. /\ k + m \in Int /\ (s1 + w1) * U = (k + m) * u1 /\ (s2 + w2) * U = (k + m) * u2
        /\ 0 <= k + m /\ k + m <= U => Between(0, s1 + w1, u1) /\ Between(0, s2 + w2, u2)
    <3> DEFINE n == (s1 + w1) * u1 + (s2 + w2) * u2
    <3>1. /\ n \in Int /\ (s1 + w1) * U = n * u1 /\ (s2 + w2) * U = n * u2
          /\ 0 <= n /\ n <= U => Between(0, s1 + w1, u1) /\ Between(0, s2 + w2, u2)
      BY <1>2, <1>3, <2>4, Collinear DEF U
    <3> QED
      BY <2>5, <3>1
  <2>8. Sign(0) = 0
    BY DEF Sign
  <2>9. CASE 0 <= k /\ k <= U
    <3>1. Between(a[1], c[1], b[1]) /\ Between(a[2], c[2], b[2])
      BY <1>1, <2>6, <2>9 DEF Between, s1, s2, u1, u2
    <3> QED
      BY <1>9, <2>1, <2>8, <3>1, OnSegments DEF segments_intersect
  <2>10. CASE 0 <= k + m /\ k + m <= U
    <3>1. Between(a[1], d[1], b[1]) /\ Between(a[2], d[2], b[2])
      BY <1>1, <2>7, <2>10 DEF Between, s1, s2, w1, w2, u1, u2
    <3>2. A - det = 0
      BY <1>11, <2>1
    <3> QED
      BY <1>9, <2>8, <3>1, <3>2, OnSegments DEF segments_intersect
  <2>11. CASE ~(0 <= k /\ k <= U) /\ ~(0 <= k + m /\ k + m <= U)
    <3>1. (k <= 0 /\ 0 <= k + m) \/ (k + m <= 0 /\ 0 <= k)
      <4> DEFINE e == k + m
      <4>1. MinMax(k, e) /\ k \in Int /\ e \in Int
        BY <2>6, <2>7, MinMaxTwo
      <4> HIDE DEF e
      <4>2. Min({k, e}) \in Int /\ Max({k, e}) \in Int
        BY <4>1 DEF MinMax
      <4>3. MinMax(0, Min({k, e})) /\ MinMax(U, Max({k, e}))
        BY <2>6, <4>2, MinMaxTwo
      <4>4. Max({0, Min({k, e})}) <= Min({U, Max({k, e})})
        BY <2>1 DEF e
      <4>5. ~(0 <= k /\ k <= U) /\ ~(0 <= e /\ e <= U)
        BY <2>11 DEF e
      <4>6. (k <= 0 /\ 0 <= e) \/ (e <= 0 /\ 0 <= k)
        BY <2>6, <4>1, <4>3, <4>4, <4>5 DEF MinMax
      <4> QED
        BY <4>6 DEF e
    <3> DEFINE e == k + m
               t1 == s1 + w1
               t2 == s2 + w2
    <3>2. /\ e \in Int /\ t1 \in Int /\ t2 \in Int /\ k \in Int /\ U \in Int /\ U > 0
          /\ s1 * U = k * u1 /\ s2 * U = k * u2 /\ t1 * U = e * u1 /\ t2 * U = e * u2
      BY <2>4, <2>6, <2>7
    <3>3. (k <= 0 /\ 0 <= e) \/ (e <= 0 /\ 0 <= k)
      BY <3>1
    <3> HIDE DEF e, t1, t2
    <3>4. /\ (s1 <= 0 /\ 0 <= t1) \/ (t1 <= 0 /\ 0 <= s1)
          /\ (s2 <= 0 /\ 0 <= t2) \/ (t2 <= 0 /\ 0 <= s2)
      <4>1. CASE k <= 0 /\ 0 <= e
        <5>1. (s1 <= 0 /\ 0 <= t1) \/ (t1 <= 0 /\ 0 <= s1)
          BY <1>2, <3>2, <4>1, Straddle
        <5>2. (s2 <= 0 /\ 0 <= t2) \/ (t2 <= 0 /\ 0 <= s2)
          BY <1>2, <3>2, <4>1, Straddle
        <5> QED
          BY <5>1, <5>2
      <4>2. CASE e <= 0 /\ 0 <= k
        <5>1. (t1 <= 0 /\ 0 <= s1) \/ (s1 <= 0 /\ 0 <= t1)
          BY <1>2, <3>2, <4>2, Straddle
        <5>2. (t2 <= 0 /\ 0 <= s2) \/ (s2 <= 0 /\ 0 <= t2)
          BY <1>2, <3>2, <4>2, Straddle
        <5> QED
          BY <5>1, <5>2
      <4> QED
        BY <3>3, <4>1, <4>2
    <3>5. (s1 <= 0 /\ 0 <= s1 + w1) \/ (s1 + w1 <= 0 /\ 0 <= s1)
      BY <3>4 DEF t1
    <3>6. (s2 <= 0 /\ 0 <= s2 + w2) \/ (s2 + w2 <= 0 /\ 0 <= s2)
      BY <3>4 DEF t2
    <3>7. Between(c[1], a[1], d[1]) /\ Between(c[2], a[2], d[2])
      BY <1>1, <3>5, <3>6 DEF Between, s1, s2, w1, w2
    <3>8. Sign(0 - B) = 0
      <4>1. B * u1 = 0 /\ B * u2 = 0
        BY <1>2, <2>2, <2>3, Parallel DEF B
      <4>2. B = 0
        BY <1>2, <1>3, <1>7, <4>1, Signs
      <4>3. 0 - B = 0
        BY <4>2
      <4> QED
        BY <2>8, <4>3
    <3> QED
      BY <1>9, <3>7, <3>8, OnSegments DEF segments_intersect
  <2> QED
    BY <2>9, <2>10, <2>11
<1> QED
  BY <1>10, <1>11

LEMMA Lagrange ==
  ASSUME NEW u1 \in Int, NEW u2 \in Int, NEW w1 \in Int, NEW w2 \in Int, u1 * w2 = w1 * u2
  PROVE  (u1 * u1 + u2 * u2) * (w1 * w1 + w2 * w2) = (u1 * w1 + u2 * w2) * (u1 * w1 + u2 * w2)
OBVIOUS

LEMMA Longer ==
  ASSUME NEW U \in Int, NEW W \in Int, NEW n \in Int, U > 0, n > U, U * W = n * n
  PROVE  n <= W
<1>1. SUFFICES ASSUME W < n PROVE FALSE
  OBVIOUS
<1>2. n * n - U * W = n * (n - U) + U * (n - W)
  OBVIOUS
<1>3. n - U \in Int /\ n - W \in Int /\ n - U > 0 /\ n - W > 0 /\ n > 0
  BY <1>1
<1>4. n * (n - U) > 0 /\ U * (n - W) > 0 /\ n * (n - U) \in Int /\ U * (n - W) \in Int
  BY <1>3, Signs, Products
<1>5. n * n \in Int /\ U * W \in Int
  BY Products
<1> QED
  BY <1>2, <1>4, <1>5

(* Where an edge folds back on the one before it, one ends on the other. *)
LEMMA FoldsBack ==
  ASSUME NEW p \in Point, NEW q \in Point, NEW r \in Point, p # q, q # r,
         (q[1] - p[1]) * (r[2] - q[2]) - (r[1] - q[1]) * (q[2] - p[2]) = 0,
         (q[1] - p[1]) * (r[1] - q[1]) + (q[2] - p[2]) * (r[2] - q[2]) <= 0
  PROVE  /\ Side(p, q, r) = 0 /\ Side(q, r, p) = 0
         /\ on_segment(p, r, q) \/ on_segment(q, p, r)
<1> DEFINE u1 == q[1] - p[1]
           u2 == q[2] - p[2]
           w1 == r[1] - q[1]
           w2 == r[2] - q[2]
           U == u1 * u1 + u2 * u2
           W == w1 * w1 + w2 * w2
           D == u1 * w1 + u2 * w2
           n == 0 - D
<1>1. /\ p[1] \in Int /\ p[2] \in Int /\ q[1] \in Int /\ q[2] \in Int /\ r[1] \in Int /\ r[2] \in Int
      /\ p = <<p[1], p[2]>> /\ q = <<q[1], q[2]>> /\ r = <<r[1], r[2]>>
  BY Points
<1>2. u1 \in Int /\ u2 \in Int /\ w1 \in Int /\ w2 \in Int /\ (u1 # 0 \/ u2 # 0) /\ (w1 # 0 \/ w2 # 0)
  <2>1. (p[1] # q[1] \/ p[2] # q[2]) /\ (q[1] # r[1] \/ q[2] # r[2])
    BY <1>1
  <2>2. u1 \in Int /\ u2 \in Int /\ w1 \in Int /\ w2 \in Int
    BY <1>1
  <2>3. /\ p[1] # q[1] => u1 # 0
        /\ p[2] # q[2] => u2 # 0
        /\ q[1] # r[1] => w1 # 0
        /\ q[2] # r[2] => w2 # 0
    <3>1. \A x, y \in Int : x # y => y - x # 0
      OBVIOUS
    <3> QED
      BY <1>1, <3>1
  <2> QED
    BY <2>1, <2>2, <2>3
<1>3. r[1] - p[1] = u1 + w1 /\ r[2] - p[2] = u2 + w2 /\ p[1] - q[1] = 0 - u1 /\ p[2] - q[2] = 0 - u2
  BY <1>1
<1>4. Side(p, q, r) = (u1 + w1) * u2 - u1 * (u2 + w2) /\ Side(q, r, p) = (0 - u1) * w2 - w1 * (0 - u2)
  BY <1>3 DEF Side
<1>5. u1 * w2 - w1 * u2 = 0 /\ D <= 0
  OBVIOUS
<1> HIDE DEF u1, u2, w1, w2
<1>6. /\ u1 * w2 \in Int /\ w1 * u2 \in Int /\ u1 * u2 \in Int /\ u1 * w1 \in Int /\ u2 * w2 \in Int
      /\ u1 * u1 \in Int /\ u2 * u2 \in Int /\ w1 * w1 \in Int /\ w2 * w2 \in Int
      /\ u2 * u1 = u1 * u2 /\ w1 * u1 = u1 * w1 /\ w2 * u2 = u2 * w2
  BY <1>2, Products
<1>7. u1 * w2 = w1 * u2
  BY <1>5, <1>6
<1>8. /\ (u1 + w1) * u2 = u1 * u2 + w1 * u2 /\ u1 * (u2 + w2) = u1 * u2 + u1 * w2
      /\ (0 - u1) * w2 = 0 - u1 * w2 /\ w1 * (0 - u2) = 0 - w1 * u2
      /\ (u1 + w1) * u1 = u1 * u1 + w1 * u1 /\ (u2 + w2) * u2 = u2 * u2 + w2 * u2
      /\ (0 - u1) * w1 = 0 - u1 * w1 /\ (0 - u2) * w2 = 0 - u2 * w2
  <2>1. 0 \in Int /\ \A x \in Int : 0 * x = 0 /\ x * 0 = 0
    OBVIOUS
  <2> QED
    BY <1>2, <2>1, Products
<1>9. Side(p, q, r) = 0 /\ Side(q, r, p) = 0
  BY <1>4, <1>6, <1>7, <1>8
<1>10. U \in Int /\ W \in Int /\ D \in Int /\ n \in Int
  BY <1>6
<1>11. (u1 + w1) * u1 + (u2 + w2) * u2 = U + D /\ (0 - u1) * w1 + (0 - u2) * w2 = n
  BY <1>6, <1>8
<1>12. U > 0 /\ (0 <= U + D /\ U + D <= U => Between(0, u1 + w1, u1) /\ Between(0, u2 + w2, u2))
  <2>1. u1 + w1 \in Int /\ u2 + w2 \in Int /\ (u1 + w1) * u2 = u1 * (u2 + w2)
    BY <1>2, <1>6, <1>7, <1>8
  <2> QED
    BY <1>2, <1>11, <2>1, Collinear
<1>13. 0 <= n /\ n <= W => Between(0, 0 - u1, w1) /\ Between(0, 0 - u2, w2)
  <2>1. 0 - u1 \in Int /\ 0 - u2 \in Int /\ (0 - u1) * w2 = w1 * (0 - u2)
    BY <1>2, <1>6, <1>7, <1>8
  <2> QED
    BY <1>2, <1>11, <2>1, Collinear
<1>14. U * W = n * n
  <2>1. U * W = D * D
    BY <1>2, <1>7, Lagrange
  <2> HIDE DEF U, W, D
  <2>2. n * n = D * D
    BY <1>10
  <2> QED
    BY <2>1, <2>2
<1> HIDE DEF U, W, D
<1>15. CASE 0 <= U + D
  <2>1. Between(0, u1 + w1, u1) /\ Between(0, u2 + w2, u2)
    BY <1>5, <1>10, <1>12, <1>15
  <2>2. Between(p[1], r[1], q[1]) /\ Between(p[2], r[2], q[2])
    BY <1>1, <2>1 DEF Between, u1, u2, w1, w2
  <2> QED
    BY <1>9, <2>2, OnSegments
<1>16. CASE U + D < 0
  <2>1. 0 <= n /\ n > U
    BY <1>5, <1>10, <1>16
  <2> HIDE DEF n
  <2>2. n <= W
    BY <1>10, <1>12, <1>14, <2>1, Longer
  <2>3. Between(0, 0 - u1, w1) /\ Between(0, 0 - u2, w2)
    BY <1>13, <2>1, <2>2
  <2>4. /\ (0 <= 0 - u1 /\ 0 - u1 <= w1) \/ (w1 <= 0 - u1 /\ 0 - u1 <= 0)
        /\ (0 <= 0 - u2 /\ 0 - u2 <= w2) \/ (w2 <= 0 - u2 /\ 0 - u2 <= 0)
    BY <2>3 DEF Between
  <2>5. (q[1] <= p[1] /\ p[1] <= r[1]) \/ (r[1] <= p[1] /\ p[1] <= q[1])
    BY <1>1, <2>4 DEF u1, w1
  <2>6. (q[2] <= p[2] /\ p[2] <= r[2]) \/ (r[2] <= p[2] /\ p[2] <= q[2])
    BY <1>1, <2>4 DEF u2, w2
  <2>7. Between(q[1], p[1], r[1]) /\ Between(q[2], p[2], r[2])
    BY <2>5, <2>6 DEF Between
  <2> QED
    BY <1>9, <2>7, OnSegments
<1> QED
  BY <1>10, <1>15, <1>16

-----------------------------------------------------------------------------
(* Polygons.                                                                   *)

After(i, n) == (i % n) + 1
LEMMA AfterIndex ==
  ASSUME NEW n \in Nat \ {0}, NEW i \in 1..n
  PROVE  After(i, n) = IF i = n THEN 1 ELSE i + 1
<1>1. CASE i = n
  <2>1. n % n = 0
    OBVIOUS
  <2> QED
    BY <1>1, <2>1 DEF After
<1>2. CASE i # n
  <2>1. i \in 0..(n - 1)
    BY <1>2
  <2>2. i % n = i
    BY <2>1
  <2> QED
    BY <1>2, <2>2 DEF After
<1> QED
  BY <1>1, <1>2

\* Indices of a polygon whose edges are compared.
Compared(i, j, n) == i + 1 < j /\ ~(i = 1 /\ j = n)
Wrapped(k, n) == IF k = n THEN 1 ELSE k + 1
Back(k, n) == IF k = 1 THEN n ELSE k - 1
LEMMA OppositeEdges ==
  ASSUME NEW n \in Nat, n >= 4, NEW k \in 1..n
  PROVE  /\ Back(k, n) \in 1..n /\ Wrapped(Back(k, n), n) = k
         /\ Compared(k, Wrapped(Wrapped(k, n), n), n) \/ Compared(Wrapped(Wrapped(k, n), n), k, n)
         /\ Compared(Back(k, n), Wrapped(k, n), n) \/ Compared(Wrapped(k, n), Back(k, n), n)
BY DEF Compared, Wrapped, Back

\* The sum of three numbers, in whatever order they are added.
LEMMA SumOfThree ==
  ASSUME NEW p, LET c(i) == cross(p[i], successor(p, i)) IN c(1) \in Int /\ c(2) \in Int /\ c(3) \in Int,
         DOMAIN p = {1, 2, 3}
  PROVE  polygon_area2(p) = cross(p[1], successor(p, 1)) + cross(p[2], successor(p, 2)) + cross(p[3], successor(p, 3))
<1> DEFINE c(i) == cross(p[i], successor(p, i))
           S == {1, 2, 3}
           First(T) == CHOOSE x \in T : TRUE
           Def(f) == [T \in SUBSET S |-> IF T = {} THEN 0 ELSE f[T \ {First(T)}] + c(First(T))]
           F == CHOOSE f : f = Def(f)
           one(i, T) == IF i \in T THEN c(i) ELSE 0
           h == [T \in SUBSET S |-> one(1, T) + one(2, T) + one(3, T)]
<1>1. polygon_area2(p) = F[S]
  BY Zenon DEF polygon_area2, FoldSet, MapThenFoldSet
<1>2. \A T \in SUBSET S : T # {} => First(T) \in T /\ First(T) \in S
  OBVIOUS
<1> HIDE DEF First
<1>3. c(1) \in Int /\ c(2) \in Int /\ c(3) \in Int
  OBVIOUS
<1>4. ASSUME NEW T \in SUBSET S, NEW x \in T
      PROVE  h[T] = h[T \ {x}] + c(x)
  <2>1. T \ {x} \in SUBSET S /\ x \in {1, 2, 3}
    OBVIOUS
  <2>2. \A i \in S : i # x => one(i, T \ {x}) = one(i, T)
    OBVIOUS
  <2>3. one(x, T \ {x}) = 0 /\ one(x, T) = c(x)
    OBVIOUS
  <2>4. \A i \in S : one(i, T) \in Int
    BY <1>3
  <2>5. h[T] = one(1, T) + one(2, T) + one(3, T)
    OBVIOUS
  <2>6. h[T \ {x}] = one(1, T \ {x}) + one(2, T \ {x}) + one(3, T \ {x})
    BY <2>1
  <2> HIDE DEF one, h, c
  <2>7. CASE x = 1
    BY <2>2, <2>3, <2>4, <2>5, <2>6, <2>7
  <2>8. CASE x = 2
    BY <2>2, <2>3, <2>4, <2>5, <2>6, <2>8
  <2>9. CASE x = 3
    BY <2>2, <2>3, <2>4, <2>5, <2>6, <2>9
  <2> QED
    BY <2>1, <2>7, <2>8, <2>9
<1>5. {} \in SUBSET S /\ h[{}] = 0
  OBVIOUS
<1>6. h[S] = c(1) + c(2) + c(3)
  <2>1. S \in SUBSET S /\ one(1, S) = c(1) /\ one(2, S) = c(2) /\ one(3, S) = c(3)
    OBVIOUS
  <2> QED
    BY <2>1
<1> HIDE DEF c
<1>7. h = Def(h)
  <2>1. \A T \in SUBSET S : h[T] = IF T = {} THEN 0 ELSE h[T \ {First(T)}] + c(First(T))
    <3>1. TAKE T \in SUBSET S
    <3>2. CASE T = {}
      BY <1>5, <3>2
    <3>3. CASE T # {}
      <4>1. First(T) \in T
        BY <1>2, <3>3
      <4> HIDE DEF h
      <4> QED
        BY <1>4, <3>3, <4>1
    <3> QED
      BY <3>2, <3>3
  <2>2. h = [T \in SUBSET S |-> h[T]]
    OBVIOUS
  <2> HIDE DEF h
  <2> QED
    BY <2>1, <2>2
<1>8. F = Def(F)
  <2> HIDE DEF Def, h
  <2> QED
    BY <1>7
<1> HIDE DEF F, h
<1>9. \A T \in SUBSET S : F[T] = IF T = {} THEN 0 ELSE F[T \ {First(T)}] + c(First(T))
  BY <1>8
<1>10. ASSUME NEW T \in SUBSET S, T # {}, F[T \ {First(T)}] = h[T \ {First(T)}]
       PROVE  F[T] = h[T]
  <2>1. First(T) \in T
    BY <1>2, <1>10
  <2>2. h[T] = h[T \ {First(T)}] + c(First(T))
    BY <1>4, <2>1
  <2> QED
    BY <1>9, <1>10, <2>2
<1>11. F[{}] = h[{}]
  BY <1>5, <1>9
<1>12. \A T \in {{1}, {2}, {3}} : F[T] = h[T]
  <2>1. TAKE T \in {{1}, {2}, {3}}
  <2>2. T \in SUBSET S /\ T # {} /\ T \ {First(T)} = {}
    <3>1. T \in SUBSET S /\ T # {}
      OBVIOUS
    <3>2. First(T) \in T
      BY <1>2, <3>1
    <3> QED
      BY <3>1, <3>2
  <2> QED
    BY <1>10, <1>11, <2>2
<1>13. \A T \in {{1, 2}, {1, 3}, {2, 3}} : F[T] = h[T]
  <2>1. TAKE T \in {{1, 2}, {1, 3}, {2, 3}}
  <2>2. T \in SUBSET S /\ T # {}
    OBVIOUS
  <2>3. First(T) \in T
    BY <1>2, <2>2
  <2>4. T \ {First(T)} \in {{1}, {2}, {3}}
    BY <2>3
  <2> QED
    BY <1>10, <1>12, <2>2, <2>4
<1>14. F[S] = h[S]
  <2>1. S \in SUBSET S /\ S # {}
    OBVIOUS
  <2>2. First(S) \in S
    BY <1>2, <2>1
  <2>3. S \ {First(S)} \in {{1, 2}, {1, 3}, {2, 3}}
    BY <2>2
  <2> QED
    BY <1>10, <1>13, <2>1, <2>3
<1> QED
  BY <1>1, <1>6, <1>14 DEF c

LEMMA TurnsAround ==
  ASSUME NEW a \in Point, NEW b \in Point, NEW c \in Point
  PROVE  /\ (b[1] - a[1]) * (c[2] - b[2]) - (c[1] - b[1]) * (b[2] - a[2])
              = cross(a, b) + cross(b, c) + cross(c, a)
         /\ cross(a, b) \in Int /\ cross(b, c) \in Int /\ cross(c, a) \in Int
<1>1. /\ a[1] \in Int /\ a[2] \in Int /\ b[1] \in Int /\ b[2] \in Int /\ c[1] \in Int /\ c[2] \in Int
  BY Points
<1>2. \A x1, x2, y1, y2, z1, z2 \in Int :
        (y1 - x1) * (z2 - y2) - (z1 - y1) * (y2 - x2)
          = (x1 * y2 - y1 * x2) + (y1 * z2 - z1 * y2) + (z1 * x2 - x1 * z2)
  OBVIOUS
<1>3. \A x1, x2, y1, y2 \in Int : x1 * y2 - y1 * x2 \in Int
  OBVIOUS
<1>4. /\ cross(a, b) = a[1] * b[2] - b[1] * a[2] /\ cross(b, c) = b[1] * c[2] - c[1] * b[2]
      /\ cross(c, a) = c[1] * a[2] - a[1] * c[2]
  BY DEF cross
<1> QED
  BY <1>1, <1>2, <1>3, <1>4

LEMMA CornersDiffer ==
  ASSUME NEW p \in Seq(Point), Cardinality(ToSet(p)) = Len(p)
  PROVE  \A i, j \in 1..Len(p) : p[i] = p[j] => i = j
<1> DEFINE n == Len(p)
<1>1. n \in Nat /\ DOMAIN p = 1..n /\ p \in [1..n -> Point]
  OBVIOUS
<1>2. ToSet(p) = {p[i] : i \in 1..n}
  BY <1>1 DEF ToSet
<1>3. p \in [1..n -> ToSet(p)]
  BY <1>1, <1>2
<1>4. p \in Surjection(1..n, ToSet(p))
  BY <1>2, <1>3 DEF Surjection
<1>5. IsFiniteSet(1..n) /\ Cardinality(1..n) = n
  <2>1. 1 \in Int /\ n \in Int
    BY <1>1
  <2>2. IsFiniteSet(1..n) /\ Cardinality(1..n) = IF 1 > n THEN 0 ELSE n - 1 + 1
    BY <2>1, FS_Interval
  <2> QED
    BY <1>1, <2>2
<1>6. p \in Injection(1..n, ToSet(p))
  BY <1>4, <1>5, FS_SurjSameCardinalityImpliesInj
<1> QED
  BY <1>6 DEF Injection, IsInjective

LEMMA Successors ==
  ASSUME NEW p \in Seq(Point), NEW i \in 1..Len(p)
  PROVE  /\ successor(p, i) = p[IF i = Len(p) THEN 1 ELSE i + 1]
         /\ (IF i = Len(p) THEN 1 ELSE i + 1) \in 1..Len(p)
         /\ p[i] \in Point /\ successor(p, i) \in Point
<1> DEFINE n == Len(p)
<1>1. n \in Nat \ {0}
  OBVIOUS
<1>2. After(i, n) = IF i = n THEN 1 ELSE i + 1
  BY <1>1, AfterIndex
<1>3. After(i, n) \in 1..n
  BY <1>1, <1>2
<1>4. successor(p, i) = p[After(i, n)]
  BY DEF successor, After
<1>5. \A j \in 1..n : p[j] \in Point
  OBVIOUS
<1> QED
  BY <1>2, <1>3, <1>4, <1>5

(* A corner of a polygon that passes the checker is not a spike: the edge that
   leaves it does not run back along the one that reaches it.                 *)
Spike(a, b, c) ==
  /\ (b[1] - a[1]) * (c[2] - b[2]) - (c[1] - b[1]) * (b[2] - a[2]) = 0
  /\ (b[1] - a[1]) * (c[1] - b[1]) + (b[2] - a[2]) * (c[2] - b[2]) <= 0
LEMMA NoSpike ==
  ASSUME NEW p \in Seq(Point), Len(p) >= 3, polygon_area2(p) # 0, polygon_is_simple(p), NEW k \in 1..Len(p),
         NEW m \in 1..Len(p), m = IF k = Len(p) THEN 1 ELSE k + 1
  PROVE  ~Spike(p[k], p[m], successor(p, m))
<1> DEFINE n == Len(p)
           Nx(i) == IF i = n THEN 1 ELSE i + 1
           l == Nx(m)
<1>1. n \in Nat /\ n >= 3 /\ DOMAIN p = 1..n
  OBVIOUS
<1>2. \A i \in 1..n : successor(p, i) = p[Nx(i)] /\ Nx(i) \in 1..n /\ p[i] \in Point
  <2>1. TAKE i \in 1..n
  <2> QED
    BY Successors
<1>3. \A i, j \in 1..n : p[i] = p[j] => i = j
  BY CornersDiffer DEF polygon_is_simple
<1>4. \A i, j \in 1..n : Compared(i, j, n) => ~segments_intersect(p[i], p[Nx(i)], p[j], p[Nx(j)])
  BY <1>2 DEF polygon_is_simple, Compared
<1>5. m = Nx(k) /\ m # k /\ l # m
  <2>1. \A t \in Nat : t >= 3 => \A i \in 1..t : i # IF i = t THEN 1 ELSE i + 1
    OBVIOUS
  <2>2. Nx(k) # k /\ Nx(m) # m
    BY <1>1, <2>1
  <2> QED
    BY <2>2
<1>6. l \in 1..n
  BY <1>2
<1> HIDE DEF Nx
<1>7. SUFFICES ASSUME Spike(p[k], p[m], p[l]) PROVE FALSE
  BY <1>2
<1>8. p[k] \in Point /\ p[m] \in Point /\ p[l] \in Point /\ p[k] # p[m] /\ p[m] # p[l]
  BY <1>2, <1>3, <1>5, <1>6
<1> HIDE DEF l
<1>9. CASE n = 3
  <2>1. DOMAIN p = {1, 2, 3} /\ k \in {1, 2, 3}
    BY <1>1, <1>9
  <2>2. Nx(1) = 2 /\ Nx(2) = 3 /\ Nx(3) = 1
    BY <1>9 DEF Nx
  <2>3. 1 \in 1..n /\ 2 \in 1..n /\ 3 \in 1..n
    BY <1>9
  <2>4. successor(p, 1) = p[2] /\ successor(p, 2) = p[3] /\ successor(p, 3) = p[1]
        /\ p[1] \in Point /\ p[2] \in Point /\ p[3] \in Point
    BY <1>2, <2>2, <2>3
  <2> DEFINE x == cross(p[1], p[2])
             y == cross(p[2], p[3])
             z == cross(p[3], p[1])
  <2>5. x \in Int /\ y \in Int /\ z \in Int
    BY <2>4, TurnsAround
  <2>6. polygon_area2(p) = x + y + z
    BY <2>1, <2>4, <2>5, SumOfThree
  <2>7. cross(p[k], p[m]) + cross(p[m], p[l]) + cross(p[l], p[k]) = 0
    BY <1>7, <1>8, TurnsAround DEF Spike
  <2>8. l = Nx(m)
    BY DEF l
  <2>9. CASE k = 1
    BY <1>5, <2>2, <2>5, <2>6, <2>7, <2>8, <2>9
  <2>10. CASE k = 2
    <3>1. y + z + x = 0
      BY <1>5, <2>2, <2>7, <2>8, <2>10
    <3> HIDE DEF x, y, z
    <3> QED
      BY <2>5, <2>6, <3>1
  <2>11. CASE k = 3
    <3>1. z + x + y = 0
      BY <1>5, <2>2, <2>7, <2>8, <2>11
    <3> HIDE DEF x, y, z
    <3> QED
      BY <2>5, <2>6, <3>1
  <2> QED
    BY <2>1, <2>9, <2>10, <2>11
<1>10. CASE n # 3
  <2> DEFINE h == IF k = 1 THEN n ELSE k - 1
  <2>1. /\ h \in 1..n /\ Nx(h) = k
        /\ Compared(k, l, n) \/ Compared(l, k, n)
        /\ Compared(h, m, n) \/ Compared(m, h, n)
    <3>1. \A t \in Nat : t >= 3 /\ t # 3 => t >= 4
      OBVIOUS
    <3>2. n >= 4
      BY <1>1, <1>10, <3>1
    <3>3. \A i \in 1..n : Nx(i) = Wrapped(i, n)
      BY DEF Nx, Wrapped
    <3>4. m = Wrapped(k, n) /\ l = Wrapped(Wrapped(k, n), n) /\ h = Back(k, n)
      BY <1>5, <3>3 DEF l, h, Back
    <3> HIDE DEF h, n
    <3>5. h \in 1..n /\ Wrapped(h, n) = k
      BY <1>1, <3>2, <3>4, OppositeEdges DEF n
    <3>6. Compared(k, l, n) \/ Compared(l, k, n)
      BY <1>1, <3>2, <3>4, OppositeEdges DEF n
    <3>7. Compared(h, m, n) \/ Compared(m, h, n)
      BY <1>1, <3>2, <3>4, OppositeEdges DEF n
    <3> QED
      BY <3>3, <3>5, <3>6, <3>7
  <2> HIDE DEF h
  <2>2. /\ Side(p[k], p[m], p[l]) = 0 /\ Side(p[m], p[l], p[k]) = 0
        /\ on_segment(p[k], p[l], p[m]) \/ on_segment(p[m], p[k], p[l])
    BY <1>7, <1>8, FoldsBack DEF Spike
  <2>3. orientation(p[k], p[m], p[l]) = 0 /\ orientation(p[m], p[l], p[k]) = 0
    BY <1>8, <2>2, Orientations DEF Sign
  <2>4. p[Nx(k)] = p[m] /\ p[Nx(m)] = p[l] /\ p[Nx(h)] = p[k]
    BY <1>5, <2>1 DEF l
  <2>5. CASE on_segment(p[k], p[l], p[m])
    <3>1. /\ segments_intersect(p[k], p[Nx(k)], p[l], p[Nx(l)])
          /\ segments_intersect(p[l], p[Nx(l)], p[k], p[Nx(k)])
      BY <2>3, <2>4, <2>5 DEF segments_intersect
    <3> QED
      BY <1>4, <1>6, <2>1, <3>1
  <2>6. CASE on_segment(p[m], p[k], p[l])
    <3>1. /\ segments_intersect(p[h], p[Nx(h)], p[m], p[Nx(m)])
          /\ segments_intersect(p[m], p[Nx(m)], p[h], p[Nx(h)])
      BY <2>3, <2>4, <2>6 DEF segments_intersect
    <3> QED
      BY <1>4, <2>1, <3>1
  <2> QED
    BY <2>2, <2>5, <2>6
<1> QED
  BY <1>9, <1>10

(* A polygon of the edits of an accepted candidate meets itself nowhere.        *)
LEMMA SimplePolygons ==
  ASSUME NEW p \in Seq(Point), Len(p) >= 3, polygon_area2(p) # 0, polygon_is_simple(p)
  PROVE  LET n == Len(p)  E(i) == <<p[i], successor(p, i)>> IN
         \A i, j \in 1..n : i < j =>
           IF j = i + 1 \/ (i = 1 /\ j = n)
           THEN LET k == IF j = i + 1 THEN i ELSE n  m == IF k = n THEN 1 ELSE k + 1
                    u == <<E(k)[2][1] - E(k)[1][1], E(k)[2][2] - E(k)[1][2]>>
                    w == <<E(m)[2][1] - E(m)[1][1], E(m)[2][2] - E(m)[1][2]>>
                IN cross(u, w) # 0 \/ u[1] * w[1] + u[2] * w[2] > 0
           ELSE ~Meet(E(i)[1], E(i)[2], E(j)[1], E(j)[2])
<1> DEFINE n == Len(p)
           E(i) == <<p[i], successor(p, i)>>
<1> SUFFICES ASSUME NEW i \in 1..n, NEW j \in 1..n, i < j
             PROVE  IF j = i + 1 \/ (i = 1 /\ j = n)
                    THEN LET k == IF j = i + 1 THEN i ELSE n  m == IF k = n THEN 1 ELSE k + 1
                             u == <<E(k)[2][1] - E(k)[1][1], E(k)[2][2] - E(k)[1][2]>>
                             w == <<E(m)[2][1] - E(m)[1][1], E(m)[2][2] - E(m)[1][2]>>
                         IN cross(u, w) # 0 \/ u[1] * w[1] + u[2] * w[2] > 0
                    ELSE ~Meet(E(i)[1], E(i)[2], E(j)[1], E(j)[2])
  OBVIOUS
<1>2. i < j
  OBVIOUS
<1>3. n \in Nat /\ i \in Int /\ j \in Int
  OBVIOUS
<1>4. CASE j = i + 1 \/ (i = 1 /\ j = n)
  <2> DEFINE k == IF j = i + 1 THEN i ELSE n
             m == IF k = n THEN 1 ELSE k + 1
             u == <<E(k)[2][1] - E(k)[1][1], E(k)[2][2] - E(k)[1][2]>>
             w == <<E(m)[2][1] - E(m)[1][1], E(m)[2][2] - E(m)[1][2]>>
  <2>1. k \in 1..n /\ m \in 1..n
    BY <1>3
  <2>2. successor(p, k) = p[m] /\ p[k] \in Point /\ p[m] \in Point /\ successor(p, m) \in Point
    BY <2>1, Successors
  <2>3. ~Spike(p[k], p[m], successor(p, m))
    BY <2>1, NoSpike
  <2> HIDE DEF k, m
  <2>4. cross(u, w) # 0 \/ u[1] * w[1] + u[2] * w[2] > 0
    <3> DEFINE a == p[k]
               b == p[m]
               c == successor(p, m)
    <3>1. /\ a[1] \in Int /\ a[2] \in Int /\ b[1] \in Int /\ b[2] \in Int /\ c[1] \in Int /\ c[2] \in Int
      BY <2>2, Points
    <3>2. u = <<b[1] - a[1], b[2] - a[2]>> /\ w = <<c[1] - b[1], c[2] - b[2]>>
      BY <2>2
    <3> HIDE DEF u, w
    <3>3. /\ cross(u, w) = (b[1] - a[1]) * (c[2] - b[2]) - (c[1] - b[1]) * (b[2] - a[2])
          /\ u[1] * w[1] + u[2] * w[2] = (b[1] - a[1]) * (c[1] - b[1]) + (b[2] - a[2]) * (c[2] - b[2])
      BY <3>2 DEF cross
    <3>4. (b[1] - a[1]) * (c[1] - b[1]) + (b[2] - a[2]) * (c[2] - b[2]) \in Int
      <4>1. \A x1, x2, y1, y2, z1, z2 \in Int : (y1 - x1) * (z1 - y1) + (y2 - x2) * (z2 - y2) \in Int
        OBVIOUS
      <4> QED
        BY <3>1, <4>1
    <3>5. ~Spike(a, b, c)
      BY <2>3
    <3> HIDE DEF a, b, c
    <3> DEFINE dot == (b[1] - a[1]) * (c[1] - b[1]) + (b[2] - a[2]) * (c[2] - b[2])
               turn == (b[1] - a[1]) * (c[2] - b[2]) - (c[1] - b[1]) * (b[2] - a[2])
    <3>6. ~(turn = 0 /\ dot <= 0) /\ dot \in Int /\ cross(u, w) = turn /\ u[1] * w[1] + u[2] * w[2] = dot
      BY <3>3, <3>4, <3>5 DEF Spike
    <3> HIDE DEF dot, turn
    <3> QED
      BY <3>6
  <2> QED
    BY <1>4, <2>4 DEF k, m
<1>5. CASE ~(j = i + 1 \/ (i = 1 /\ j = n))
  <2>1. i + 1 < j /\ ~(i = 1 /\ j = n)
    BY <1>2, <1>3, <1>5
  <2>2. ~segments_intersect(p[i], successor(p, i), p[j], successor(p, j))
    BY <2>1 DEF polygon_is_simple
  <2>3. /\ p[i] \in Point /\ successor(p, i) \in Point /\ p[j] \in Point /\ successor(p, j) \in Point
        /\ successor(p, i) = p[IF i = n THEN 1 ELSE i + 1] /\ (IF i = n THEN 1 ELSE i + 1) \in 1..n
    BY Successors
  <2>4. p[i] # successor(p, i)
    <3>1. \A x, y \in 1..n : p[x] = p[y] => x = y
      BY CornersDiffer DEF polygon_is_simple
    <3>2. i # IF i = n THEN 1 ELSE i + 1
      BY <1>2, <1>3
    <3> QED
      BY <2>3, <3>1, <3>2
  <2>5. ~Meet(p[i], successor(p, i), p[j], successor(p, j))
    BY <2>2, <2>3, <2>4, CommonPointsAreFound
  <2>6. E(i)[1] = p[i] /\ E(i)[2] = successor(p, i) /\ E(j)[1] = p[j] /\ E(j)[2] = successor(p, j)
    OBVIOUS
  <2> HIDE DEF E
  <2> QED
    BY <1>5, <2>5, <2>6
<1> QED
  BY <1>4, <1>5

-----------------------------------------------------------------------------
(* The least and the greatest of finitely many numbers, and the hull of boxes.  *)

LEMMA LeastIndex ==
  ASSUME NEW n \in Nat, NEW I \in SUBSET (1..n), I # {}, NEW g, \A i \in I : g[i] \in Int
  PROVE  \E x \in I : \A y \in I : g[x] <= g[y]
<1> DEFINE Fine == {k \in Nat : \A J \in SUBSET I : J \subseteq 1..k /\ J # {} => \E x \in J : \A y \in J : g[x] <= g[y]}
<1>1. 0 \in Fine
  <2>1. 1..0 = {}
    OBVIOUS
  <2> QED
    BY <2>1
<1>2. ASSUME NEW k \in Nat, k \in Fine PROVE k + 1 \in Fine
  <2>1. SUFFICES ASSUME NEW J \in SUBSET I, J \subseteq 1..(k + 1), J # {}
                 PROVE  \E x \in J : \A y \in J : g[x] <= g[y]
    OBVIOUS
  <2> DEFINE K == J \ {k + 1}
  <2>2. K \in SUBSET I /\ K \subseteq 1..k
    <3>1. \A y \in 1..(k + 1) : y # k + 1 => y \in 1..k
      OBVIOUS
    <3> QED
      BY <2>1, <3>1
  <2>3. CASE K = {}
    <3>1. PICK x : x \in J
      BY <2>1
    <3>2. \A y \in J : y = x /\ g[y] \in Int
      BY <2>3, <3>1
    <3> QED
      BY <3>1, <3>2
  <2>4. CASE K # {}
    <3>1. PICK x \in K : \A y \in K : g[x] <= g[y]
      BY <1>2, <2>2, <2>4
    <3>2. x \in J /\ g[x] \in Int
      BY <2>1, <3>1
    <3>3. CASE k + 1 \notin J
      <4>1. K = J
        BY <3>3
      <4> QED
        BY <3>1, <4>1
    <3>4. CASE k + 1 \in J
      <4>1. g[k + 1] \in Int /\ \A y \in J : g[y] \in Int /\ (y \in K \/ y = k + 1)
        BY <2>1, <3>4
      <4>2. CASE g[x] <= g[k + 1]
        <5>1. \A y \in J : g[x] <= g[y]
          BY <3>1, <4>1, <4>2
        <5> QED
          BY <3>2, <5>1
      <4>3. CASE g[k + 1] <= g[x]
        <5>1. \A y \in J : g[k + 1] <= g[y]
          BY <3>1, <3>2, <4>1, <4>3
        <5> QED
          BY <3>4, <5>1
      <4> QED
        BY <3>2, <4>1, <4>2, <4>3
    <3> QED
      BY <3>3, <3>4
  <2> QED
    BY <2>3, <2>4
<1>3. Nat \subseteq Fine
  <2> HIDE DEF Fine
  <2> QED
    BY <1>1, <1>2, NatSteps
<1> QED
  BY <1>3

LEMMA Extremes ==
  ASSUME NEW n \in Nat, NEW I \in SUBSET (1..n), I # {}, NEW g, \A i \in I : g[i] \in Int,
         NEW S, S = {g[i] : i \in I}
  PROVE  /\ Min(S) \in S /\ \A x \in S : Min(S) <= x
         /\ Max(S) \in S /\ \A x \in S : x <= Max(S)
<1> DEFINE down == [i \in I |-> 0 - g[i]]
<1>1. \E x \in S : \A y \in S : x <= y
  <2>1. PICK x \in I : \A y \in I : g[x] <= g[y]
    BY LeastIndex
  <2> QED
    BY <2>1
<1>2. \E x \in S : \A y \in S : x >= y
  <2>1. \A i \in I : down[i] \in Int /\ down[i] = 0 - g[i]
    OBVIOUS
  <2> HIDE DEF down
  <2>2. PICK x \in I : \A y \in I : down[x] <= down[y]
    BY <2>1, LeastIndex
  <2>3. \A y \in I : g[x] >= g[y]
    <3>1. TAKE y \in I
    <3>2. g[x] \in Int /\ g[y] \in Int /\ 0 - g[x] <= 0 - g[y]
      BY <2>1, <2>2
    <3> QED
      BY <3>2
  <2> QED
    BY <2>3
<1>3. Min(S) \in S /\ \A x \in S : Min(S) <= x
  BY <1>1 DEF Min
<1>4. Max(S) \in S /\ \A x \in S : Max(S) >= x
  BY <1>2 DEF Max
<1>5. \A x \in S : x \in Int
  OBVIOUS
<1> QED
  BY <1>3, <1>4, <1>5

\* The corners of a hull are integers, and each side is the side of some box.
Spanned(h, g, I) ==
  /\ (\E i \in I : g[i][1] = h[1]) /\ (\E i \in I : g[i][3] = h[3])
  /\ (\E i \in I : g[i][2] = h[2]) /\ (\E i \in I : g[i][4] = h[4])
LEMMA Hulls ==
  ASSUME NEW n \in Nat, NEW I \in SUBSET (1..n), I # {}, NEW g, \A i \in I : g[i] \in Box,
         NEW S, S = {g[i] : i \in I}
  PROVE  hull(S) \in Box /\ Spanned(hull(S), g, I)
<1>1. \A i \in I : g[i][1] \in Int /\ g[i][2] \in Int /\ g[i][3] \in Int /\ g[i][4] \in Int
  BY DEF Box
<1> DEFINE at(j) == [i \in I |-> g[i][j]]
           T(j) == {b[j] : b \in S}
<1>2. \A j \in {1, 2, 3, 4} : (\A i \in I : at(j)[i] \in Int /\ at(j)[i] = g[i][j]) /\ T(j) = {at(j)[i] : i \in I}
  <2>1. TAKE j \in {1, 2, 3, 4}
  <2>2. \A i \in I : at(j)[i] \in Int /\ at(j)[i] = g[i][j]
    BY <1>1
  <2>3. T(j) = {g[i][j] : i \in I}
    OBVIOUS
  <2> QED
    BY <2>2, <2>3
<1>3. \A j \in {1, 2, 3, 4} : Min(T(j)) \in T(j) /\ Max(T(j)) \in T(j) /\ T(j) \subseteq Int
  <2>1. TAKE j \in {1, 2, 3, 4}
  <2>2. (\A i \in I : at(j)[i] \in Int) /\ T(j) = {at(j)[i] : i \in I}
    BY <1>2
  <2> DEFINE f == at(j)
             U == T(j)
  <2>3. (\A i \in I : f[i] \in Int) /\ U = {f[i] : i \in I}
    BY <2>2
  <2> HIDE DEF f, U
  <2>4. Min(U) \in U /\ Max(U) \in U
    BY <2>3, Extremes
  <2>5. U \subseteq Int
    BY <2>3
  <2> QED
    BY <2>4, <2>5 DEF U
<1>4. \A j \in {1, 2, 3, 4} : \A x \in T(j) : \E i \in I : g[i][j] = x
  OBVIOUS
<1>5. hull(S) = <<Min(T(1)), Min(T(2)), Max(T(3)), Max(T(4))>>
  BY DEF hull
<1> HIDE DEF T, at
<1>6. hull(S) \in Box
  BY <1>3, <1>5 DEF Box
<1>7. hull(S)[1] = Min(T(1)) /\ hull(S)[2] = Min(T(2)) /\ hull(S)[3] = Max(T(3)) /\ hull(S)[4] = Max(T(4))
  BY <1>5
<1>8. (\E i \in I : g[i][1] = hull(S)[1]) /\ (\E i \in I : g[i][3] = hull(S)[3])
  BY <1>3, <1>4, <1>7
<1>9. (\E i \in I : g[i][2] = hull(S)[2]) /\ (\E i \in I : g[i][4] = hull(S)[4])
  BY <1>3, <1>4, <1>7
<1> QED
  BY <1>6, <1>8, <1>9 DEF Spanned

LEMMA PolygonBoxes ==
  ASSUME NEW p \in Seq(Point), p # <<>>
  PROVE  geometry_box(p) \in Box
<1> DEFINE n == Len(p)
           g == [i \in 1..n |-> <<p[i][1], p[i][2], p[i][1], p[i][2]>>]
           S == {<<q[1], q[2], q[1], q[2]>> : q \in ToSet(p)}
<1>1. n \in Nat /\ 1..n # {} /\ DOMAIN p = 1..n /\ \A i \in 1..n : p[i] \in Point
  <2>1. n \in Nat /\ n # 0
    BY EmptySeq
  <2>2. 1 \in 1..n
    BY <2>1
  <2> QED
    BY <2>1, <2>2
<1>2. \A i \in 1..n : g[i] \in Box
  <2>1. TAKE i \in 1..n
  <2>2. p[i][1] \in Int /\ p[i][2] \in Int
    BY <1>1, Points
  <2> QED
    BY <2>2 DEF Box
<1>3. S = {g[i] : i \in 1..n}
  BY <1>1 DEF ToSet
<1> HIDE DEF g, n, S
<1> DEFINE I == 1..n
<1>5. n \in Nat /\ I \in SUBSET (1..n) /\ I # {} /\ (\A i \in I : g[i] \in Box) /\ S = {g[i] : i \in I}
  BY <1>1, <1>2, <1>3
<1> HIDE DEF I
<1>4. hull(S) \in Box
  BY <1>5, Hulls
<1> QED
  BY <1>4 DEF geometry_box, S

-----------------------------------------------------------------------------
(* What each level of the checker leaves behind, said of the candidate and what
   it is checked against.                                                      *)

Simple(c) ==
  \A i \in DOMAIN c.edits : \A p \in ToSet(c.edits[i].after) :
    Len(p) >= 3 /\ polygon_area2(p) # 0 /\ polygon_is_simple(p)
Added(c, targets) ==
  {i \in DOMAIN c.edits : c.edits[i].op = "ADD_POLYGON" /\ c.edits[i].targets = targets /\ c.edits[i].after # <<>>}
BoxOf(c, i) == geometry_box(c.edits[i].after[1])
\* A shape is taken apart into pieces that reach into the fragment and span it.
Taken(c, g) ==
  LET own == Added(c, {c.post.parent})
      replacement == BoxOf(c, CHOOSE i \in own : TRUE)
      sides == {BoxOf(c, i) : i \in Added(c, {})}
      f == g.fragments[c.post.fragment].box
      whole == g.objects[c.post.parent].box
      all == hull({replacement} \cup sides) IN
  /\ c.post.fragment \in DOMAIN g.fragments /\ c.post.parent \in DOMAIN g.objects
  /\ own # {} /\ intersects(replacement, f)
  /\ sides # {} =>
       /\ \A b \in sides : intersects(b, f)
       /\ \A j \in {long_axis(whole), long_axis(whole) + 2} : all[j] = whole[j]
DemandOf(claims, n, r) ==
  FoldSet(LAMBDA i, k : k + claims[i].amount, 0, {i \in 1..n : claims[i].resource = r})
Fits(c, g) ==
  \A n \in DOMAIN c.claims :
    LET limit == IF c.claims[n].capacity # Unlimited THEN c.claims[n].capacity ELSE g.capacities[c.claims[n].resource] IN
    limit # Unlimited => DemandOf(c.claims, n, c.claims[n].resource) <= limit

CheckInv ==
  /\ \E c \in Cases : candidate = c.candidate /\ given = c.given
  /\ level \in 0..6
  /\ status = "running" \/ Accepted =>
       /\ level > 3 => Simple(candidate) /\ (decomposes => Taken(candidate, given))
       /\ level > 4 => Fits(candidate, given)
  /\ Accepted => level = 6

LEMMA SameDemand ==
  \A n, r : demand(n, r) = DemandOf(candidate.claims, n, r)
BY Zenon DEF demand, DemandOf

LEMMA GeometryLeaves ==
  ASSUME geometry_holds
  PROVE  Simple(candidate) /\ (decomposes => Taken(candidate, given))
<1>1. Simple(candidate)
  <2>1. \A e \in edits : \A p \in ToSet(e.after) : polygon_ok(p)
    BY DEF geometry_holds
  <2>2. \A i \in DOMAIN candidate.edits : candidate.edits[i] \in edits
    BY DEF edits, ToSet
  <2> QED
    BY <2>1, <2>2 DEF Simple, polygon_ok
<1>2. ASSUME decomposes PROVE Taken(candidate, given)
  <2>1. proven_local_decomposition
    BY <1>2 DEF geometry_holds, semantics_hold, decomposes
  <2>2. /\ candidate.post.fragment \in DOMAIN given.fragments /\ parent_id \in DOMAIN given.objects
        /\ Cardinality(replacements) = 1 /\ intersects(replacement_box, fragment.box)
        /\ spans_parent(object(parent_id).box)
    BY <2>1 DEF proven_local_decomposition, owns_source, one_group
  <2>3. replacements # {}
    <3>1. SUFFICES ASSUME replacements = {} PROVE FALSE
      OBVIOUS
    <3> QED
      BY <2>2, <3>1, FS_EmptySet
  <2>4. replacements = Added(candidate, {candidate.post.parent}) /\ side_pieces = Added(candidate, {})
    BY DEF replacements, side_pieces, pieces_of, Added, operations, Edit, parent_id
  <2> DEFINE r == CHOOSE i \in replacements : TRUE
  <2>5. r \in replacements
    BY <2>3
  <2>6. \A i : first_box(i) = BoxOf(candidate, i)
    BY DEF first_box, BoxOf, Edit
  <2>7. replacement_box = BoxOf(candidate, r) /\ side_boxes = {BoxOf(candidate, i) : i \in Added(candidate, {})}
    BY <2>4, <2>6 DEF replacement_box, side_boxes
  <2>8. /\ fragment.box = given.fragments[candidate.post.fragment].box
        /\ object(parent_id).box = given.objects[candidate.post.parent].box
    BY DEF fragment, object, parent_id
  <2>9. r = CHOOSE i \in Added(candidate, {candidate.post.parent}) : TRUE
    BY <2>4
  <2> HIDE DEF r
  <2> DEFINE f == given.fragments[candidate.post.fragment].box
             whole == given.objects[candidate.post.parent].box
             sides == {BoxOf(candidate, i) : i \in Added(candidate, {})}
             all == hull({BoxOf(candidate, r)} \cup sides)
  <2>10. sides # {} =>
            /\ \A b \in sides : intersects(b, f)
            /\ \A j \in {long_axis(whole), long_axis(whole) + 2} : all[j] = whole[j]
    BY <2>2, <2>7, <2>8 DEF spans_parent
  <2>11. Added(candidate, {candidate.post.parent}) # {} /\ intersects(BoxOf(candidate, r), f)
    BY <2>2, <2>3, <2>4, <2>7, <2>8
  <2> QED
    BY <2>2, <2>9, <2>10, <2>11 DEF Taken, parent_id
<1> QED
  BY <1>1, <1>2

LEMMA ResourcesLeave ==
  ASSUME resources_fit
  PROVE  Fits(candidate, given)
BY SameDemand DEF resources_fit, claim_fits, capacity, Fits

LEMMA CheckInitHolds == CheckInit => CheckInv
BY DEF CheckInit, CheckInv, Accepted

LEMMA CheckStep == CheckInv /\ [CheckNext]_checkVars => CheckInv'
<1> SUFFICES ASSUME CheckInv, [CheckNext]_checkVars PROVE CheckInv'
  OBVIOUS
<1>1. candidate' = candidate /\ given' = given
  BY DEF CheckNext, checkVars, CheckIdentity, CheckSources, CheckEditability, CheckGeometry,
         CheckResources, CheckAnchors, Try
<1>2. \E c \in Cases : candidate' = c.candidate /\ given' = c.given
  BY <1>1 DEF CheckInv
<1>3. /\ Simple(candidate)' <=> Simple(candidate)
      /\ Taken(candidate, given)' <=> Taken(candidate, given)
      /\ Fits(candidate, given)' <=> Fits(candidate, given)
      /\ decomposes' <=> decomposes
  <2>1. /\ Simple(candidate)' <=> Simple(candidate')
        /\ Taken(candidate, given)' <=> Taken(candidate', given')
        /\ Fits(candidate, given)' <=> Fits(candidate', given')
    OBVIOUS
  <2> QED
    BY <1>1, <2>1 DEF decomposes
<1> DEFINE Shaped == Simple(candidate) /\ (decomposes => Taken(candidate, given))
           Within == Fits(candidate, given)
<1>4. (Shaped' <=> Shaped) /\ (Within' <=> Within)
  BY <1>3
<1>5. /\ level \in 0..6
      /\ status = "running" \/ Accepted => (level > 3 => Shaped) /\ (level > 4 => Within)
      /\ Accepted => level = 6
  BY DEF CheckInv
<1>6. geometry_holds => Shaped
  BY GeometryLeaves
<1>7. resources_fit => Within
  BY ResourcesLeave
<1> DEFINE Next == /\ level' \in 0..6
                   /\ status' = "running" \/ Accepted' => (level' > 3 => Shaped) /\ (level' > 4 => Within)
                   /\ Accepted' => level' = 6
<1> HIDE DEF Shaped, Within
<1>8. CASE CheckIdentity
  <2>1. level = 0 /\ status = "running"
    BY <1>8 DEF CheckIdentity
  <2>2. (level' = 1 /\ status' = status) \/ (status' # "running" /\ ~Accepted' /\ level' \in {0, 6})
    BY <1>8, <2>1 DEF CheckIdentity, Refuse, Pass, Accepted
  <2>3. Next
    BY <2>1, <2>2 DEF Accepted
  <2> QED
    BY <1>2, <1>4, <2>3 DEF CheckInv, Shaped, Within
<1>9. CASE CheckSources
  <2>1. level = 1 /\ status = "running"
    BY <1>9 DEF CheckSources, Try
  <2>2. (level' = 2 /\ status' = status) \/ (status' # "running" /\ ~Accepted' /\ level' = 1)
    BY <1>9, <2>1 DEF CheckSources, Try, Refuse, Pass, Accepted
  <2>3. Next
    BY <2>1, <2>2 DEF Accepted
  <2> QED
    BY <1>2, <1>4, <2>3 DEF CheckInv, Shaped, Within
<1>10. CASE CheckEditability
  <2>1. level = 2 /\ status = "running"
    BY <1>10 DEF CheckEditability, Try
  <2>2. (level' = 3 /\ status' = status) \/ (status' # "running" /\ ~Accepted' /\ level' = 2)
    BY <1>10, <2>1 DEF CheckEditability, Try, Refuse, Pass, Accepted
  <2>3. Next
    BY <2>1, <2>2 DEF Accepted
  <2> QED
    BY <1>2, <1>4, <2>3 DEF CheckInv, Shaped, Within
<1>11. CASE CheckGeometry
  <2>1. level = 3 /\ status = "running"
    BY <1>11 DEF CheckGeometry, Try
  <2>2. (level' = 4 /\ status' = status /\ geometry_holds) \/ (status' # "running" /\ ~Accepted' /\ level' = 3)
    BY <1>11, <2>1 DEF CheckGeometry, Try, Refuse, Pass, Accepted
  <2>3. Next
    BY <1>6, <2>1, <2>2 DEF Accepted
  <2> QED
    BY <1>2, <1>4, <2>3 DEF CheckInv, Shaped, Within
<1>12. CASE CheckResources
  <2>1. level = 4 /\ status = "running"
    BY <1>12 DEF CheckResources
  <2>2. (level' = 5 /\ status' = status /\ resources_fit) \/ (status' # "running" /\ ~Accepted' /\ level' = 4)
    BY <1>12, <2>1 DEF CheckResources, Accepted
  <2>3. Next
    BY <1>5, <1>7, <2>1, <2>2 DEF Accepted
  <2> QED
    BY <1>2, <1>4, <2>3 DEF CheckInv, Shaped, Within
<1>13. CASE CheckAnchors
  <2>1. level = 5 /\ status = "running"
    BY <1>13 DEF CheckAnchors
  <2>2. (level' = 6 /\ Accepted') \/ (status' # "running" /\ ~Accepted' /\ level' = 5)
    BY <1>13, <2>1 DEF CheckAnchors, Accepted
  <2>3. Next
    BY <1>5, <2>1, <2>2 DEF Accepted
  <2> QED
    BY <1>2, <1>4, <2>3 DEF CheckInv, Shaped, Within
<1>14. CASE UNCHANGED checkVars
  <2>1. level' = level /\ status' = status
    BY <1>14 DEF checkVars
  <2>2. Next
    BY <1>5, <2>1 DEF Accepted
  <2> QED
    BY <1>2, <1>4, <2>2 DEF CheckInv, Shaped, Within
<1> QED
  BY <1>8, <1>9, <1>10, <1>11, <1>12, <1>13, <1>14 DEF CheckNext

LEMMA AcceptedIsSimple ==
  ASSUME CheckInv
  PROVE  GeometryIsSimple
<1>1. SUFFICES ASSUME Accepted PROVE GeometryIsSimple
  BY DEF GeometryIsSimple
<1>2. Simple(candidate)
  BY <1>1 DEF CheckInv
<1>3. \A i \in DOMAIN candidate.edits : candidate.edits[i].after \in Seq(Seq(Point))
  BY CandidateAssumption DEF CheckInv, Point
<1> DEFINE Fine(p) ==
             LET n == Len(p)  E(i) == <<p[i], successor(p, i)>> IN
             \A i, j \in 1..n : i < j =>
               IF j = i + 1 \/ (i = 1 /\ j = n)
               THEN LET k == IF j = i + 1 THEN i ELSE n  m == IF k = n THEN 1 ELSE k + 1
                        u == <<E(k)[2][1] - E(k)[1][1], E(k)[2][2] - E(k)[1][2]>>
                        w == <<E(m)[2][1] - E(m)[1][1], E(m)[2][2] - E(m)[1][2]>>
                    IN cross(u, w) # 0 \/ u[1] * w[1] + u[2] * w[2] > 0
               ELSE ~Meet(E(i)[1], E(i)[2], E(j)[1], E(j)[2])
<1>4. \A p \in Seq(Point) : Len(p) >= 3 /\ polygon_area2(p) # 0 /\ polygon_is_simple(p) => Fine(p)
  <2>1. TAKE p \in Seq(Point)
  <2>2. HAVE Len(p) >= 3 /\ polygon_area2(p) # 0 /\ polygon_is_simple(p)
  <2> QED
    BY <2>2, SimplePolygons
<1> HIDE DEF Fine
<1>5. \A e \in edits : \A p \in ToSet(e.after) : Fine(p)
  <2>1. TAKE e \in edits
  <2>2. TAKE p \in ToSet(e.after)
  <2>3. PICK i \in DOMAIN candidate.edits : e = candidate.edits[i]
    BY DEF edits, ToSet
  <2>4. p \in Seq(Point)
    <3>1. e.after \in Seq(Seq(Point))
      BY <1>3, <2>3
    <3>2. PICK j \in DOMAIN e.after : p = e.after[j]
      BY DEF ToSet
    <3> QED
      BY <3>1, <3>2
  <2>5. Len(p) >= 3 /\ polygon_area2(p) # 0 /\ polygon_is_simple(p)
    BY <1>2, <2>3 DEF Simple
  <2> QED
    BY <1>4, <2>4, <2>5
<1> QED
  BY <1>5 DEF GeometryIsSimple, Fine

LEMMA PiecesAreBoxes ==
  ASSUME CheckInv, Accepted, NEW i \in DOMAIN candidate.edits, candidate.edits[i].after # <<>>
  PROVE  BoxOf(candidate, i) \in Box
<1> DEFINE after == candidate.edits[i].after
           p == after[1]
<1>1. after \in Seq(Seq(Point)) /\ after # <<>>
  BY CandidateAssumption DEF CheckInv, Point
<1>2. Simple(candidate)
  BY DEF CheckInv
<1>3. 1 \in DOMAIN after
  <2>1. Len(after) \in Nat /\ Len(after) # 0 /\ DOMAIN after = 1..Len(after)
    BY <1>1, EmptySeq
  <2> QED
    BY <2>1
<1>4. p \in Seq(Point) /\ p \in ToSet(after)
  BY <1>1, <1>3 DEF ToSet
<1>5. Len(p) >= 3
  BY <1>2, <1>4 DEF Simple
<1> HIDE DEF p
<1>6. p # <<>>
  <2>1. SUFFICES ASSUME p = <<>> PROVE FALSE
    OBVIOUS
  <2>2. Len(p) = 0
    BY <2>1
  <2> QED
    BY <1>5, <2>2
<1>7. geometry_box(p) \in Box
  BY <1>4, <1>6, PolygonBoxes
<1> QED
  BY <1>7 DEF BoxOf, p

(* Pieces that all reach into the fragment and together end where the shape ends
   leave no gap between their extents outside the fragment.                    *)
LEMMA ExtentsMeet ==
  ASSUME CheckInv
  PROVE  OutsideIsSpanned
<1>1. SUFFICES ASSUME Accepted, decomposes, side_boxes # {} PROVE OutsideIsSpanned
  BY DEF OutsideIsSpanned
<1> DEFINE own == Added(candidate, {candidate.post.parent})
           r == CHOOSE i \in own : TRUE
           I == {r} \cup Added(candidate, {})
           g == [i \in I |-> BoxOf(candidate, i)]
           S == {g[i] : i \in I}
           f == fragment.box
           whole == object(parent_id).box
           x == long_axis(whole)
<1>2. Taken(candidate, given)
  BY <1>1 DEF CheckInv
<1>3. /\ f = given.fragments[candidate.post.fragment].box /\ whole = given.objects[candidate.post.parent].box
      /\ side_boxes = {BoxOf(candidate, i) : i \in Added(candidate, {})}
      /\ replacement_box = BoxOf(candidate, r)
  BY DEF fragment, object, parent_id, side_boxes, side_pieces, replacement_box, replacements, pieces_of, Added,
         operations, Edit, first_box, BoxOf
<1>4. /\ own # {} /\ intersects(replacement_box, f) /\ \A b \in side_boxes : intersects(b, f)
      /\ \A j \in {x, x + 2} : hull({replacement_box} \cup side_boxes)[j] = whole[j]
  BY <1>1, <1>2, <1>3 DEF Taken
<1>5. r \in own
  BY <1>4
<1>6. S = {replacement_box} \cup side_boxes
  BY <1>3
<1>7. f \in Box /\ whole \in Box
  <2>1. candidate.post.fragment \in DOMAIN given.fragments /\ candidate.post.parent \in DOMAIN given.objects
    BY <1>2 DEF Taken
  <2>2. /\ \A o \in DOMAIN given.objects : given.objects[o].box \in Box
        /\ \A q \in DOMAIN given.fragments : given.fragments[q].box \in Box
    BY CandidateAssumption DEF CheckInv, Box
  <2>3. /\ given.objects[candidate.post.parent].box \in Box
        /\ given.fragments[candidate.post.fragment].box \in Box
    BY <2>1, <2>2
  <2> QED
    BY <1>3, <2>3
<1> HIDE DEF f, whole, r
<1>8. PICK n \in Nat : DOMAIN candidate.edits = 1..n
  BY CandidateAssumption DEF CheckInv
<1>9. I \in SUBSET (1..n) /\ I # {}
  BY <1>5, <1>8 DEF Added
<1>10. \A i \in I : g[i] \in Box
  <2>1. TAKE i \in I
  <2>2. i \in DOMAIN candidate.edits /\ candidate.edits[i].after # <<>>
    BY <1>5 DEF Added
  <2> QED
    BY <1>1, <2>2, PiecesAreBoxes
<1> HIDE DEF I, g
<1>11. Spanned(hull(S), g, I)
  <2> DEFINE T == S
  <2>1. T = {g[i] : i \in I}
    OBVIOUS
  <2> HIDE DEF T
  <2>2. Spanned(hull(T), g, I)
    BY <1>9, <1>10, <2>1, Hulls
  <2> QED
    BY <2>2 DEF T
<1> DEFINE pieces == side_boxes \cup {replacement_box}
<1>12. \A i \in I : g[i] \in pieces
  BY <1>6
<1>13. \A b \in pieces : b \in Box /\ intersects(b, f)
  <2>1. \A b \in pieces : \E i \in I : b = g[i]
    BY <1>6
  <2> QED
    BY <1>4, <1>10, <2>1
<1>14. x \in {1, 2} /\ hull(S)[x] = whole[x] /\ hull(S)[x + 2] = whole[x + 2]
  BY <1>4, <1>6 DEF long_axis
<1> HIDE DEF pieces, S, x
<1>15. PICK left \in pieces : left[x] = whole[x]
  BY <1>11, <1>12, <1>14 DEF Spanned
<1>16. PICK right \in pieces : right[x + 2] = whole[x + 2]
  <2>1. 1 + 2 = 3 /\ 2 + 2 = 4
    OBVIOUS
  <2>2. CASE x = 1
    BY <1>11, <1>12, <1>14, <2>1, <2>2 DEF Spanned
  <2>3. CASE x = 2
    BY <1>11, <1>12, <1>14, <2>1, <2>3 DEF Spanned
  <2> QED
    BY <1>14, <2>2, <2>3
<1>17. \A b \in pieces \cup {f, whole} : b[x] \in Int /\ b[x + 2] \in Int
  <2>1. \A b \in Box : b[1] \in Int /\ b[2] \in Int /\ b[3] \in Int /\ b[4] \in Int
    BY DEF Box
  <2>2. x = 1 => x + 2 = 3
    OBVIOUS
  <2>3. x = 2 => x + 2 = 4
    OBVIOUS
  <2> QED
    BY <1>7, <1>13, <1>14, <2>1, <2>2, <2>3
<1>18. \A b \in pieces : b[x] <= f[x + 2] /\ f[x] <= b[x + 2]
  <2>1. \A b \in pieces : b[1] <= f[3] /\ f[1] <= b[3] /\ b[2] <= f[4] /\ f[2] <= b[4]
    BY <1>13 DEF intersects
  <2>2. x = 1 => x + 2 = 3
    OBVIOUS
  <2>3. x = 2 => x + 2 = 4
    OBVIOUS
  <2> QED
    BY <1>14, <2>1, <2>2, <2>3
<1> DEFINE lo(b) == b[x]
           hi(b) == b[x + 2]
<1>19. ASSUME NEW k \in lo(whole)..(hi(whole) - 1)
       PROVE  \/ lo(f) <= k /\ k + 1 <= hi(f)
              \/ \E b \in pieces : lo(b) <= k /\ k + 1 <= hi(b)
  <2>1. /\ lo(f) \in Int /\ hi(f) \in Int /\ lo(left) \in Int /\ hi(left) \in Int /\ lo(right) \in Int /\ hi(right) \in Int
        /\ lo(whole) \in Int /\ hi(whole) \in Int
    BY <1>17
  <2>2. /\ lo(left) = lo(whole) /\ lo(f) <= hi(left) /\ hi(right) = hi(whole) /\ lo(right) <= hi(f)
    BY <1>15, <1>16, <1>18
  <2> HIDE DEF lo, hi
  <2>3. k \in Int /\ lo(whole) <= k /\ k <= hi(whole) - 1
    BY <2>1
  <2>4. CASE k < lo(f)
    <3>1. lo(left) <= k /\ k + 1 <= hi(left)
      BY <2>1, <2>2, <2>3, <2>4
    <3> QED
      BY <3>1
  <2>5. CASE k + 1 > hi(f)
    <3>1. lo(right) <= k /\ k + 1 <= hi(right)
      BY <2>1, <2>2, <2>3, <2>5
    <3> QED
      BY <3>1
  <2>6. CASE lo(f) <= k /\ k + 1 <= hi(f)
    BY <2>6
  <2> QED
    BY <2>1, <2>3, <2>4, <2>5, <2>6
<1> QED
  BY <1>19 DEF OutsideIsSpanned, x, whole, f, pieces

(* The last claim on a resource is tested against the whole demand for it.       *)
LEMMA DemandIsMet ==
  ASSUME CheckInv
  PROVE  DemandFits
<1> DEFINE claims == candidate.claims
           N == Len(claims)
           On(n, r) == {i \in 1..n : claims[i].resource = r}
<1>1. SUFFICES ASSUME Accepted, NEW r \in DOMAIN given.capacities, given.capacities[r] # Unlimited,
                      \A c \in ToSet(claims) : c.resource = r => c.capacity = Unlimited
               PROVE  demand(N, r) <= given.capacities[r]
  BY DEF DemandFits
<1>2. N \in Nat /\ DOMAIN claims = 1..N /\ given.capacities[r] \in Nat
  <2>1. given.capacities[r] \in Nat \cup {Unlimited}
    BY <1>1, CandidateAssumption DEF CheckInv
  <2> QED
    BY <1>1, <2>1, CandidateAssumption DEF CheckInv
<1>3. Fits(candidate, given)
  BY <1>1 DEF CheckInv
<1>4. \A n, s : DemandOf(claims, n, s) = FoldSet(LAMBDA i, k : k + claims[i].amount, 0, On(n, s))
  BY Zenon DEF DemandOf
<1>5. demand(N, r) = DemandOf(claims, N, r)
  BY SameDemand
<1>6. \A i \in 1..N : claims[i] \in ToSet(claims)
  BY <1>2 DEF ToSet
<1> HIDE DEF claims, N
<1>7. CASE On(N, r) = {}
  <2>1. DemandOf(claims, N, r) = 0
    <3> DEFINE Def(f) == [T \in SUBSET On(N, r) |->
                            IF T = {} THEN 0 ELSE f[T \ {CHOOSE i \in T : TRUE}] + claims[CHOOSE i \in T : TRUE].amount]
               F == CHOOSE f : f = Def(f)
               h == [T \in SUBSET On(N, r) |-> 0]
    <3>1. DemandOf(claims, N, r) = F[On(N, r)]
      BY Zenon DEF DemandOf, FoldSet, MapThenFoldSet
    <3>2. h = Def(h)
      BY <1>7
    <3>3. F = Def(F)
      <4> HIDE DEF Def, h
      <4> QED
        BY <3>2
    <3>4. F[On(N, r)] = 0
      <4> HIDE DEF F
      <4> QED
        BY <1>7, <3>3
    <3> QED
      BY <3>1, <3>4
  <2> QED
    BY <1>2, <1>5, <2>1
<1>8. CASE On(N, r) # {}
  <2>1. PICK n \in On(N, r) : \A m \in On(N, r) : m <= n
    <3> DEFINE J == On(N, r)
               g == [i \in J |-> 0 - i]
    <3>1. J \in SUBSET (1..N) /\ \A i \in J : g[i] = 0 - i /\ g[i] \in Int /\ i \in Int
      OBVIOUS
    <3> HIDE DEF J, g
    <3>2. J # {}
      BY <1>8 DEF J
    <3>3. PICK x \in J : \A y \in J : g[x] <= g[y]
      BY <1>2, <3>1, <3>2, LeastIndex
    <3>4. \A y \in J : y <= x
      <4>1. TAKE y \in J
      <4>2. 0 - x <= 0 - y /\ x \in Int /\ y \in Int
        BY <3>1, <3>3
      <4> QED
        BY <4>2
    <3> QED
      BY <3>4 DEF J
  <2>2. n \in 1..N /\ claims[n].resource = r
    OBVIOUS
  <2>3. On(n, r) = On(N, r)
    <3>1. \A i \in 1..n : i \in 1..N
      BY <1>2, <2>2
    <3>2. \A i \in On(N, r) : i \in 1..n
      BY <1>2, <2>1, <2>2
    <3> QED
      BY <3>1, <3>2
  <2>4. DemandOf(claims, n, r) = DemandOf(claims, N, r)
    <3> HIDE DEF On
    <3>1. DemandOf(claims, n, r) = FoldSet(LAMBDA i, k : k + claims[i].amount, 0, On(n, r))
      BY <1>4
    <3>2. DemandOf(claims, N, r) = FoldSet(LAMBDA i, k : k + claims[i].amount, 0, On(N, r))
      BY <1>4
    <3> QED
      BY <2>3, <3>1, <3>2, Zenon
  <2>5. claims[n].capacity = Unlimited
    BY <1>1, <1>6, <2>2
  <2>6. DemandOf(claims, n, r) <= given.capacities[r]
    BY <1>1, <1>2, <1>3, <2>2, <2>5 DEF Fits, claims
  <2> QED
    BY <1>5, <2>4, <2>6
<1> QED
  BY <1>7, <1>8

(* What each level of CandidateChecker.validate leaves behind holds until the
   candidate is refused or accepted, and it is accepted only behind the last:
   the inductive invariant behind CandidatesSound.                             *)
THEOREM CheckInvariant == CheckSpec => []CheckInv
<1>1. CheckInit => CheckInv
  BY CheckInitHolds
<1>2. CheckInv /\ [CheckNext]_checkVars => CheckInv'
  BY CheckStep
<1> QED
  BY <1>1, <1>2, PTL DEF CheckSpec

(* A candidate that CandidateChecker.validate accepts can be written into the
   layout: its polygons meet themselves nowhere, although neighbouring edges are
   never compared; the extents of the pieces of a decomposition along the long axis
   of the shape leave no gap outside the fragment (no more than extents are
   compared); and the claims on a resource fit into it together.               *)
THEOREM CandidatesSound == CheckSpec => []CandidatesAreSound
<1>1. CheckInv => CandidatesAreSound
  BY AcceptedIsSimple, ExtentsMeet, DemandIsMet DEF CandidatesAreSound
<1> QED
  BY <1>1, CheckInvariant, PTL
=============================================================================
