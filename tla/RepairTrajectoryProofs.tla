----------------------- MODULE RepairTrajectoryProofs -----------------------
(***************************************************************************)
(* Proofs about the repair of one region, for any DOFs, proposals, plans   *)
(* and bounds: what is bound, searched, revised and left explained.        *)
(***************************************************************************)
EXTENDS RepairTrajectory, SequenceTheorems, WellFoundedInduction,
        FiniteSetTheorems, TLAPS

-----------------------------------------------------------------------------
(* Natural numbers: sets of them have a least element, and a set that holds 0
   and what follows each of its members holds all.                             *)

LEMMA LeastElement ==
  ASSUME NEW N \in SUBSET Nat, N # {}
  PROVE  \E n \in N : \A m \in N : n <= m
<1> DEFINE Below == OpToRel(<, Nat)
<1>1. IsWellFoundedOn(Below, Nat)
  BY NatLessThanWellFounded, Zenon
<1>2. \A x, y \in Nat : y < x => <<y, x>> \in Below
  BY DEF OpToRel
<1> HIDE DEF Below
<1>3. PICK n \in N : \A m \in N : ~(<<m, n>> \in Below)
  BY <1>1, WFMin
<1>4. \A m \in N : m \in Nat /\ n \in Nat /\ ~(m < n)
  BY <1>2, <1>3
<1>5. \A m \in N : n <= m
  BY <1>4
<1>6. QED
  BY <1>5

LEMMA NatSteps ==
  ASSUME NEW S, 0 \in S, \A n \in Nat : n \in S => n + 1 \in S
  PROVE  Nat \subseteq S
<1>1. SUFFICES ASSUME Nat \ S # {} PROVE FALSE
  OBVIOUS
<1>2. PICK x \in Nat \ S : \A y \in Nat \ S : x <= y
  <2>1. Nat \ S \in SUBSET Nat
    OBVIOUS
  <2>2. QED
    BY <1>1, <2>1, LeastElement
<1>3. x - 1 \in Nat /\ x - 1 < x
  BY <1>2
<1>4. x - 1 \in S
  BY <1>2, <1>3
<1>5. (x - 1) + 1 \in S
  BY <1>3, <1>4
<1>6. QED
  BY <1>2, <1>5

(* The recursive function of Among exists. *)
LEMMA AmongSteps ==
  ASSUME NEW T, NEW s \in Seq(T), NEW S
  PROVE  \E f : /\ f = [i \in 0..Len(s) |->
                    IF i = 0 THEN <<>>
                    ELSE IF s[i] \in S THEN Append(f[i - 1], s[i]) ELSE f[i - 1]]
                /\ Among(s, S) = f[Len(s)]
<1> DEFINE Def(f, n) == [i \in 0..n |->
               IF i = 0 THEN <<>>
               ELSE IF s[i] \in S THEN Append(f[i - 1], s[i]) ELSE f[i - 1]]
           Built == {n \in Nat : \E h : h = Def(h, n)}
<1>1. 0 \in Built
  <2>1. [i \in 0..0 |-> <<>>] = Def([i \in 0..0 |-> <<>>], 0)
    OBVIOUS
  <2>2. QED
    BY <2>1
<1>2. ASSUME NEW n \in Nat, n \in Built
      PROVE  n + 1 \in Built
  <2>1. PICK f : f = Def(f, n)
    BY <1>2
  <2> DEFINE g == [i \in 0..(n + 1) |->
                     IF i <= n THEN f[i]
                     ELSE IF s[n + 1] \in S THEN Append(f[n], s[n + 1]) ELSE f[n]]
  <2>2. \A i \in 0..(n + 1) : g[i] = Def(g, n + 1)[i]
    <3>1. TAKE i \in 0..(n + 1)
    <3>2. CASE i = 0
      BY <2>1, <3>2
    <3>3. CASE i # 0 /\ i <= n
      <4>1. i - 1 \in 0..n /\ i \in 0..n /\ i - 1 \in 0..(n + 1)
        BY <3>3
      <4>2. g[i] = f[i] /\ g[i - 1] = f[i - 1]
        BY <4>1
      <4>3. f[i] = IF s[i] \in S THEN Append(f[i - 1], s[i]) ELSE f[i - 1]
        BY <2>1, <3>3, <4>1
      <4>4. QED
        BY <3>1, <3>3, <4>2, <4>3
    <3>4. CASE i = n + 1
      <4>1. g[n] = f[n]
        OBVIOUS
      <4>2. g[i] = IF s[n + 1] \in S THEN Append(f[n], s[n + 1]) ELSE f[n]
        BY <3>4
      <4>3. QED
        BY <3>1, <3>4, <4>1, <4>2
    <3>5. QED
      BY <3>2, <3>3, <3>4
  <2>3. g = Def(g, n + 1)
    BY <2>2
  <2>4. \E f1 : f1 = Def(f1, n + 1)
    <3> HIDE DEF Def, g
    <3> QED BY <2>3
  <2>5. n + 1 \in Nat
    OBVIOUS
  <2>6. QED
    <3> HIDE DEF Def
    <3> QED BY <2>4, <2>5
<1>3. Len(s) \in Built
  <2>1. Nat \subseteq Built
    <3> HIDE DEF Built
    <3> QED BY <1>1, <1>2, NatSteps
  <2>2. Len(s) \in Nat
    BY LenProperties
  <2>3. QED
    <3> HIDE DEF Built
    <3> QED BY <2>1, <2>2
<1>4. PICK f : f = Def(f, Len(s))
  BY <1>3
<1> DEFINE F == CHOOSE h : h = Def(h, Len(s))
<1>5. F = Def(F, Len(s))
  <2> HIDE DEF Def
  <2> QED BY <1>4
<1>6. Among(s, S) = F[Len(s)]
  BY DEF Among
<1>7. QED
  BY <1>5, <1>6

(* Among keeps the elements of s that are in S, each place once. *)
LEMMA AmongFacts ==
  ASSUME NEW T, NEW s \in Seq(T), NEW S
  PROVE  /\ Among(s, S) \in Seq(T)
         /\ ToSet(Among(s, S)) = ToSet(s) \cap S
         /\ \E e \in [DOMAIN Among(s, S) -> DOMAIN s] :
               /\ \A i \in DOMAIN Among(s, S) : Among(s, S)[i] = s[e[i]]
               /\ \A i, j \in DOMAIN Among(s, S) : e[i] = e[j] => i = j
<1>1. PICK f : /\ f = [i \in 0..Len(s) |->
                         IF i = 0 THEN <<>>
                         ELSE IF s[i] \in S THEN Append(f[i - 1], s[i]) ELSE f[i - 1]]
               /\ Among(s, S) = f[Len(s)]
  BY AmongSteps
<1> DEFINE Good(n, e) ==
      /\ f[n] \in Seq(T)
      /\ e \in [1..Len(f[n]) -> 1..n]
      /\ \A k \in 1..Len(f[n]) : f[n][k] = s[e[k]] /\ f[n][k] \in S
      /\ \A k, l \in 1..Len(f[n]) : e[k] = e[l] => k = l
      /\ \A j \in 1..n : s[j] \in S => \E k \in 1..Len(f[n]) : e[k] = j
    Fine == {n \in Nat : n <= Len(s) => \E e : Good(n, e)}
<1>2. Len(s) \in Nat /\ DOMAIN s = 1..Len(s) /\ \A i \in 1..Len(s) : s[i] \in T
  BY LenProperties, ElementOfSeq
<1>3. 0 \in Fine
  <2>1. f[0] = <<>>
    BY <1>1, <1>2
  <2>2. Good(0, [k \in 1..0 |-> 0])
    BY <2>1
  <2>3. \E e : Good(0, e)
    <3> HIDE DEF Good
    <3> QED BY <2>2
  <2>4. QED
    BY <2>3
<1>4. ASSUME NEW n \in Nat, n \in Fine
      PROVE  n + 1 \in Fine
  <2>1. SUFFICES ASSUME n + 1 <= Len(s)
                 PROVE  \E e : Good(n + 1, e)
    <3> HIDE DEF Good
    <3> QED OBVIOUS
  <2>2. n <= Len(s) /\ n + 1 \in 1..Len(s) /\ n + 1 \in 0..Len(s) /\ s[n + 1] \in T
    BY <1>2, <2>1
  <2>3. PICK e : Good(n, e)
    <3> HIDE DEF Good
    <3> QED BY <1>4, <2>2
  <2>4. f[n + 1] = IF s[n + 1] \in S THEN Append(f[n], s[n + 1]) ELSE f[n]
    <3>1. n + 1 # 0 /\ (n + 1) - 1 = n
      OBVIOUS
    <3>2. QED
      BY <1>1, <2>2, <3>1
  <2>5. CASE s[n + 1] \notin S
    <3>1. f[n + 1] = f[n]
      BY <2>4, <2>5
    <3>2. e \in [1..Len(f[n]) -> 1..(n + 1)]
      BY <2>3
    <3>3. \A j \in 1..(n + 1) : s[j] \in S => j \in 1..n
      BY <2>5
    <3>4. Good(n + 1, e)
      BY <2>3, <3>1, <3>2, <3>3
    <3>5. QED
      <4> HIDE DEF Good
      <4> QED BY <3>4
  <2>6. CASE s[n + 1] \in S
    <3>1. f[n + 1] = Append(f[n], s[n + 1])
      BY <2>4, <2>6
    <3>2. f[n] \in Seq(T) /\ Len(f[n]) \in Nat
      BY <2>3, LenProperties
    <3>3. f[n + 1] \in Seq(T) /\ Len(f[n + 1]) = Len(f[n]) + 1
      BY <2>2, <3>1, <3>2, AppendProperties
    <3>4. /\ \A k \in 1..Len(f[n]) : f[n + 1][k] = f[n][k]
          /\ f[n + 1][Len(f[n]) + 1] = s[n + 1]
      <4> DEFINE t == f[n]
                 x == s[n + 1]
      <4>1. t \in Seq(T) /\ x \in T /\ f[n + 1] = Append(t, x)
        BY <2>2, <3>1, <3>2
      <4> HIDE DEF t, x
      <4>2. /\ \A k \in 1..Len(t) : Append(t, x)[k] = t[k]
            /\ Append(t, x)[Len(t) + 1] = x
        BY <4>1, AppendProperties
      <4>3. QED
        BY <4>1, <4>2 DEF t, x
    <3> DEFINE e1 == [k \in 1..(Len(f[n]) + 1) |-> IF k <= Len(f[n]) THEN e[k] ELSE n + 1]
    <3>5. /\ \A k \in 1..Len(f[n]) : e1[k] = e[k] /\ e[k] \in 1..n
          /\ e1[Len(f[n]) + 1] = n + 1
      <4>1. e \in [1..Len(f[n]) -> 1..n]
        BY <2>3
      <4> HIDE DEF Good, Fine
      <4>2. \A k \in 1..Len(f[n]) : e1[k] = e[k]
        BY <3>2
      <4>3. e1[Len(f[n]) + 1] = n + 1
        BY <3>2
      <4>4. QED
        BY <4>1, <4>2, <4>3
    <3>6. e1 \in [1..Len(f[n + 1]) -> 1..(n + 1)]
      BY <2>3, <3>2, <3>3
    <3> HIDE DEF e1
    <3>7. \A k \in 1..Len(f[n + 1]) : k \in 1..Len(f[n]) \/ k = Len(f[n]) + 1
      BY <3>2, <3>3
    <3>8. \A k \in 1..Len(f[n + 1]) : f[n + 1][k] = s[e1[k]] /\ f[n + 1][k] \in S
      BY <2>3, <2>6, <3>4, <3>5, <3>7
    <3>9. \A k, l \in 1..Len(f[n + 1]) : e1[k] = e1[l] => k = l
      <4>1. \A k, l \in 1..Len(f[n]) : e[k] = e[l] => k = l
        BY <2>3
      <4> HIDE DEF Good, Fine
      <4>2. TAKE k, l \in 1..Len(f[n + 1])
      <4>3. HAVE e1[k] = e1[l]
      <4>4. CASE k \in 1..Len(f[n]) /\ l \in 1..Len(f[n])
        BY <3>5, <4>1, <4>3, <4>4
      <4>5. CASE k = Len(f[n]) + 1 /\ l \in 1..Len(f[n])
        BY <3>5, <4>3, <4>5
      <4>6. CASE l = Len(f[n]) + 1 /\ k \in 1..Len(f[n])
        BY <3>5, <4>3, <4>6
      <4>7. QED
        BY <3>7, <4>4, <4>5, <4>6
    <3>10. \A j \in 1..(n + 1) : s[j] \in S => \E k \in 1..Len(f[n + 1]) : e1[k] = j
      <4>1. TAKE j \in 1..(n + 1)
      <4>2. HAVE s[j] \in S
      <4>3. CASE j = n + 1
        BY <3>2, <3>3, <3>5, <4>3
      <4>4. CASE j \in 1..n
        <5>1. PICK k \in 1..Len(f[n]) : e[k] = j
          BY <2>3, <4>2, <4>4
        <5>2. k \in 1..Len(f[n + 1]) /\ e1[k] = j
          BY <3>2, <3>3, <3>5, <5>1
        <5>3. QED
          BY <5>2
      <4>5. QED
        BY <4>3, <4>4
    <3>11. Good(n + 1, e1)
      BY <3>3, <3>6, <3>8, <3>9, <3>10
    <3>12. QED
      <4> HIDE DEF Good
      <4> QED BY <3>11
  <2>7. QED
    BY <2>5, <2>6
<1>5. \E e : Good(Len(s), e)
  <2>1. Nat \subseteq Fine
    <3> HIDE DEF Fine
    <3> QED BY <1>3, <1>4, NatSteps
  <2>2. Len(s) \in Fine
    BY <1>2, <2>1
  <2>3. QED
    <3> HIDE DEF Good
    <3> QED BY <1>2, <2>2
<1>6. PICK e : Good(Len(s), e)
  <2> HIDE DEF Good
  <2> QED BY <1>5
<1>7. Among(s, S) \in Seq(T) /\ DOMAIN Among(s, S) = 1..Len(Among(s, S))
  BY <1>1, <1>6, LenProperties
<1> DEFINE t == Among(s, S)
<1>8. /\ e \in [DOMAIN t -> DOMAIN s]
      /\ \A k \in DOMAIN t : t[k] = s[e[k]] /\ t[k] \in S
      /\ \A k, l \in DOMAIN t : e[k] = e[l] => k = l
      /\ \A j \in DOMAIN s : s[j] \in S => \E k \in DOMAIN t : e[k] = j
  BY <1>1, <1>2, <1>6, <1>7
<1> HIDE DEF Good, Fine, t
<1>9. ToSet(t) = ToSet(s) \cap S
  BY <1>8 DEF ToSet
<1>10. QED
  BY <1>7, <1>8, <1>9 DEF t

-----------------------------------------------------------------------------
(* The inductive invariant. *)

Unbound == {"symbolic", "finalize", "bind", "rebind"}
Searching == {"proposal", "search", "condense", "revise"}
Ended == {"returned", "raised"}
Phases == Unbound \cup {"preferred", "revise preferred", "target"}
                  \cup Searching \cup Ended

FeedbackKinds == {"PREFERRED_DOF_INFEASIBLE", "PHYSICAL_CONSTRAINT_FAILURE",
                  "DEPTH_EXTENSION_AVAILABLE"}
FailureCodes ==
  {"FORMAL_PHASE3_CONTEXT_FAIL", "FORMAL_TRAJECTORY_EXECUTION_FAIL",
   "ROOT_PROPOSAL_UNAVAILABLE", "ROOT_PROPOSAL_UNAVAILABLE_AFTER_REVISION",
   "TRAJECTORY_FAIL", "REVISION_LIMIT_REACHED", "REVISION_DECLINED",
   "INVALID_EXECUTION_REVISION", "PLAN_SCHEMA_REJECTED", "LLM_PLAN_UNBINDABLE",
   "DEFERRED_BUDGET", "KERNEL_NO_CANDIDATE"}
BoundType ==
  [id : Nat, targets : Seq(Violations), allowed : SUBSET Dofs,
   forbidden : SUBSET Dofs, ops : 1..MaxOps, other : Nat, depth : Nat]
SearchType ==
  [v : Violations, id : Nat, dofs : SUBSET Dofs, plan : BoundType,
   revision : Nat, dir : {0, 1}]

TypeOK ==
  /\ world \in Worlds /\ pc \in Phases
  /\ plan \in PlanType /\ answers \in Nat /\ bound \in BoundType
  /\ cache \in [Violations -> Seq(OptionType)]
  /\ queue \in Seq(Violations) /\ todo \in Seq(OptionType)
  /\ current \in OptionType \cup {NoProposal}
  /\ retry \in BOOLEAN /\ alarm \in BOOLEAN
  /\ feedback \in [kind : FeedbackKinds \cup {"none"}, sets : SUBSET OptionType]
  /\ counts \in [Violations -> [{"PHYSICAL_CONSTRAINT_FAILURE",
                                 "DEPTH_EXTENSION_AVAILABLE"} -> Nat]]
  /\ live \in 0..LiveBudget
  /\ candidates \in Seq([v : Violations, dofs : SUBSET Dofs, evidence : BOOLEAN])
  /\ failures \subseteq FailureCodes \X (Violations \cup {Region})
  /\ searches \subseteq SearchType /\ started \in Nat

Distinct(s) == \A i, j \in DOMAIN s : s[i] = s[j] => i = j
DistinctIds(s) == \A i, j \in DOMAIN s : s[i].id = s[j].id => i = j
Avoids(s, F) == \A i \in DOMAIN s : s[i].dofs \cap F = {}

(* From the first binding on, the bound plan is the binding of the current plan,
   and no proposal in reach moves a DOF it forbids.                            *)
Adopted ==
  pc \notin Unbound \cup Ended =>
    /\ bound = BoundKernelPlan(plan)
    /\ \A v \in Violations : DistinctIds(cache[v]) /\ Avoids(cache[v], bound.forbidden)
    /\ pc \in Searching => DistinctIds(todo) /\ Avoids(todo, bound.forbidden)

(* A revision is asked for with the feedback of its site; the alternatives shown
   are proposals for one of the selected violations.                           *)
Asked ==
  /\ pc = "revise preferred" =>
       /\ feedback.kind = "PREFERRED_DOF_INFEASIBLE"
       /\ \A o \in feedback.sets :
            /\ o \in ToSet(world.options)
            /\ o.dofs \subseteq DofsOf(Selected(plan))
  /\ pc = "revise" => feedback.kind \in FeedbackKinds \ {"PREFERRED_DOF_INFEASIBLE"}

(* The searches so far, against the plans received so far. *)
Recorded ==
  /\ ForbiddenRespected /\ RevisionNamesOnePlan
  /\ IsFiniteSet(searches) /\ SharedOnlyByAlternation
  /\ \A s \in searches :
       s.revision < answers /\ (s.revision = answers - 1 => s.plan = bound)
  /\ pc \notin Ended \cup {"symbolic"} => answers > 0
  /\ pc \in Unbound => searches = {}

(* The searches so far, against the violations and the proposals still to come. *)
Fresh ==
  /\ Distinct(queue)
  /\ pc \in Unbound \cup {"preferred", "revise preferred"} => searches = {}
  /\ pc = "target" => \A s \in searches : s.v \notin ToSet(queue)
  /\ pc \in Searching =>
       /\ queue # <<>> /\ todo # <<>>
       /\ \A s \in searches : s.v \notin ToSet(Tail(queue))
       /\ \A s \in searches :
            s.v = Head(queue) /\ s.dir = 0 =>
              /\ \A i \in DOMAIN todo : i > 1 => s.id # todo[i].id
              /\ pc = "proposal" => s.id # todo[1].id

(* Every selected violation is still to be visited or explained. *)
Visited ==
  /\ pc \notin Ended =>
       /\ \A f \in failures : f[2] # Region
       /\ Len(candidates) <= MaxCandidates
       /\ queue # <<>> \/ pc \in Unbound => Len(candidates) < MaxCandidates
  /\ pc \notin Unbound \cup Ended =>
       \A v \in Selected(plan) : v \in ToSet(queue) \/ Explained(v)
  /\ EveryTargetExplained

IInv == TypeOK /\ Adopted /\ Asked /\ Recorded /\ Fresh /\ Visited

-----------------------------------------------------------------------------
(* Sequences taken apart from the head. *)

LEMMA HeadTail ==
  ASSUME NEW T, NEW q \in Seq(T), q # <<>>
  PROVE  /\ Head(q) \in T /\ Head(q) = q[1] /\ 1 \in DOMAIN q
         /\ Tail(q) \in Seq(T)
         /\ \A i \in DOMAIN Tail(q) : i \in Nat \ {0} /\ i + 1 \in DOMAIN q /\ Tail(q)[i] = q[i + 1]
         /\ \A i \in DOMAIN q : i = 1 \/ (i - 1 \in DOMAIN Tail(q) /\ Tail(q)[i - 1] = q[i])
         /\ Tail(q) = <<>> <=> Len(q) = 1
<1>1. Len(q) \in Nat \ {0} /\ DOMAIN q = 1..Len(q) /\ \A i \in 1..Len(q) : q[i] \in T
  BY EmptySeq, LenProperties, ElementOfSeq
<1>2. /\ Head(q) = q[1] /\ Tail(q) \in Seq(T) /\ Len(Tail(q)) = Len(q) - 1
      /\ \A i \in 1..Len(Tail(q)) : Tail(q)[i] = q[i + 1]
  BY HeadTailProperties
<1>3. DOMAIN Tail(q) = 1..(Len(q) - 1)
  BY <1>2, LenProperties
<1>4. Tail(q) = <<>> <=> Len(q) = 1
  <2> DEFINE t == Tail(q)
  <2>1. t \in Seq(T) /\ Len(t) = Len(q) - 1
    BY <1>2
  <2> HIDE DEF t
  <2>2. t = <<>> <=> Len(t) = 0
    BY <2>1, EmptySeq
  <2>3. QED
    BY <1>1, <2>1, <2>2 DEF t
<1>5. \A i \in DOMAIN q : i = 1 \/ (i - 1 \in DOMAIN Tail(q) /\ Tail(q)[i - 1] = q[i])
  <2>1. TAKE i \in DOMAIN q
  <2>2. CASE i # 1
    <3>1. i - 1 \in 1..Len(Tail(q)) /\ (i - 1) + 1 = i
      BY <1>1, <1>2, <2>1, <2>2
    <3>2. Tail(q)[i - 1] = q[(i - 1) + 1]
      BY <1>2, <3>1
    <3>3. QED
      BY <1>2, <1>3, <3>1, <3>2
  <2>3. QED
    BY <2>2
<1>6. QED
  BY <1>1, <1>2, <1>3, <1>4, <1>5

LEMMA QueueTail ==
  ASSUME NEW q \in Seq(Violations), q # <<>>
  PROVE  /\ ToSet(q) = {Head(q)} \cup ToSet(Tail(q))
         /\ Distinct(q) => Distinct(Tail(q)) /\ Head(q) \notin ToSet(Tail(q))
<1>1. ToSet(q) = {Head(q)} \cup ToSet(Tail(q))
  <2>1. \A x \in ToSet(q) : x = Head(q) \/ x \in ToSet(Tail(q))
    <3>1. TAKE x \in ToSet(q)
    <3>2. PICK i \in DOMAIN q : x = q[i]
      BY <3>1 DEF ToSet
    <3>3. i = 1 \/ (i - 1 \in DOMAIN Tail(q) /\ Tail(q)[i - 1] = q[i])
      BY HeadTail
    <3>4. q[1] = Head(q)
      BY HeadTail
    <3>5. QED
      BY <3>2, <3>3, <3>4 DEF ToSet
  <2>2. Head(q) \in ToSet(q)
    BY HeadTail DEF ToSet
  <2>3. \A x \in ToSet(Tail(q)) : x \in ToSet(q)
    <3>1. \A i \in DOMAIN Tail(q) : i + 1 \in DOMAIN q /\ Tail(q)[i] = q[i + 1]
      BY HeadTail
    <3>2. QED
      BY <3>1 DEF ToSet
  <2>4. QED
    BY <2>1, <2>2, <2>3
<1>2. ASSUME Distinct(q)
      PROVE  Distinct(Tail(q)) /\ Head(q) \notin ToSet(Tail(q))
  BY <1>2, HeadTail DEF Distinct, ToSet
<1>3. QED
  BY <1>1, <1>2

LEMMA TodoTail ==
  ASSUME NEW q \in Seq(OptionType), q # <<>>, NEW F
  PROVE  /\ DistinctIds(q) => DistinctIds(Tail(q))
         /\ Avoids(q, F) => Avoids(Tail(q), F)
<1>1. ASSUME DistinctIds(q)
      PROVE  DistinctIds(Tail(q))
  <2>1. SUFFICES ASSUME NEW i \in DOMAIN Tail(q), NEW j \in DOMAIN Tail(q),
                        Tail(q)[i].id = Tail(q)[j].id
                 PROVE  i = j
    BY DEF DistinctIds
  <2>3. i + 1 \in DOMAIN q /\ j + 1 \in DOMAIN q /\ q[i + 1].id = q[j + 1].id
    BY <2>1, HeadTail
  <2>4. i + 1 = j + 1 /\ i \in Nat /\ j \in Nat
    BY <1>1, <2>3, HeadTail DEF DistinctIds
  <2>5. QED
    BY <2>4
<1>2. ASSUME Avoids(q, F)
      PROVE  Avoids(Tail(q), F)
  BY <1>2, HeadTail DEF Avoids
<1>3. QED
  BY <1>1, <1>2

-----------------------------------------------------------------------------
(* What the binding, the builder of proposals and the validator return. *)

(* No DOF the plan forbids is left to the search. *)
LEMMA BindingFacts ==
  ASSUME NEW p \in PlanType
  PROVE  /\ BoundKernelPlan(p) \in BoundType
         /\ BoundKernelPlan(p).allowed \cap BoundKernelPlan(p).forbidden = {}
         /\ BoundKernelPlan(p).forbidden = p.forbidden
         /\ BoundKernelPlan(p).targets = p.targets
         /\ BoundKernelPlan(p).ops = p.ops
         /\ BoundKernelPlan(p).depth = IF p.depth < MaxDepth THEN p.depth ELSE MaxDepth
<1>1. AllowedDofs(p) \in SUBSET Dofs /\ AllowedDofs(p) \cap p.forbidden = {}
  BY DEF AllowedDofs, DofsOf, PlanType
<1>2. QED
  BY <1>1, TrajectoryAssumption DEF BoundKernelPlan, BoundType, PlanType

(* The violations of V in region order, each once. *)
LEMMA InOrderFacts ==
  ASSUME NEW V \in SUBSET Violations
  PROVE  /\ InOrder(V) \in Seq(Violations)
         /\ ToSet(InOrder(V)) = V
         /\ Distinct(InOrder(V))
<1>1. RegionOrder \in Seq(Violations) /\ ToSet(RegionOrder) = Violations /\ Distinct(RegionOrder)
  BY TrajectoryAssumption DEF Distinct
<1> DEFINE t == Among(RegionOrder, V)
<1>2. PICK e \in [DOMAIN t -> DOMAIN RegionOrder] :
          /\ \A i \in DOMAIN t : t[i] = RegionOrder[e[i]]
          /\ \A i, j \in DOMAIN t : e[i] = e[j] => i = j
  BY <1>1, AmongFacts
<1>3. t \in Seq(Violations) /\ ToSet(t) = ToSet(RegionOrder) \cap V
  BY <1>1, AmongFacts
<1>6. ToSet(t) = V
  BY <1>1, <1>3
<1> HIDE DEF t
<1>4. Distinct(t)
  BY <1>1, <1>2 DEF Distinct
<1>5. QED
  BY <1>3, <1>4, <1>6 DEF InOrder, t

(* A violation's proposals fit the binding and have ids of their own. *)
LEMMA RootsFacts ==
  ASSUME world \in Worlds, NEW v \in Violations, NEW b \in BoundType
  PROVE  /\ Roots(v, b) \in Seq(OptionType)
         /\ DistinctIds(Roots(v, b))
         /\ \A i \in DOMAIN Roots(v, b) :
              /\ Roots(v, b)[i] \in ToSet(world.options)
              /\ Fits(Roots(v, b)[i], v, b)
<1>1. CASE v \in world.broken
  BY <1>1, EmptySeq DEF Roots, DistinctIds
<1>2. CASE v \notin world.broken
  <2> DEFINE opts == world.options
             S == {o \in ToSet(opts) : Fits(o, v, b)}
             t == Among(opts, S)
  <2>1. opts \in Seq(OptionType) /\ DistinctIds(opts)
    BY TrajectoryAssumption DEF WorldType, DistinctIds
  <2>4. Roots(v, b) = t
    BY <1>2 DEF Roots
  <2> HIDE DEF opts
  <2>8. S \subseteq ToSet(opts) /\ \A o \in S : Fits(o, v, b)
    OBVIOUS
  <2> HIDE DEF S
  <2>2. PICK e \in [DOMAIN t -> DOMAIN opts] :
          /\ \A i \in DOMAIN t : t[i] = opts[e[i]]
          /\ \A i, j \in DOMAIN t : e[i] = e[j] => i = j
    BY <2>1, AmongFacts
  <2>3. t \in Seq(OptionType) /\ ToSet(t) = ToSet(opts) \cap S
    BY <2>1, AmongFacts
  <2> HIDE DEF t
  <2>5. DistinctIds(t)
    BY <2>1, <2>2 DEF DistinctIds
  <2>6. \A i \in DOMAIN t : t[i] \in S
    BY <2>3 DEF ToSet
  <2>7. QED
    BY <2>3, <2>4, <2>5, <2>6, <2>8 DEF opts
<1>3. QED
  BY <1>1, <1>2

(* The operations proved for some alternatives are what one of them needs. *)
LEMMA ProvedOpsFacts ==
  ASSUME NEW S \in SUBSET OptionType, S # {}
  PROVE  ProvedOps(S) \in 1..MaxOps /\ \E o \in S : o.need = ProvedOps(S)
<1> DEFINE N == {o.need : o \in S}
<1>1. N \in SUBSET Nat /\ N # {} /\ \A o \in S : o.need \in 1..MaxOps
  BY TrajectoryAssumption DEF OptionType
<1>2. \E n \in N : \A m \in N : n <= m
  <2> HIDE DEF N
  <2> QED BY <1>1, LeastElement
<1>3. \E n \in N : \A o \in S : n <= o.need
  BY <1>2
<1>4. ProvedOps(S) \in N
  BY <1>3 DEF ProvedOps
<1>5. QED
  BY <1>1, <1>4

(* What a permitted revision leaves alone. *)
LEMMA PermittedFacts ==
  ASSUME NEW old \in PlanType, NEW new \in PlanType, NEW kind \in FeedbackKinds,
         NEW sets, Permitted(kind, old, new, sets)
  PROVE  /\ new.targets = old.targets
         /\ kind # "PREFERRED_DOF_INFEASIBLE" => new.forbidden = old.forbidden
         /\ kind = "PREFERRED_DOF_INFEASIBLE" => PreferredProved(old, new, sets)
         /\ new.depth = old.depth \/ new.depth \in old.depth..MaxDepth
<1>1. \A f \in Immutable(kind) : old[f] = new[f]
  BY DEF Permitted, InScope
<1>2. "targets" \in Immutable(kind)
  BY DEF Immutable, FeedbackKinds
<1>3. kind # "PREFERRED_DOF_INFEASIBLE" => "forbidden" \in Immutable(kind)
  BY DEF Immutable, FeedbackKinds
<1>4. kind # "DEPTH_EXTENSION_AVAILABLE" => "depth" \in Immutable(kind)
  BY DEF Immutable, FeedbackKinds
<1>5. old["targets"] = new["targets"]
  BY <1>1, <1>2
<1>6. kind # "PREFERRED_DOF_INFEASIBLE" => old["forbidden"] = new["forbidden"]
  BY <1>1, <1>3
<1>7. kind # "DEPTH_EXTENSION_AVAILABLE" => old["depth"] = new["depth"]
  BY <1>1, <1>4
<1>8. QED
  BY <1>5, <1>6, <1>7 DEF Permitted

(* A revision that answers infeasible preferred DOFs, once it binds, leaves one of
   the alternatives it was shown to the search.                                *)
LEMMA AlternativeStaysOpen ==
  ASSUME TypeOK, NEW new \in PlanType, NEW sets \in SUBSET OptionType,
         new.targets = plan.targets,
         \A o \in sets : o.dofs \subseteq DofsOf(Selected(plan)),
         PreferredProved(plan, new, sets), Binds(new)
  PROVE  \E o \in sets : o.dofs \subseteq BoundKernelPlan(new).allowed /\ o.need <= new.ops
<1> DEFINE V == Viable(new, sets)
<1>1. V \in SUBSET OptionType /\ V # {} /\ V \subseteq sets
  BY DEF PreferredProved, Viable
<1>2. PICK o \in V : o.need = ProvedOps(V) /\ ProvedOps(V) \in 1..MaxOps
  <2> HIDE DEF V
  <2> QED BY <1>1, ProvedOpsFacts
<1>3. o.need <= new.ops
  BY <1>2 DEF PreferredProved, PlanType
<1>4. BoundKernelPlan(new).allowed = AllowedDofs(new)
  BY DEF BoundKernelPlan
<1>5. Selected(new) = Selected(plan)
  BY DEF Selected
<1>6. CASE new.preferred # {}
  <2>1. o.dofs = new.preferred
    BY <1>2, <1>6 DEF Viable
  <2>2. o.dofs \cap new.forbidden = {}
    BY <2>1 DEF Binds
  <2>3. o.dofs \subseteq AllowedDofs(new)
    BY <1>1, <1>2, <1>5, <2>1, <2>2 DEF AllowedDofs
  <2>4. QED
    BY <1>1, <1>2, <1>3, <1>4, <2>3
<1>7. CASE new.preferred = {}
  <2>1. o.dofs \cap new.forbidden = {}
    BY <1>2, <1>7 DEF Viable
  <2>2. o.dofs \subseteq AllowedDofs(new)
    BY <1>1, <1>2, <1>5, <1>7, <2>1 DEF AllowedDofs
  <2>3. QED
    BY <1>1, <1>2, <1>3, <1>4, <2>2
<1>8. QED
  BY <1>6, <1>7

-----------------------------------------------------------------------------
(* Type correctness. *)

LEMMA RootCacheType ==
  ASSUME world \in Worlds, NEW b \in BoundType
  PROVE  /\ RootCache(b) \in [Violations -> Seq(OptionType)]
         /\ \A v \in Violations : RootCache(b)[v] = Roots(v, b)
BY RootsFacts DEF RootCache

(* The alternatives of a target are executable proposals for its own scene. *)
LEMMA AlternativesFacts ==
  ASSUME world \in Worlds, NEW p \in PlanType, NEW b \in BoundType, NEW v \in Violations
  PROVE  /\ Alternatives(v, p, b) \in SUBSET OptionType
         /\ \A o \in Alternatives(v, p, b) :
              o \in ToSet(world.options) /\ o.dofs \subseteq DofsOf({v})
<1>1. ASSUME NEW n \in 1..MaxOps
      PROVE  \A o \in Probe(v, b, n) : /\ o \in OptionType
                                      /\ o \in ToSet(world.options)
                                      /\ o.dofs \subseteq DofsOf({v})
  <2> DEFINE c == [b EXCEPT !.allowed = DofsOf({v}), !.forbidden = {}, !.ops = n]
  <2>1. c \in BoundType
    BY DEF BoundType, DofsOf
  <2>2. c.allowed = DofsOf({v})
    BY DEF BoundType
  <2>3. Probe(v, b, n) = ToSet(Roots(v, c))
    BY DEF Probe
  <2> HIDE DEF c
  <2>4. Roots(v, c) \in Seq(OptionType)
    BY <2>1, RootsFacts
  <2>5. \A i \in DOMAIN Roots(v, c) : /\ Roots(v, c)[i] \in OptionType
                                     /\ Roots(v, c)[i] \in ToSet(world.options)
                                     /\ Roots(v, c)[i].dofs \subseteq DofsOf({v})
    BY <2>1, <2>2, <2>4, RootsFacts, LenProperties, ElementOfSeq DEF Fits
  <2>6. QED
    BY <2>3, <2>5 DEF ToSet
<1>2. p.ops \in 1..MaxOps /\ MaxOps \in 1..MaxOps
  BY TrajectoryAssumption DEF PlanType
<1>3. \A o \in Alternatives(v, p, b) : o \in Probe(v, b, p.ops) \/ o \in Probe(v, b, MaxOps)
  BY DEF Alternatives
<1>4. QED
  BY <1>1, <1>2, <1>3

LEMMA TypeInit == Init => TypeOK
<1>1. SUFFICES ASSUME Init PROVE TypeOK
  OBVIOUS
<1>2. NoPlan \in PlanType
  <2>1. <<>> \in Seq(Violations)
    BY EmptySeq
  <2>2. 1 \in 1..MaxOps
    BY TrajectoryAssumption
  <2>3. QED
    BY <2>1, <2>2 DEF NoPlan, PlanType
<1>3. bound \in BoundType
  BY <1>1, <1>2, BindingFacts DEF Init
<1>4. failures \subseteq FailureCodes \X (Violations \cup {Region})
  <2>1. world.supported \subseteq Violations
    BY <1>1, TrajectoryAssumption DEF Init, WorldType
  <2>2. \A f \in failures : \E v \in Violations : f = <<"FORMAL_PHASE3_CONTEXT_FAIL", v>>
    BY <1>1, <2>1 DEF Init
  <2>3. QED
    BY <2>2 DEF FailureCodes
<1>5. /\ cache \in [Violations -> Seq(OptionType)]
      /\ queue \in Seq(Violations) /\ todo \in Seq(OptionType)
      /\ candidates \in Seq([v : Violations, dofs : SUBSET Dofs, evidence : BOOLEAN])
  BY <1>1, EmptySeq DEF Init
<1>6. live \in 0..LiveBudget /\ answers \in Nat /\ started \in Nat
  BY <1>1, TrajectoryAssumption DEF Init
<1>7. /\ world \in Worlds /\ pc \in Phases /\ current \in OptionType \cup {NoProposal}
      /\ feedback \in [kind : FeedbackKinds \cup {"none"}, sets : SUBSET OptionType]
      /\ counts \in [Violations -> [{"PHYSICAL_CONSTRAINT_FAILURE",
                                     "DEPTH_EXTENSION_AVAILABLE"} -> Nat]]
      /\ searches \subseteq SearchType /\ retry \in BOOLEAN /\ alarm \in BOOLEAN
      /\ plan = NoPlan
  BY <1>1 DEF Init, Phases, Unbound, NoFeedback
<1>8. QED
  BY <1>2, <1>3, <1>4, <1>5, <1>6, <1>7 DEF TypeOK

LEMMA BindingType ==
  ASSUME TypeOK, NEW p \in Plans
  PROVE  /\ p \in PlanType /\ BoundKernelPlan(p) \in BoundType
         /\ RootCache(BoundKernelPlan(p)) \in [Violations -> Seq(OptionType)]
         /\ InOrder(Selected(p)) \in Seq(Violations)
         /\ Selected(p) \in SUBSET Violations
<1>1. p \in PlanType
  BY TrajectoryAssumption
<1>2. Selected(p) \in SUBSET Violations
  BY <1>1, LenProperties, ElementOfSeq DEF PlanType, Selected, ToSet
<1>3. QED
  BY <1>1, <1>2, BindingFacts, RootCacheType, InOrderFacts DEF TypeOK

(* What the shared endings of the loops do to the types. *)
LEMMA ReturnType ==
  ASSUME TypeOK, NEW code \in FailureCodes, Return(code)
  PROVE  /\ pc' \in Phases /\ queue' \in Seq(Violations) /\ todo' \in Seq(OptionType)
         /\ current' \in OptionType \cup {NoProposal} /\ retry' \in BOOLEAN
         /\ counts' = counts /\ live' = live /\ searches' = searches /\ started' = started
         /\ candidates' \in Seq([v : Violations, dofs : SUBSET Dofs, evidence : BOOLEAN])
         /\ failures' \subseteq FailureCodes \X (Violations \cup {Region})
<1>1. candidates' \in Seq([v : Violations, dofs : SUBSET Dofs, evidence : BOOLEAN])
  BY EmptySeq DEF Return
<1>2. <<code, Region>> \in FailureCodes \X (Violations \cup {Region})
  OBVIOUS
<1>3. failures' \subseteq FailureCodes \X (Violations \cup {Region})
  BY <1>2 DEF Return, TypeOK
<1>4. QED
  BY <1>1, <1>3 DEF Return, TypeOK, Phases, Ended

LEMMA LeaveType ==
  ASSUME TypeOK, queue # <<>>, NEW stop, NextTarget(stop)
  PROVE  /\ pc' \in Phases /\ queue' \in Seq(Violations) /\ todo' \in Seq(OptionType)
         /\ current' \in OptionType \cup {NoProposal} /\ retry' \in BOOLEAN
BY HeadTail, EmptySeq DEF NextTarget, TypeOK, Phases

LEMMA FailType ==
  ASSUME TypeOK, queue # <<>>, NEW code \in FailureCodes, Fail(code)
  PROVE  failures' \subseteq FailureCodes \X (Violations \cup {Region})
<1>1. Head(queue) \in Violations
  BY HeadTail DEF TypeOK
<1>2. QED
  BY <1>1 DEF Fail, TypeOK

LoopType ==
  /\ pc \in Phases /\ queue \in Seq(Violations) /\ todo \in Seq(OptionType)
  /\ current \in OptionType \cup {NoProposal} /\ retry \in BOOLEAN
  /\ candidates \in Seq([v : Violations, dofs : SUBSET Dofs, evidence : BOOLEAN])
  /\ failures \subseteq FailureCodes \X (Violations \cup {Region})
  /\ searches \subseteq SearchType /\ started \in Nat

LEMMA GiveUpType ==
  ASSUME TypeOK, queue # <<>>, NEW code \in FailureCodes, GiveUp(code)
  PROVE  LoopType'
BY LeaveType, FailType DEF GiveUp, TypeOK, LoopType

LEMMA NextProposalType ==
  ASSUME TypeOK, queue # <<>>, todo # <<>>, NEW code \in FailureCodes, NextProposal(code)
  PROVE  LoopType'
<1>1. CASE Len(todo) > 1
  <2>1. /\ Fail(code) /\ todo' = Tail(todo) /\ current' = NoProposal /\ retry' = FALSE
        /\ pc' = "proposal" /\ UNCHANGED <<queue, candidates, searches, started>>
    BY <1>1 DEF NextProposal
  <2>2. failures' \subseteq FailureCodes \X (Violations \cup {Region})
    BY <2>1, FailType
  <2>3. todo' \in Seq(OptionType)
    BY <2>1, HeadTail DEF TypeOK
  <2>4. QED
    BY <2>1, <2>2, <2>3 DEF TypeOK, LoopType, Phases, Searching
<1>2. CASE ~(Len(todo) > 1)
  BY <1>2, GiveUpType DEF NextProposal
<1>3. QED
  BY <1>1, <1>2

LEMMA StartSearchType ==
  ASSUME TypeOK, queue # <<>>, NEW o \in OptionType, NEW b \in BoundType,
         NEW n \in Nat, NEW dir \in {0, 1}, StartSearch(o, b, n, dir)
  PROVE  /\ searches' \subseteq SearchType /\ started' \in Nat
         /\ current' \in OptionType \cup {NoProposal} /\ pc' \in Phases
<1>1. Head(queue) \in Violations
  BY HeadTail DEF TypeOK
<1>2. plan_revision(n) \in Nat
  BY DEF plan_revision
<1> DEFINE r == [v |-> Head(queue), id |-> o.id, dofs |-> o.dofs, plan |-> b,
                 revision |-> plan_revision(n), dir |-> dir]
<1>3. r \in SearchType
  <2>1. o.id \in Nat /\ o.dofs \in SUBSET Dofs
    BY DEF OptionType
  <2>2. QED
    BY <1>1, <1>2, <2>1 DEF SearchType
<1>4. searches' = searches \cup {r}
  BY DEF StartSearch
<1> HIDE DEF r
<1>5. searches' \subseteq SearchType
  BY <1>3, <1>4 DEF TypeOK
<1>6. pc' = "search" /\ started' = started + 1 /\ current' = o
  BY DEF StartSearch
<1>7. started' \in Nat
  BY <1>6 DEF TypeOK
<1>8. pc' \in Phases
  BY <1>6 DEF Phases, Searching
<1>9. current' \in OptionType \cup {NoProposal}
  BY <1>6
<1>10. QED
  BY <1>5, <1>7, <1>8, <1>9

Planned ==
  /\ plan \in PlanType /\ answers \in Nat /\ bound \in BoundType
  /\ cache \in [Violations -> Seq(OptionType)]
  /\ feedback \in [kind : FeedbackKinds \cup {"none"}, sets : SUBSET OptionType]
Counted ==
  /\ counts \in [Violations -> [{"PHYSICAL_CONSTRAINT_FAILURE",
                                 "DEPTH_EXTENSION_AVAILABLE"} -> Nat]]
  /\ live \in 0..LiveBudget

(* The type invariant in the parts that actions disturb together. *)
LEMMA SplitType == TypeOK <=> world \in Worlds /\ alarm \in BOOLEAN /\ Planned /\ Counted /\ LoopType
BY DEF TypeOK, Planned, Counted, LoopType

LEMMA SamePlanType == ASSUME TypeOK, UNCHANGED plan_state PROVE Planned'
BY DEF plan_state, TypeOK, Planned

LEMMA SameSearchType ==
  ASSUME TypeOK, UNCHANGED <<search_state, failures>>, pc' \in Phases
  PROVE  LoopType' /\ Counted'
BY DEF search_state, TypeOK, LoopType, Counted

LEMMA ReturnTypes ==
  ASSUME TypeOK, NEW code \in FailureCodes, Return(code)
  PROVE  LoopType' /\ Counted'
BY ReturnType DEF TypeOK, LoopType, Counted

(* Membership in the finite set of codes, for the literals of the actions. *)
LEMMA FailureCodesAre ==
  /\ "FORMAL_TRAJECTORY_EXECUTION_FAIL" \in FailureCodes
  /\ "ROOT_PROPOSAL_UNAVAILABLE" \in FailureCodes
  /\ "ROOT_PROPOSAL_UNAVAILABLE_AFTER_REVISION" \in FailureCodes
  /\ "TRAJECTORY_FAIL" \in FailureCodes /\ "REVISION_LIMIT_REACHED" \in FailureCodes
  /\ "REVISION_DECLINED" \in FailureCodes /\ "INVALID_EXECUTION_REVISION" \in FailureCodes
  /\ "PLAN_SCHEMA_REJECTED" \in FailureCodes /\ "LLM_PLAN_UNBINDABLE" \in FailureCodes
  /\ "DEFERRED_BUDGET" \in FailureCodes /\ "KERNEL_NO_CANDIDATE" \in FailureCodes
BY DEF FailureCodes

LEMMA PlanningType ==
  ASSUME TypeOK, PlanSymbolic \/ Finalize \/ Bind \/ Rebind
  PROVE  Planned' /\ Counted' /\ LoopType'
<1>1. CASE PlanSymbolic
  <2>1. CASE Return("PLAN_SCHEMA_REJECTED") /\ UNCHANGED plan_state
    BY <2>1, ReturnTypes, SamePlanType, FailureCodesAre
  <2>2. ASSUME NEW p \in Plans, Ask(p), pc' = "finalize",
               UNCHANGED <<bound, cache, feedback, search_state, failures>>
        PROVE  Planned' /\ Counted' /\ LoopType'
    <3>1. Planned'
      BY <2>2, BindingType DEF Ask, TypeOK, Planned
    <3>2. pc' \in Phases
      BY <2>2 DEF Phases, Unbound
    <3>3. QED
      BY <2>2, <3>1, <3>2, SameSearchType
  <2>3. QED
    BY <1>1, <2>1, <2>2 DEF PlanSymbolic
<1>2. CASE Finalize
  <2>1. CASE Return("PLAN_SCHEMA_REJECTED") /\ UNCHANGED plan_state
    BY <2>1, ReturnTypes, SamePlanType, FailureCodesAre
  <2>2. ASSUME NEW p \in Plans, plan' = p, pc' = "bind",
               UNCHANGED <<answers, bound, cache, feedback, search_state, failures>>
        PROVE  Planned' /\ Counted' /\ LoopType'
    <3>1. Planned'
      BY <2>2, BindingType DEF TypeOK, Planned
    <3>2. pc' \in Phases
      BY <2>2 DEF Phases, Unbound
    <3>3. QED
      BY <2>2, <3>1, <3>2, SameSearchType
  <2>3. CASE pc' = "bind" /\ UNCHANGED <<plan_state, search_state, failures>>
    <3>1. pc' \in Phases
      BY <2>3 DEF Phases, Unbound
    <3>2. QED
      BY <2>3, <3>1, SamePlanType, SameSearchType
  <2>4. QED
    BY <1>2, <2>1, <2>2, <2>3 DEF Finalize
<1>3. ASSUME NEW p \in PlanType, Adopt(p), pc' = "preferred",
             plan' = p, answers' \in Nat, feedback' = feedback,
             queue' = InOrder(Selected(p)), BoundKernelPlan(p) \in BoundType,
             RootCache(BoundKernelPlan(p)) \in [Violations -> Seq(OptionType)],
             InOrder(Selected(p)) \in Seq(Violations),
             UNCHANGED <<todo, current, retry, counts, live, candidates, searches,
                         started, failures>>
      PROVE  Planned' /\ Counted' /\ LoopType'
  <2>1. bound' \in BoundType /\ cache' \in [Violations -> Seq(OptionType)]
    BY <1>3 DEF Adopt
  <2>2. Planned' /\ Counted'
    BY <1>3, <2>1 DEF TypeOK, Planned, Counted
  <2>3. LoopType'
    BY <1>3 DEF TypeOK, LoopType, Phases
  <2>4. QED
    BY <2>2, <2>3
<1>4. CASE Bind
  <2>1. CASE Binds(plan)
    <3>1. /\ plan \in PlanType /\ Selected(plan) \in SUBSET Violations
      BY LenProperties, ElementOfSeq DEF TypeOK, PlanType, Selected, ToSet
    <3>2. BoundKernelPlan(plan) \in BoundType
      BY <3>1, BindingFacts
    <3>3. RootCache(BoundKernelPlan(plan)) \in [Violations -> Seq(OptionType)]
      BY <3>2, RootCacheType DEF TypeOK
    <3>4. InOrder(Selected(plan)) \in Seq(Violations)
      BY <3>1, InOrderFacts
    <3>5. QED
      BY <1>3, <1>4, <2>1, <3>1, <3>2, <3>3, <3>4 DEF Bind, TypeOK
  <2>2. CASE ~Binds(plan) /\ world.llm
    <3>1. pc' = "rebind" /\ UNCHANGED <<plan_state, search_state, failures>>
      BY <1>4, <2>2 DEF Bind
    <3>2. pc' \in Phases
      BY <3>1 DEF Phases, Unbound
    <3>3. QED
      BY <3>1, <3>2, SamePlanType, SameSearchType
  <2>3. CASE ~Binds(plan) /\ ~world.llm
    BY <1>4, <2>3, ReturnTypes, SamePlanType, FailureCodesAre DEF Bind
  <2>4. QED
    BY <2>1, <2>2, <2>3
<1>5. CASE Rebind
  <2>1. CASE Return("PLAN_SCHEMA_REJECTED") /\ UNCHANGED plan_state
    BY <2>1, ReturnTypes, SamePlanType, FailureCodesAre
  <2>2. ASSUME NEW p \in Plans, Ask(p), Return("LLM_PLAN_UNBINDABLE"),
               UNCHANGED <<bound, cache, feedback>>
        PROVE  Planned' /\ Counted' /\ LoopType'
    <3>1. Planned'
      BY <2>2, BindingType DEF Ask, TypeOK, Planned
    <3>2. QED
      BY <2>2, <3>1, ReturnTypes, FailureCodesAre
  <2>3. ASSUME NEW p \in Plans, Ask(p), Adopt(p), pc' = "preferred",
               queue' = InOrder(Selected(p)),
               UNCHANGED <<feedback, todo, current, retry, counts, live, candidates,
                           searches, started, failures>>
        PROVE  Planned' /\ Counted' /\ LoopType'
    <3>1. answers' \in Nat /\ plan' = p
      BY <2>3 DEF Ask, TypeOK
    <3>2. QED
      BY <1>3, <2>3, <3>1, BindingType
  <2>4. QED
    BY <1>5, <2>1, <2>2, <2>3 DEF Rebind
<1>6. QED
  BY <1>1, <1>2, <1>4, <1>5

LEMMA ConsumeType == ASSUME TypeOK, Consume PROVE live' \in 0..LiveBudget
<1>1. live \in Nat /\ LiveBudget \in Nat /\ live <= LiveBudget
  BY TrajectoryAssumption DEF TypeOK
<1>2. live' \in live..(IF live < LiveBudget THEN live + 1 ELSE live)
  BY DEF Consume
<1>3. QED
  BY <1>1, <1>2

LEMMA AskingType ==
  ASSUME TypeOK, Adopted, Fresh, PreferredFeedback \/ RevisePreferred
  PROVE  Planned' /\ Counted' /\ LoopType'
<1>1. CASE PreferredFeedback
  <2>1. pc' \in Phases
    BY <1>1 DEF PreferredFeedback, Phases, Unbound
  <2>2. LoopType' /\ Counted'
    BY <1>1, <2>1, SameSearchType DEF PreferredFeedback
  <2>3. feedback' \in [kind : FeedbackKinds \cup {"none"}, sets : SUBSET OptionType]
    <3> DEFINE open == Infeasible(plan, bound, cache)
    <3>1. CASE feedback' = feedback
      BY <3>1 DEF TypeOK
    <3>2. CASE /\ open # <<>>
               /\ feedback' = [kind |-> "PREFERRED_DOF_INFEASIBLE",
                               sets |-> Alternatives(Head(open), plan, bound)]
      <4>1. plan \in PlanType /\ bound \in BoundType /\ world \in Worlds
        BY DEF TypeOK
      <4>2. Selected(plan) \subseteq Violations
        BY <4>1, LenProperties, ElementOfSeq DEF PlanType, Selected, ToSet
      <4>3. open \in Seq(Violations)
        BY <4>2, InOrderFacts DEF Infeasible
      <4>4. Head(open) \in Violations
        BY <3>2, <4>3, HeadTail
      <4>5. Alternatives(Head(open), plan, bound) \in SUBSET OptionType
        BY <4>1, <4>4, AlternativesFacts
      <4>6. QED
        BY <3>2, <4>5 DEF FeedbackKinds
    <3>3. QED
      BY <1>1, <3>1, <3>2 DEF PreferredFeedback
  <2>4. Planned'
    BY <1>1, <2>3 DEF PreferredFeedback, TypeOK, Planned
  <2>5. QED
    BY <2>2, <2>4
<1>2. CASE RevisePreferred
  <2>1. CASE Return("PLAN_SCHEMA_REJECTED") /\ UNCHANGED plan_state
    BY <2>1, ReturnTypes, SamePlanType, FailureCodesAre
  <2>2. CASE /\ Return("INVALID_EXECUTION_REVISION")
             /\ UNCHANGED <<plan, bound, cache, feedback>> /\ answers' = answers + 1
    <3>1. Planned'
      BY <2>2 DEF TypeOK, Planned
    <3>2. QED
      BY <2>2, <3>1, ReturnTypes, FailureCodesAre
  <2>3. ASSUME NEW p \in Plans, Ask(p), Adopt(p), pc' = "target", feedback' = NoFeedback,
               UNCHANGED <<search_state, failures>>
        PROVE  Planned' /\ Counted' /\ LoopType'
    <3>1. pc' \in Phases
      BY <2>3 DEF Phases
    <3>2. Planned'
      BY <2>3, BindingType DEF Ask, Adopt, TypeOK, Planned, NoFeedback
    <3>3. QED
      BY <2>3, <3>1, <3>2, SameSearchType
  <2>4. QED
    BY <1>2, <2>1, <2>2, <2>3 DEF RevisePreferred
<1>3. QED
  BY <1>1, <1>2

LEMMA LoopingType ==
  ASSUME TypeOK, Fresh, Target \/ Proposal \/ SearchClean \/ SearchFails \/ SearchFeedback
  PROVE  Planned' /\ Counted' /\ LoopType'
<1>0. pc \in Searching => /\ queue # <<>> /\ todo # <<>> /\ Head(queue) \in Violations
                          /\ Head(todo) \in OptionType
  BY HeadTail DEF Fresh, TypeOK
<1>1. CASE Target
  <2>1. Planned' /\ Counted'
    BY <1>1, SamePlanType DEF Target, TypeOK, Counted
  <2>2. queue # <<>> /\ Head(queue) \in Violations /\ Tail(queue) \in Seq(Violations)
    BY <1>1, HeadTail DEF Target, TypeOK
  <2>3. /\ UNCHANGED <<current, retry, candidates, searches, started>>
        /\ \/ \E code \in FailureCodes : Fail(code) /\ queue' = Tail(queue) /\ UNCHANGED <<pc, todo>>
           \/ todo' = cache[Head(queue)] /\ pc' = "proposal" /\ UNCHANGED <<queue, failures>>
    BY <1>1, FailureCodesAre DEF Target
  <2>4. failures' \subseteq FailureCodes \X (Violations \cup {Region})
    BY <2>2, <2>3, FailType DEF TypeOK
  <2>5. queue' \in Seq(Violations) /\ todo' \in Seq(OptionType) /\ pc' \in Phases
    BY <2>2, <2>3 DEF TypeOK, Phases, Searching
  <2>6. LoopType'
    BY <2>3, <2>4, <2>5 DEF TypeOK, LoopType
  <2>7. QED
    BY <2>1, <2>6
<1>2. CASE Proposal
  <2>1. queue # <<>> /\ Head(todo) \in OptionType
    BY <1>0, <1>2 DEF Proposal, Searching
  <2>2. /\ searches' \subseteq SearchType /\ started' \in Nat
        /\ current' \in OptionType \cup {NoProposal} /\ pc' \in Phases
    BY <1>2, <2>1, StartSearchType DEF Proposal, TypeOK
  <2>3. Planned' /\ Counted'
    BY <1>2, SamePlanType DEF Proposal, TypeOK, Counted
  <2>4. LoopType'
    BY <1>2, <2>2 DEF Proposal, TypeOK, LoopType
  <2>5. QED
    BY <2>3, <2>4
<1>3. CASE SearchClean
  <2>1. Planned'
    BY <1>3, SamePlanType DEF SearchClean
  <2>2. Counted'
    BY <1>3, ConsumeType DEF SearchClean, TypeOK, Counted
  <2>3. LoopType'
    BY <1>3 DEF SearchClean, TypeOK, LoopType, Phases, Searching
  <2>4. QED
    BY <2>1, <2>2, <2>3
<1>4. CASE SearchFails
  <2>1. Planned'
    BY <1>4, SamePlanType DEF SearchFails
  <2>2. Counted'
    BY <1>4, ConsumeType DEF SearchFails, TypeOK, Counted
  <2>3. queue # <<>> /\ todo # <<>>
    BY <1>0, <1>4 DEF SearchFails, Searching
  <2>4. GiveUp("TRAJECTORY_FAIL") \/ NextProposal("TRAJECTORY_FAIL")
    BY <1>4 DEF SearchFails
  <2>5. LoopType'
    BY <2>3, <2>4, GiveUpType, NextProposalType, FailureCodesAre
  <2>6. QED
    BY <2>1, <2>2, <2>5
<1>5. CASE SearchFeedback
  <2>1. queue # <<>> /\ todo # <<>> /\ Head(queue) \in Violations
    BY <1>0, <1>5 DEF SearchFeedback, Searching
  <2>2. UNCHANGED <<plan, answers, bound, cache>> /\ live' \in 0..LiveBudget
    BY <1>5, ConsumeType DEF SearchFeedback
  <2>3. PICK kind \in {"PHYSICAL_CONSTRAINT_FAILURE", "DEPTH_EXTENSION_AVAILABLE"} :
          \/ GiveUp("REVISION_LIMIT_REACHED") /\ UNCHANGED <<feedback, counts>>
          \/ /\ counts' = [counts EXCEPT ![Head(queue)][kind] = @ + 1]
             /\ feedback' = [kind |-> kind, sets |-> {}]
             /\ pc' = "revise"
             /\ UNCHANGED <<queue, todo, current, retry, candidates, searches,
                            started, failures>>
    BY <1>5 DEF SearchFeedback
  <2>4. CASE GiveUp("REVISION_LIMIT_REACHED") /\ UNCHANGED <<feedback, counts>>
    <3>1. LoopType'
      BY <2>1, <2>4, GiveUpType, FailureCodesAre
    <3>2. Planned' /\ Counted'
      BY <2>2, <2>4 DEF TypeOK, Planned, Counted
    <3>3. QED
      BY <3>1, <3>2
  <2>5. CASE /\ counts' = [counts EXCEPT ![Head(queue)][kind] = @ + 1]
             /\ feedback' = [kind |-> kind, sets |-> {}]
             /\ pc' = "revise"
             /\ UNCHANGED <<queue, todo, current, retry, candidates, searches,
                            started, failures>>
    <3>1. Counted'
      BY <2>1, <2>2, <2>5 DEF TypeOK, Counted
    <3>2. feedback' \in [kind : FeedbackKinds \cup {"none"}, sets : SUBSET OptionType]
      BY <2>5 DEF FeedbackKinds
    <3>3. Planned'
      BY <2>2, <3>2 DEF TypeOK, Planned
    <3>4. LoopType'
      BY <2>5 DEF TypeOK, LoopType, Phases, Searching
    <3>5. QED
      BY <3>1, <3>3, <3>4
  <2>6. QED
    BY <2>3, <2>4, <2>5
<1>6. QED
  BY <1>1, <1>2, <1>3, <1>4, <1>5

LEMMA RevisingType ==
  ASSUME TypeOK, Fresh, ReviseAccepted \/ ReviseRefused
  PROVE  Planned' /\ Counted' /\ LoopType'
<1>1. pc = "revise" /\ pc \in Searching
  BY DEF ReviseAccepted, ReviseRefused, Searching
<1>2. queue # <<>> /\ todo # <<>> /\ Head(queue) \in Violations
  BY <1>1, HeadTail DEF Fresh, TypeOK
<1>3. UNCHANGED <<counts, live>> /\ feedback' = NoFeedback
  BY DEF ReviseAccepted, ReviseRefused
<1>4. Counted' /\ feedback' \in [kind : FeedbackKinds \cup {"none"}, sets : SUBSET OptionType]
  BY <1>3 DEF TypeOK, Counted, NoFeedback
<1>5. CASE ReviseAccepted
  <2>1. PICK p \in Plans :
          /\ Ask(p) /\ bound' = BoundKernelPlan(p)
          /\ cache' = [cache EXCEPT ![Head(queue)] = Roots(Head(queue), BoundKernelPlan(p))]
          /\ IF Roots(Head(queue), BoundKernelPlan(p)) = <<>>
             THEN GiveUp("ROOT_PROPOSAL_UNAVAILABLE_AFTER_REVISION")
             ELSE /\ StartSearch(Roots(Head(queue), BoundKernelPlan(p))[1],
                                BoundKernelPlan(p), answers + 1, 1)
                  /\ retry' = TRUE
                  /\ UNCHANGED <<queue, todo, candidates, failures>>
    BY <1>5 DEF ReviseAccepted
  <2> DEFINE fresh == BoundKernelPlan(p)
             rebuilt == Roots(Head(queue), fresh)
  <2>2. fresh \in BoundType /\ p \in PlanType
    BY BindingType
  <2> HIDE DEF fresh
  <2>3. rebuilt \in Seq(OptionType)
    BY <1>2, <2>2, RootsFacts DEF TypeOK
  <2> HIDE DEF rebuilt
  <2>4. Planned'
    <3>1. bound' = fresh /\ cache' = [cache EXCEPT ![Head(queue)] = rebuilt]
      BY <2>1 DEF fresh, rebuilt
    <3>2. plan' = p /\ answers' = answers + 1
      BY <2>1 DEF Ask
    <3>3. cache' \in [Violations -> Seq(OptionType)]
      BY <1>2, <2>3, <3>1 DEF TypeOK
    <3>4. answers' \in Nat
      BY <3>2 DEF TypeOK
    <3>5. QED
      BY <1>4, <2>2, <3>1, <3>2, <3>3, <3>4 DEF Planned
  <2>5. CASE rebuilt = <<>>
    <3>1. GiveUp("ROOT_PROPOSAL_UNAVAILABLE_AFTER_REVISION")
      BY <2>1, <2>5 DEF fresh, rebuilt
    <3>2. QED
      BY <1>2, <1>4, <2>4, <3>1, GiveUpType, FailureCodesAre
  <2>6. CASE rebuilt # <<>>
    <3>1. /\ StartSearch(rebuilt[1], fresh, answers + 1, 1) /\ retry' = TRUE
          /\ UNCHANGED <<queue, todo, candidates, failures>>
      BY <2>1, <2>6 DEF fresh, rebuilt
    <3>2. rebuilt[1] \in OptionType
      BY <2>3, <2>6, HeadTail
    <3>3. answers + 1 \in Nat
      BY DEF TypeOK
    <3>4. /\ searches' \subseteq SearchType /\ started' \in Nat
          /\ current' \in OptionType \cup {NoProposal} /\ pc' \in Phases
      BY <1>2, <2>2, <3>1, <3>2, <3>3, StartSearchType
    <3>5. LoopType'
      BY <3>1, <3>4 DEF TypeOK, LoopType
    <3>6. QED
      BY <1>4, <2>4, <3>5
  <2>7. QED
    BY <2>5, <2>6
<1>6. CASE ReviseRefused
  <2>1. \E code \in FailureCodes : GiveUp(code)
    BY <1>6, FailureCodesAre DEF ReviseRefused
  <2>2. answers' \in Nat
    BY <1>6 DEF ReviseRefused, TypeOK
  <2>3. UNCHANGED <<plan, bound, cache>>
    BY <1>6 DEF ReviseRefused
  <2>4. Planned'
    BY <1>4, <2>2, <2>3 DEF TypeOK, Planned
  <2>5. QED
    BY <1>2, <1>4, <2>1, <2>4, GiveUpType
<1>7. QED
  BY <1>5, <1>6

LEMMA CondensingType ==
  ASSUME TypeOK, Fresh, CondenseFails \/ CondensePasses \/ ReservedStop \/ Finish
  PROVE  Planned' /\ Counted' /\ LoopType'
<1>0. Planned'
  BY SamePlanType DEF CondenseFails, CondensePasses, ReservedStop, Finish
<1>1. pc \in Searching => queue # <<>> /\ todo # <<>> /\ Head(queue) \in Violations
  BY HeadTail DEF Fresh, TypeOK
<1>2. CASE CondenseFails
  <2>1. queue # <<>> /\ todo # <<>>
    BY <1>1, <1>2 DEF CondenseFails, Searching
  <2>2. Counted'
    BY <1>2, ConsumeType DEF CondenseFails, TypeOK, Counted
  <2>3. LoopType'
    BY <1>2, <2>1, NextProposalType, FailureCodesAre DEF CondenseFails
  <2>4. QED
    BY <1>0, <2>2, <2>3
<1>3. CASE CondensePasses
  <2>1. queue # <<>> /\ Head(queue) \in Violations
    BY <1>1, <1>3 DEF CondensePasses, Searching
  <2>2. live' \in 0..LiveBudget
    BY <1>3, TrajectoryAssumption DEF CondensePasses, TypeOK
  <2>3. Counted'
    BY <1>3, <2>2 DEF CondensePasses, TypeOK, Counted
  <2>4. PICK complete \in BOOLEAN :
          candidates' = Append(candidates,
            [v |-> Head(queue), dofs |-> current.dofs, evidence |-> complete])
    BY <1>3 DEF CondensePasses
  <2>5. current.dofs \in SUBSET Dofs
    BY DEF TypeOK, OptionType, NoProposal
  <2>6. [v |-> Head(queue), dofs |-> current.dofs, evidence |-> complete]
          \in [v : Violations, dofs : SUBSET Dofs, evidence : BOOLEAN]
    BY <2>1, <2>5
  <2>7. candidates' \in Seq([v : Violations, dofs : SUBSET Dofs, evidence : BOOLEAN])
    BY <2>4, <2>6, AppendProperties DEF TypeOK
  <2>8. \E stop : NextTarget(stop)
    BY <1>3 DEF CondensePasses
  <2>9. /\ pc' \in Phases /\ queue' \in Seq(Violations) /\ todo' \in Seq(OptionType)
        /\ current' \in OptionType \cup {NoProposal} /\ retry' \in BOOLEAN
    BY <2>1, <2>8, LeaveType
  <2>10. LoopType'
    BY <1>3, <2>7, <2>9 DEF CondensePasses, TypeOK, LoopType
  <2>11. QED
    BY <1>0, <2>3, <2>10
<1>4. CASE ReservedStop
  <2>1. queue # <<>>
    BY <1>1, <1>4 DEF ReservedStop, Searching
  <2>2. /\ pc' \in Phases /\ queue' \in Seq(Violations) /\ todo' \in Seq(OptionType)
        /\ current' \in OptionType \cup {NoProposal} /\ retry' \in BOOLEAN
    BY <1>4, <2>1, LeaveType DEF ReservedStop
  <2>3. failures' \subseteq FailureCodes \X (Violations \cup {Region})
    BY <1>4, <2>1, FailType, FailureCodesAre DEF ReservedStop
  <2>4. Counted' /\ LoopType'
    BY <1>4, <2>2, <2>3 DEF ReservedStop, TypeOK, LoopType, Counted
  <2>5. QED
    BY <1>0, <2>4
<1>5. CASE Finish
  <2>1. <<"KERNEL_NO_CANDIDATE", Region>> \in FailureCodes \X (Violations \cup {Region})
    BY FailureCodesAre
  <2>2. failures' \subseteq FailureCodes \X (Violations \cup {Region})
    <3>1. \A f \in failures' : f \in failures \/ f = <<"KERNEL_NO_CANDIDATE", Region>>
      BY <1>5 DEF Finish
    <3>2. failures \subseteq FailureCodes \X (Violations \cup {Region})
      BY DEF TypeOK
    <3>3. QED
      BY <2>1, <3>1, <3>2
  <2>3. pc' \in Phases /\ UNCHANGED search_state
    BY <1>5 DEF Finish, Phases, Ended
  <2>4. Counted' /\ LoopType'
    BY <2>2, <2>3 DEF search_state, TypeOK, LoopType, Counted
  <2>5. QED
    BY <1>0, <2>4
<1>6. QED
  BY <1>2, <1>3, <1>4, <1>5

LEMMA FailingType ==
  ASSUME TypeOK, Fresh, Alarms \/ Cancel
  PROVE  Planned' /\ Counted' /\ LoopType'
<1>1. CASE Raise
  <2>1. pc' \in Phases
    BY <1>1 DEF Raise, Phases, Ended
  <2>2. QED
    BY <1>1, <2>1, SamePlanType, SameSearchType DEF Raise
<1>2. pc \in Searching => queue # <<>> /\ todo # <<>>
  BY DEF Fresh
<1>3. CASE ProviderFailsRevising
  <2>1. CASE Return("INVALID_EXECUTION_REVISION") /\ UNCHANGED plan_state
    BY <2>1, ReturnTypes, SamePlanType, FailureCodesAre
  <2>2. CASE /\ pc = "revise"
             /\ GiveUp("INVALID_EXECUTION_REVISION")
             /\ feedback' = NoFeedback
             /\ UNCHANGED <<plan, answers, bound, cache, counts, live>>
    <3>1. LoopType'
      BY <1>2, <2>2, GiveUpType, FailureCodesAre DEF Searching
    <3>2. Planned' /\ Counted'
      BY <2>2 DEF TypeOK, Planned, Counted, NoFeedback
    <3>3. QED
      BY <3>1, <3>2
  <2>3. QED
    BY <1>3, <2>1, <2>2 DEF ProviderFailsRevising
<1>4. CASE IntegrityFails
  <2>1. queue # <<>> /\ todo # <<>>
    BY <1>2, <1>4 DEF IntegrityFails, Searching
  <2>2. GiveUp("TRAJECTORY_FAIL") \/ NextProposal("TRAJECTORY_FAIL")
    BY <1>4 DEF IntegrityFails
  <2>3. LoopType'
    BY <2>1, <2>2, GiveUpType, NextProposalType, FailureCodesAre
  <2>4. Planned' /\ Counted'
    BY <1>4, SamePlanType DEF IntegrityFails, TypeOK, Counted
  <2>5. QED
    BY <2>3, <2>4
<1>5. QED
  BY <1>1, <1>3, <1>4 DEF Alarms, Cancel, ProviderFails, EdaFails

LEMMA TypeStep ==
  ASSUME TypeOK, Adopted, Fresh, [Next]_vars
  PROVE  TypeOK'
<1>1. CASE UNCHANGED vars
  BY <1>1 DEF vars, TypeOK
<1>2. CASE Next
  <2>1. world' \in Worlds /\ alarm' \in BOOLEAN
    BY <1>2 DEF Next, TypeOK
  <2>2. Planned' /\ Counted' /\ LoopType'
    BY <1>2, PlanningType, AskingType, LoopingType, RevisingType, CondensingType, FailingType
       DEF Next, Work
  <2>3. QED
    BY <2>1, <2>2 DEF TypeOK, Planned, Counted, LoopType
<1>3. QED
  BY <1>1, <1>2

-----------------------------------------------------------------------------
(* The bound plan and the proposals built for it. *)

LEMMA SameBinding ==
  ASSUME UNCHANGED world, NEW p, plan' = p
  PROVE  BoundKernelPlan(plan)' = BoundKernelPlan(p)
BY DEF BoundKernelPlan, AllowedDofs, DofsOf, Selected

(* The proposals built for a plan avoid the DOFs it forbids. *)
LEMMA RootsAreLegal ==
  ASSUME world \in Worlds, NEW p \in PlanType, NEW v \in Violations
  PROVE  /\ DistinctIds(Roots(v, BoundKernelPlan(p)))
         /\ Avoids(Roots(v, BoundKernelPlan(p)), p.forbidden)
<1> DEFINE b == BoundKernelPlan(p)
<1>1. b \in BoundType /\ b.allowed \cap p.forbidden = {}
  BY BindingFacts
<1> HIDE DEF b
<1>2. DistinctIds(Roots(v, b))
  BY <1>1, RootsFacts
<1>3. \A i \in DOMAIN Roots(v, b) : Roots(v, b)[i].dofs \subseteq b.allowed
  BY <1>1, RootsFacts DEF Fits
<1>4. Avoids(Roots(v, b), p.forbidden)
  BY <1>1, <1>3 DEF Avoids
<1>5. QED
  BY <1>2, <1>4 DEF b

LEMMA AdoptedStep ==
  ASSUME TypeOK, Adopted, Asked, Fresh, Next
  PROVE  Adopted'
<1>0. UNCHANGED world
  BY DEF Next
<1>1. CASE pc' \in Unbound \cup Ended
  BY <1>1 DEF Adopted
<1>2. ASSUME UNCHANGED <<plan, bound, cache>>, pc \notin Unbound \cup Ended,
             pc' \in Searching => DistinctIds(todo') /\ Avoids(todo', bound.forbidden)
      PROVE  Adopted'
  <2>1. BoundKernelPlan(plan)' = BoundKernelPlan(plan)
    BY <1>0, <1>2, SameBinding
  <2>2. QED
    BY <1>2, <2>1 DEF Adopted
<1>3. ASSUME NEW p \in PlanType, plan' = p, Adopt(p), pc' \notin Searching
      PROVE  Adopted'
  <2>1. bound' = BoundKernelPlan(p) /\ cache' = RootCache(BoundKernelPlan(p))
    BY <1>3 DEF Adopt
  <2>2. BoundKernelPlan(plan)' = bound'
    BY <1>0, <1>3, <2>1, SameBinding
  <2>3. \A v \in Violations : cache'[v] = Roots(v, BoundKernelPlan(p))
    BY <2>1 DEF RootCache
  <2>4. bound'.forbidden = p.forbidden
    BY <2>1, BindingFacts
  <2>5. \A v \in Violations : DistinctIds(cache'[v]) /\ Avoids(cache'[v], bound'.forbidden)
    BY <2>3, <2>4, RootsAreLegal DEF TypeOK
  <2>6. QED
    BY <1>3, <2>2, <2>5 DEF Adopted
<1>4. pc \in Searching => /\ queue # <<>> /\ todo # <<>> /\ Head(queue) \in Violations
                          /\ pc \notin Unbound \cup Ended
                          /\ DistinctIds(todo) /\ Avoids(todo, bound.forbidden)
                          /\ DistinctIds(Tail(todo)) /\ Avoids(Tail(todo), bound.forbidden)
  BY HeadTail, TodoTail DEF Fresh, TypeOK, Adopted, Searching, Unbound, Ended
<1>5. ASSUME pc \in Searching, UNCHANGED <<plan, bound, cache>>, NEW code,
             GiveUp(code) \/ NextProposal(code)
      PROVE  Adopted'
  <2>1. pc' = "target" \/ todo' = Tail(todo)
    BY <1>5 DEF GiveUp, NextTarget, NextProposal
  <2>2. QED
    BY <1>2, <1>4, <1>5, <2>1 DEF Searching
<1>6. CASE PlanSymbolic \/ Finalize
  BY <1>1, <1>6 DEF PlanSymbolic, Finalize, Return, Unbound, Ended
<1>7. CASE Bind
  <2>1. CASE pc' = "preferred"
    <3>1. Adopt(plan) /\ plan' = plan /\ plan \in PlanType
      BY <1>7, <2>1 DEF Bind, Return, TypeOK
    <3>2. QED
      BY <1>3, <2>1, <3>1 DEF Searching
  <2>2. CASE pc' # "preferred"
    BY <1>1, <1>7, <2>2 DEF Bind, Return, Unbound, Ended
  <2>3. QED
    BY <2>1, <2>2
<1>8. CASE Rebind
  <2>1. CASE pc' = "preferred"
    <3>1. PICK p \in Plans : Adopt(p) /\ plan' = p
      BY <1>8, <2>1 DEF Rebind, Return, Ask
    <3>2. p \in PlanType
      BY BindingType
    <3>3. QED
      BY <1>3, <2>1, <3>1, <3>2 DEF Searching
  <2>2. CASE pc' # "preferred"
    BY <1>1, <1>8, <2>2 DEF Rebind, Return, Unbound, Ended
  <2>3. QED
    BY <2>1, <2>2
<1>9. CASE PreferredFeedback
  BY <1>2, <1>9 DEF PreferredFeedback, Unbound, Ended, Searching
<1>10. CASE RevisePreferred
  <2>1. CASE pc' = "target"
    <3>1. PICK p \in Plans : Adopt(p) /\ plan' = p
      BY <1>10, <2>1 DEF RevisePreferred, Return, Ask
    <3>2. p \in PlanType
      BY BindingType
    <3>3. QED
      BY <1>3, <2>1, <3>1, <3>2 DEF Searching
  <2>2. CASE pc' # "target"
    BY <1>1, <1>10, <2>2 DEF RevisePreferred, Return, Unbound, Ended
  <2>3. QED
    BY <2>1, <2>2
<1>11. CASE Target
  <2>1. queue # <<>> /\ Head(queue) \in Violations
    BY <1>11, HeadTail DEF Target, TypeOK
  <2>2. pc = "target" /\ UNCHANGED <<plan, bound, cache>>
    BY <1>11 DEF Target, plan_state
  <2>3. pc' = "target" \/ todo' = cache[Head(queue)]
    BY <1>11, <2>2 DEF Target
  <2>4. pc \notin Unbound \cup Ended
    BY <2>2 DEF Unbound, Ended
  <2>5. DistinctIds(cache[Head(queue)]) /\ Avoids(cache[Head(queue)], bound.forbidden)
    BY <2>1, <2>4 DEF Adopted
  <2>6. QED
    BY <1>2, <2>2, <2>3, <2>4, <2>5 DEF Searching
<1>12. CASE Proposal \/ SearchClean
  BY <1>2, <1>4, <1>12 DEF Proposal, SearchClean, plan_state, Searching
<1>13. CASE SearchFails \/ CondenseFails \/ IntegrityFails
  BY <1>5, <1>13 DEF SearchFails, CondenseFails, IntegrityFails, plan_state, Searching
<1>14. CASE SearchFeedback
  <2>1. pc \in Searching /\ UNCHANGED <<plan, bound, cache>>
    BY <1>14 DEF SearchFeedback, Searching
  <2>2. GiveUp("REVISION_LIMIT_REACHED") \/ todo' = todo
    BY <1>14 DEF SearchFeedback
  <2>3. QED
    BY <1>2, <1>4, <1>5, <2>1, <2>2
<1>15. CASE ReviseAccepted
  <2>1. pc = "revise" /\ pc \in Searching
    BY <1>15 DEF ReviseAccepted, Searching
  <2>2. PICK p \in Plans :
          /\ validate_execution_feedback_revision(feedback, plan, p) = "ACCEPTED"
          /\ plan' = p /\ bound' = BoundKernelPlan(p)
          /\ cache' = [cache EXCEPT ![Head(queue)] = Roots(Head(queue), BoundKernelPlan(p))]
          /\ pc' = "target" \/ todo' = todo
    BY <1>15 DEF ReviseAccepted, Ask, GiveUp, NextTarget
  <2>3. p \in PlanType
    BY BindingType
  <2>4. p.forbidden = plan.forbidden
    <3>1. Permitted(feedback.kind, plan, p, feedback.sets)
      BY <2>2 DEF validate_execution_feedback_revision
    <3>2. feedback.kind \in FeedbackKinds /\ feedback.kind # "PREFERRED_DOF_INFEASIBLE"
      BY <2>1 DEF Asked
    <3>3. plan \in PlanType
      BY DEF TypeOK
    <3>4. QED
      BY <2>3, <3>1, <3>2, <3>3, PermittedFacts
  <2>5. bound'.forbidden = bound.forbidden
    <3>1. bound = BoundKernelPlan(plan) /\ plan \in PlanType
      BY <1>4, <2>1 DEF Adopted, TypeOK
    <3>2. QED
      BY <2>2, <2>3, <2>4, <3>1, BindingFacts
  <2>6. BoundKernelPlan(plan)' = bound'
    BY <1>0, <2>2, SameBinding
  <2>7. \A v \in Violations : DistinctIds(cache'[v]) /\ Avoids(cache'[v], bound'.forbidden)
    <3>1. TAKE v \in Violations
    <3>2. CASE v = Head(queue)
      <4>1. cache'[v] = Roots(v, BoundKernelPlan(p))
        BY <2>2, <3>2 DEF TypeOK
      <4>2. bound'.forbidden = p.forbidden
        BY <2>2, <2>3, BindingFacts
      <4>3. QED
        BY <2>3, <4>1, <4>2, RootsAreLegal DEF TypeOK
    <3>3. CASE v # Head(queue)
      <4>1. cache'[v] = cache[v]
        BY <2>2, <3>3 DEF TypeOK
      <4>2. QED
        BY <1>4, <2>1, <2>5, <4>1 DEF Adopted
    <3>4. QED
      BY <3>2, <3>3
  <2>8. pc' \in Searching => DistinctIds(todo') /\ Avoids(todo', bound'.forbidden)
    BY <1>4, <2>1, <2>2, <2>5 DEF Searching
  <2>9. QED
    BY <2>6, <2>7, <2>8 DEF Adopted
<1>16. CASE ReviseRefused
  <2>1. pc \in Searching /\ UNCHANGED <<plan, bound, cache>> /\ \E code : GiveUp(code)
    BY <1>16 DEF ReviseRefused, Searching
  <2>2. QED
    BY <1>5, <2>1
<1>17. CASE CondensePasses \/ ReservedStop
  <2>1. pc \in Searching /\ UNCHANGED <<plan, bound, cache>> /\ pc' = "target"
    BY <1>17 DEF CondensePasses, ReservedStop, NextTarget, plan_state, Searching
  <2>2. QED
    BY <1>2, <1>4, <2>1 DEF Searching
<1>18. CASE Finish \/ Raise
  BY <1>1, <1>18 DEF Finish, Raise, Ended
<1>19. CASE ProviderFailsRevising
  <2>1. CASE pc = "revise preferred"
    BY <1>1, <1>19, <2>1 DEF ProviderFailsRevising, Return, Ended
  <2>2. CASE pc = "revise"
    BY <1>5, <1>19, <2>2 DEF ProviderFailsRevising, Searching
  <2>3. QED
    BY <1>19, <2>1, <2>2 DEF ProviderFailsRevising
<1>20. QED
  BY <1>6, <1>7, <1>8, <1>9, <1>10, <1>11, <1>12, <1>13, <1>14, <1>15, <1>16, <1>17, <1>18, <1>19
     DEF Next, Work, Alarms, Cancel, ProviderFails, EdaFails

-----------------------------------------------------------------------------
(* The feedback a revision is asked for. *)

LEMMA AskedStep ==
  ASSUME TypeOK, Next
  PROVE  Asked'
<1>1. CASE pc' # "revise preferred" /\ pc' # "revise"
  BY <1>1 DEF Asked
<1>2. CASE PreferredFeedback
  <2>1. SUFFICES ASSUME pc' = "revise preferred" PROVE Asked'
    BY <1>1, <1>2 DEF PreferredFeedback
  <2> DEFINE open == Infeasible(plan, bound, cache)
  <2>2. /\ open # <<>> /\ plan' = plan /\ world' = world
        /\ feedback' = [kind |-> "PREFERRED_DOF_INFEASIBLE",
                        sets |-> Alternatives(Head(open), plan, bound)]
    BY <1>2, <2>1 DEF PreferredFeedback, Next
  <2> DEFINE V == {v \in Selected(plan) : /\ v \notin world.broken
                                         /\ cache[v] = <<>>
                                         /\ Alternatives(v, plan, bound) # {}}
  <2>3. open = InOrder(V) /\ V \subseteq Selected(plan)
    BY DEF Infeasible
  <2>4. Selected(plan) \subseteq Violations
    BY LenProperties, ElementOfSeq DEF TypeOK, PlanType, Selected, ToSet
  <2> HIDE DEF V, open
  <2>5. open \in Seq(Violations) /\ ToSet(open) = V
    BY <2>3, <2>4, InOrderFacts
  <2>6. Head(open) \in Selected(plan) /\ Head(open) \in Violations
    BY <2>2, <2>3, <2>5, HeadTail DEF ToSet
  <2>7. \A o \in Alternatives(Head(open), plan, bound) :
          o \in ToSet(world.options) /\ o.dofs \subseteq DofsOf({Head(open)})
    BY <2>6, AlternativesFacts DEF TypeOK
  <2>8. DofsOf({Head(open)}) \subseteq DofsOf(Selected(plan))
    BY <2>6 DEF DofsOf
  <2>9. QED
    BY <2>1, <2>2, <2>7, <2>8 DEF Asked, Selected, DofsOf
<1>3. CASE SearchFeedback
  <2>1. PICK kind \in {"PHYSICAL_CONSTRAINT_FAILURE", "DEPTH_EXTENSION_AVAILABLE"} :
          \/ GiveUp("REVISION_LIMIT_REACHED")
          \/ feedback' = [kind |-> kind, sets |-> {}] /\ pc' = "revise"
    BY <1>3 DEF SearchFeedback
  <2>2. CASE GiveUp("REVISION_LIMIT_REACHED")
    BY <1>1, <2>2 DEF GiveUp, NextTarget
  <2>3. CASE feedback' = [kind |-> kind, sets |-> {}] /\ pc' = "revise"
    <3>1. feedback'.kind = kind
      BY <2>3
    <3>2. kind \in FeedbackKinds \ {"PREFERRED_DOF_INFEASIBLE"}
      BY DEF FeedbackKinds
    <3>3. QED
      BY <2>3, <3>1, <3>2 DEF Asked
  <2>4. QED
    BY <2>1, <2>2, <2>3
<1>4. CASE PlanSymbolic \/ Finalize \/ Bind \/ Rebind
  BY <1>1, <1>4 DEF PlanSymbolic, Finalize, Bind, Rebind, Return
<1>5. CASE RevisePreferred \/ Target \/ Proposal \/ SearchClean
  BY <1>1, <1>5 DEF RevisePreferred, Return, Target, Proposal, StartSearch, SearchClean
<1>6. CASE SearchFails \/ CondenseFails \/ IntegrityFails
  BY <1>1, <1>6 DEF SearchFails, CondenseFails, IntegrityFails, NextProposal, GiveUp, NextTarget
<1>7. CASE ReviseAccepted
  <2>1. \/ GiveUp("ROOT_PROPOSAL_UNAVAILABLE_AFTER_REVISION")
        \/ \E o, b : StartSearch(o, b, answers + 1, 1)
    BY <1>7 DEF ReviseAccepted
  <2>2. pc' = "target" \/ pc' = "search"
    BY <2>1 DEF GiveUp, NextTarget, StartSearch
  <2>3. QED
    BY <1>1, <2>2
<1>8. CASE ReviseRefused
  BY <1>1, <1>8 DEF ReviseRefused, GiveUp, NextTarget
<1>9. CASE CondensePasses \/ ReservedStop \/ Finish \/ Raise
  BY <1>1, <1>9 DEF CondensePasses, ReservedStop, NextTarget, Finish, Raise
<1>10. CASE ProviderFailsRevising
  BY <1>1, <1>10 DEF ProviderFailsRevising, Return, GiveUp, NextTarget
<1>11. QED
  BY <1>2, <1>3, <1>4, <1>5, <1>6, <1>7, <1>8, <1>9, <1>10
     DEF Next, Work, Alarms, Cancel, ProviderFails, EdaFails

-----------------------------------------------------------------------------
(* The searches started. *)

(* A step that starts no search. *)
LEMMA NothingRecorded ==
  ASSUME TypeOK, Recorded, UNCHANGED <<searches, started>>, answers' \in Nat,
         \/ searches = {} /\ answers' >= answers
         \/ answers' = answers /\ bound' = bound
         \/ answers' = answers + 1,
         pc' \in Unbound => pc \in Unbound,
         \/ pc' \in Ended \cup {"symbolic"}
         \/ pc \notin Ended \cup {"symbolic"}
         \/ answers' = answers + 1
  PROVE  Recorded'
<1>1. ForbiddenRespected' /\ RevisionNamesOnePlan'
  BY DEF Recorded, ForbiddenRespected, RevisionNamesOnePlan
<1>2. IsFiniteSet(searches)' /\ SharedOnlyByAlternation'
  BY DEF Recorded, SharedOnlyByAlternation, Directory
<1>3. answers \in Nat /\ \A s \in searches : s.revision \in Nat
  BY DEF TypeOK, SearchType
<1>4. ASSUME NEW s \in searches
      PROVE  s.revision < answers' /\ (s.revision = answers' - 1 => s.plan = bound')
  BY <1>3, <1>4 DEF Recorded
<1>5. pc' \notin Ended \cup {"symbolic"} => answers' > 0
  BY <1>3 DEF Recorded
<1>6. pc' \in Unbound => searches' = {}
  BY DEF Recorded
<1>7. QED
  BY <1>1, <1>2, <1>4, <1>5, <1>6 DEF Recorded

(* A search in a directory that the search r is about to use. *)
SharesWith(r, s) ==
  Directory(s) = Directory(r) => s.dir = 1 /\ s.revision + 1 < r.revision

(* A step that starts the search r. *)
LEMMA OneRecorded ==
  ASSUME TypeOK, Recorded, NEW r \in SearchType,
         searches' = searches \cup {r}, started' = started + 1,
         r.dofs \cap r.plan.forbidden = {}, r.plan = bound', r.revision = answers' - 1,
         \/ answers' = answers /\ bound' = bound
         \/ answers' = answers + 1,
         answers > 0, pc' \notin Unbound,
         \A s \in searches : s # r /\ SharesWith(r, s)
  PROVE  Recorded'
<1>1. answers \in Nat /\ started \in Nat /\ \A s \in searches : s.revision \in Nat
  BY DEF TypeOK, SearchType
<1>2. ForbiddenRespected'
  BY DEF Recorded, ForbiddenRespected
<1>3. \A s \in searches : /\ s.revision < answers
                          /\ s.revision = answers - 1 => s.plan = bound
  BY DEF Recorded
<1>4. \A s \in searches : s.revision = r.revision => s.plan = r.plan
  BY <1>1, <1>3
<1>5. RevisionNamesOnePlan'
  BY <1>4 DEF Recorded, RevisionNamesOnePlan
<1>6. Cardinality(searches) = started /\ IsFiniteSet(searches) /\ r \notin searches
  BY DEF Recorded, SharedOnlyByAlternation
<1>7. IsFiniteSet(searches \cup {r}) /\ Cardinality(searches \cup {r}) = Cardinality(searches) + 1
  BY <1>6, FS_AddElement
<1>8. IsFiniteSet(searches)' /\ Cardinality(searches') = started'
  BY <1>6, <1>7
<1>9. ASSUME NEW s \in searches', NEW t \in searches', s # t, Directory(s) = Directory(t)
      PROVE  s.dir = 1 /\ (s.revision + 1 < t.revision \/ t.revision + 1 < s.revision)
  <2>1. CASE s \in searches /\ t \in searches
    BY <1>9, <2>1 DEF Recorded, SharedOnlyByAlternation
  <2>2. CASE s \in searches /\ t = r
    BY <1>9, <2>2 DEF SharesWith
  <2>3. CASE s = r /\ t \in searches
    <3>1. t.dir = 1 /\ t.revision + 1 < s.revision
      BY <1>9, <2>3 DEF SharesWith
    <3>2. s.dir = t.dir
      BY <1>9 DEF Directory
    <3> QED
      BY <3>1, <3>2
  <2> QED
    BY <1>9, <2>1, <2>2, <2>3
<1>10. SharedOnlyByAlternation'
  BY <1>8, <1>9 DEF SharedOnlyByAlternation, Directory
<1>11. \A s \in searches' : /\ s.revision < answers'
                            /\ s.revision = answers' - 1 => s.plan = bound'
  BY <1>1, <1>3
<1>12. QED
  BY <1>1, <1>2, <1>5, <1>8, <1>10, <1>11 DEF Recorded

(* The record StartSearch adds. *)
LEMMA StartSearchFacts ==
  ASSUME TypeOK, Recorded, queue # <<>>, NEW o \in OptionType, NEW b \in BoundType,
         NEW n \in Nat \ {0}, NEW dir \in {0, 1}, StartSearch(o, b, n, dir)
  PROVE  \E r \in SearchType :
           /\ searches' = searches \cup {r} /\ started' = started + 1
           /\ r.v = Head(queue) /\ r.id = o.id /\ r.dofs = o.dofs /\ r.plan = b
           /\ r.revision = n - 1 /\ r.dir = dir
           /\ pc' = "search"
<1> DEFINE r == [v |-> Head(queue), id |-> o.id, dofs |-> o.dofs, plan |-> b,
                 revision |-> plan_revision(n), dir |-> dir]
<1>1. Head(queue) \in Violations
  BY HeadTail DEF TypeOK
<1>2. plan_revision(n) = n - 1 /\ n - 1 \in Nat
  BY DEF plan_revision
<1>3. o.id \in Nat /\ o.dofs \in SUBSET Dofs
  BY DEF OptionType
<1>4. r \in SearchType
  BY <1>1, <1>2, <1>3 DEF SearchType
<1>5. searches' = searches \cup {r} /\ started' = started + 1 /\ pc' = "search"
  BY DEF StartSearch
<1>6. /\ r.v = Head(queue) /\ r.id = o.id /\ r.dofs = o.dofs /\ r.plan = b
      /\ r.revision = n - 1 /\ r.dir = dir
  BY <1>2
<1> HIDE DEF r
<1>7. QED
  BY <1>4, <1>5, <1>6

(* The search of Proposal, and the one after an accepted revision. *)
LEMMA ProposalStarts ==
  ASSUME IInv, Proposal
  PROVE  \E r \in SearchType :
           /\ searches' = searches \cup {r} /\ started' = started + 1
           /\ r.v = Head(queue) /\ r.id = todo[1].id /\ r.dofs = todo[1].dofs
           /\ r.plan = bound /\ r.revision = answers - 1 /\ r.dir = 0
           /\ pc' = "search"
<1>1. queue # <<>> /\ todo # <<>> /\ answers > 0
  BY DEF IInv, Fresh, Recorded, Proposal, Searching, Ended
<1>2. Head(todo) = todo[1] /\ Head(todo) \in OptionType
  BY <1>1, HeadTail DEF IInv, TypeOK
<1>3. answers \in Nat \ {0} /\ bound \in BoundType
  BY <1>1 DEF IInv, TypeOK
<1>4. StartSearch(Head(todo), bound, answers, 0)
  BY DEF Proposal
<1>5. QED
  BY <1>1, <1>2, <1>3, <1>4, StartSearchFacts DEF IInv

RevisedAs(p) ==
  /\ validate_execution_feedback_revision(feedback, plan, p) = "ACCEPTED"
  /\ Binds(p) /\ plan' = p /\ answers' = answers + 1 /\ bound' = BoundKernelPlan(p)

(* An accepted revision explains the violation or searches it again. *)
LEMMA RevisionStarts ==
  ASSUME IInv, ReviseAccepted
  PROVE  /\ queue # <<>> /\ todo # <<>> /\ answers > 0
         /\ \E p \in Plans : RevisedAs(p)
         /\ \/ GiveUp("ROOT_PROPOSAL_UNAVAILABLE_AFTER_REVISION")
            \/ /\ UNCHANGED <<queue, todo, candidates, failures>>
               /\ \E r \in SearchType :
                    /\ searches' = searches \cup {r} /\ started' = started + 1
                    /\ r.v = Head(queue) /\ r.dofs \cap bound'.forbidden = {}
                    /\ r.plan = bound' /\ r.revision = answers /\ r.dir = 1
                    /\ pc' = "search"
<1>1. pc = "revise" /\ pc \in Searching
  BY DEF ReviseAccepted, Searching
<1>2. queue # <<>> /\ todo # <<>> /\ answers > 0
  BY <1>1 DEF IInv, Fresh, Recorded, Ended
<1>3. PICK p \in Plans :
        /\ RevisedAs(p)
        /\ IF Roots(Head(queue), BoundKernelPlan(p)) = <<>>
           THEN GiveUp("ROOT_PROPOSAL_UNAVAILABLE_AFTER_REVISION")
           ELSE /\ StartSearch(Roots(Head(queue), BoundKernelPlan(p))[1],
                              BoundKernelPlan(p), answers + 1, 1)
                /\ retry' = TRUE
                /\ UNCHANGED <<queue, todo, candidates, failures>>
  BY DEF ReviseAccepted, RevisedAs, Ask
<1> DEFINE rebuilt == Roots(Head(queue), BoundKernelPlan(p))
<1>4. CASE rebuilt = <<>>
  BY <1>2, <1>3, <1>4
<1>5. CASE rebuilt # <<>>
  <2>1. Head(queue) \in Violations /\ p \in PlanType /\ BoundKernelPlan(p) \in BoundType
    BY <1>2, HeadTail, BindingType DEF IInv, TypeOK
  <2>2. rebuilt \in Seq(OptionType)
    BY <2>1, RootsFacts DEF IInv, TypeOK
  <2>3. Avoids(rebuilt, p.forbidden) /\ BoundKernelPlan(p).forbidden = p.forbidden
    BY <2>1, RootsAreLegal, BindingFacts DEF IInv, TypeOK
  <2>4. /\ StartSearch(rebuilt[1], BoundKernelPlan(p), answers + 1, 1)
        /\ UNCHANGED <<queue, todo, candidates, failures>>
    BY <1>3, <1>5
  <2> HIDE DEF rebuilt
  <2>5. rebuilt[1] \in OptionType /\ 1 \in DOMAIN rebuilt
    BY <1>5, <2>2, HeadTail
  <2>6. rebuilt[1].dofs \cap BoundKernelPlan(p).forbidden = {}
    BY <2>3, <2>5 DEF Avoids
  <2>7. answers + 1 \in Nat \ {0} /\ (answers + 1) - 1 = answers
    BY DEF IInv, TypeOK
  <2>8. \E r \in SearchType :
           /\ searches' = searches \cup {r} /\ started' = started + 1
           /\ r.v = Head(queue) /\ r.id = rebuilt[1].id /\ r.dofs = rebuilt[1].dofs
           /\ r.plan = BoundKernelPlan(p)
           /\ r.revision = (answers + 1) - 1 /\ r.dir = 1
           /\ pc' = "search"
    BY <1>2, <2>1, <2>4, <2>5, <2>7, StartSearchFacts DEF IInv
  <2>9. QED
    BY <1>2, <1>3, <2>4, <2>6, <2>7, <2>8 DEF RevisedAs
<1>6. QED
  BY <1>4, <1>5

(* An accepted revision has another id than the plan it revises. *)
LEMMA RevisionRenames ==
  ASSUME TypeOK, Adopted, ReviseAccepted
  PROVE  bound.id # bound'.id
<1>1. PICK p \in Plans :
        /\ validate_execution_feedback_revision(feedback, plan, p) = "ACCEPTED"
        /\ bound' = BoundKernelPlan(p)
  BY DEF ReviseAccepted
<1>2. /\ Permitted(feedback.kind, plan, p, feedback.sets)
      /\ ~Unchanged(feedback.kind, plan, p)
  BY <1>1 DEF validate_execution_feedback_revision
<1>3. p.id # plan.id
  BY <1>2 DEF Permitted
<1>4. bound = BoundKernelPlan(plan)
  BY DEF Adopted, ReviseAccepted, Unbound, Ended
<1> QED
  BY <1>1, <1>3, <1>4 DEF BoundKernelPlan

LEMMA RecordedStep ==
  ASSUME IInv, Next
  PROVE  Recorded'
<1>0. TypeOK /\ Adopted /\ Recorded /\ Fresh /\ answers \in Nat
  BY DEF IInv, TypeOK
<1>1. CASE Proposal
  <2>1. PICK r \in SearchType :
          /\ searches' = searches \cup {r} /\ started' = started + 1
          /\ r.v = Head(queue) /\ r.id = todo[1].id /\ r.dofs = todo[1].dofs
          /\ r.plan = bound /\ r.revision = answers - 1 /\ r.dir = 0
          /\ pc' = "search"
    BY <1>1, ProposalStarts
  <2>2. pc = "proposal" /\ pc \in Searching /\ pc \notin Unbound \cup Ended
    BY <1>1 DEF Proposal, Searching, Unbound, Ended
  <2>3. todo # <<>> /\ 1 \in DOMAIN todo /\ answers > 0
    BY <1>0, <2>2, HeadTail DEF Fresh, TypeOK, Recorded, Ended
  <2>4. r.dofs \cap bound.forbidden = {}
    BY <1>0, <2>1, <2>2, <2>3 DEF Adopted, Avoids
  <2>5. ASSUME NEW s \in searches PROVE s # r /\ SharesWith(r, s)
    <3>1. ~ (s.v = r.v /\ s.id = r.id /\ s.dir = r.dir)
      BY <1>0, <2>1, <2>2 DEF Fresh
    <3> QED
      BY <3>1 DEF SharesWith, Directory
  <2>6. UNCHANGED <<answers, bound>> /\ pc' \notin Unbound
    BY <1>1, <2>1 DEF Proposal, plan_state, Unbound
  <2>7. QED
    BY <1>0, <2>1, <2>3, <2>4, <2>5, <2>6, OneRecorded
<1>2. CASE ReviseAccepted
  <2>1. CASE GiveUp("ROOT_PROPOSAL_UNAVAILABLE_AFTER_REVISION")
    <3>1. UNCHANGED <<searches, started>> /\ pc' = "target" /\ answers' = answers + 1
      BY <1>2, <2>1 DEF ReviseAccepted, Ask, GiveUp, NextTarget
    <3>2. QED
      BY <1>0, <3>1, NothingRecorded DEF Unbound
  <2>2. CASE /\ UNCHANGED <<queue, todo, candidates, failures>>
             /\ \E r \in SearchType :
                  /\ searches' = searches \cup {r} /\ started' = started + 1
                  /\ r.v = Head(queue) /\ r.dofs \cap bound'.forbidden = {}
                  /\ r.plan = bound' /\ r.revision = answers /\ r.dir = 1
                  /\ pc' = "search"
    <3>1. PICK r \in SearchType :
            /\ searches' = searches \cup {r} /\ started' = started + 1
            /\ r.v = Head(queue) /\ r.dofs \cap bound'.forbidden = {}
            /\ r.plan = bound' /\ r.revision = answers /\ r.dir = 1
            /\ pc' = "search"
      BY <2>2
    <3>2. answers > 0 /\ answers' = answers + 1
      BY <1>2, RevisionStarts DEF RevisedAs
    <3>3. ASSUME NEW s \in searches PROVE s # r /\ SharesWith(r, s)
      <4>1. s.revision \in Nat /\ s.revision < answers /\ r.revision = answers
            /\ (s.revision = answers - 1 => s.plan = bound)
        BY <1>0, <3>1 DEF Recorded, TypeOK, SearchType
      <4>2. bound.id # bound'.id
        BY <1>0, <1>2, RevisionRenames
      <4>3. ASSUME Directory(s) = Directory(r) PROVE s.dir = 1 /\ s.revision + 1 < r.revision
        <5>1. s.plan.id = bound'.id /\ s.dir = 1
          BY <3>1, <4>3 DEF Directory
        <5>2. s.revision # answers - 1
          BY <4>1, <4>2, <5>1
        <5> QED
          BY <1>0, <4>1, <5>1, <5>2
      <4> QED
        BY <1>0, <4>1, <4>3 DEF SharesWith
    <3>4. r.revision = answers' - 1 /\ pc' \notin Unbound
      BY <1>0, <3>1, <3>2 DEF Unbound
    <3>5. r.dofs \cap r.plan.forbidden = {} /\ r.plan = bound'
      BY <3>1
    <3>6. QED
      BY <1>0, <3>1, <3>2, <3>3, <3>4, <3>5, OneRecorded
  <2>3. QED
    BY <1>2, <2>1, <2>2, RevisionStarts
<1>3. CASE PlanSymbolic \/ Finalize \/ Bind \/ Rebind
  <2>1. searches = {} /\ UNCHANGED <<searches, started>> /\ pc \in Unbound
    BY <1>0, <1>3 DEF PlanSymbolic, Finalize, Bind, Rebind, Return, search_state, Recorded, Unbound
  <2>2. answers' = answers \/ answers' = answers + 1
    BY <1>3 DEF PlanSymbolic, Finalize, Bind, Rebind, Ask, plan_state
  <2>3. \/ pc' \in Ended \cup {"symbolic"} \/ pc \notin Ended \cup {"symbolic"}
        \/ answers' = answers + 1
    BY <1>3 DEF PlanSymbolic, Finalize, Bind, Rebind, Ask, Return, Ended
  <2>4. QED
    BY <1>0, <2>1, <2>2, <2>3, NothingRecorded
<1>4. CASE RevisePreferred
  <2>1. UNCHANGED <<searches, started>>
    BY <1>4 DEF RevisePreferred, Return, search_state
  <2>2. (answers' = answers /\ bound' = bound) \/ answers' = answers + 1
    BY <1>4 DEF RevisePreferred, Ask, plan_state
  <2>3. pc' \notin Unbound /\ pc \notin Ended \cup {"symbolic"}
    BY <1>4 DEF RevisePreferred, Return, Unbound, Ended
  <2>4. QED
    BY <1>0, <2>1, <2>2, <2>3, NothingRecorded
<1>5. ASSUME UNCHANGED <<searches, started, answers, bound>>, pc \notin Unbound \cup Ended,
             pc' \notin Unbound
      PROVE  Recorded'
  BY <1>0, <1>5, NothingRecorded DEF Unbound
<1>6. CASE PreferredFeedback
  BY <1>5, <1>6 DEF PreferredFeedback, search_state, Unbound, Ended
<1>7. CASE Target
  BY <1>5, <1>7 DEF Target, plan_state, Unbound, Ended
<1>8. CASE SearchClean
  BY <1>5, <1>8 DEF SearchClean, plan_state, Unbound, Ended
<1>9. ASSUME NEW code, NextProposal(code) \/ GiveUp(code)
      PROVE  UNCHANGED <<searches, started>> /\ pc' \in {"target", "proposal"}
  BY <1>9 DEF NextProposal, GiveUp, NextTarget
<1>10. CASE SearchFails \/ CondenseFails \/ IntegrityFails
  BY <1>5, <1>9, <1>10 DEF SearchFails, CondenseFails, IntegrityFails, plan_state, Unbound, Ended
<1>11. CASE SearchFeedback
  BY <1>5, <1>9, <1>11 DEF SearchFeedback, Unbound, Ended
<1>12. CASE ReviseRefused
  <2>1. /\ UNCHANGED <<searches, started, bound>> /\ pc' \in {"target", "proposal"}
        /\ pc = "revise"
    BY <1>9, <1>12 DEF ReviseRefused
  <2>2. answers' = answers \/ answers' = answers + 1
    BY <1>12 DEF ReviseRefused
  <2>3. QED
    BY <1>0, <2>1, <2>2, NothingRecorded DEF Unbound, Ended
<1>13. CASE CondensePasses \/ ReservedStop
  BY <1>5, <1>13 DEF CondensePasses, ReservedStop, NextTarget, plan_state, Unbound, Ended
<1>14. CASE Finish
  BY <1>5, <1>14 DEF Finish, plan_state, search_state, Unbound, Ended
<1>15. CASE Raise
  <2>1. UNCHANGED <<searches, started, answers, bound>> /\ pc' = "raised"
    BY <1>15 DEF Raise, plan_state, search_state
  <2>2. QED
    BY <1>0, <2>1, NothingRecorded DEF Unbound, Ended
<1>16. CASE ProviderFailsRevising
  <2>1. UNCHANGED <<searches, started, answers, bound>> /\ pc' \in {"returned", "target"}
    BY <1>9, <1>16 DEF ProviderFailsRevising, Return, GiveUp, NextTarget, plan_state
  <2>2. QED
    BY <1>5, <1>16, <2>1 DEF ProviderFailsRevising, Unbound, Ended
<1>17. QED
  BY <1>1, <1>2, <1>3, <1>4, <1>6, <1>7, <1>8, <1>10, <1>11, <1>12, <1>13, <1>14, <1>15, <1>16
     DEF Next, Work, Alarms, Cancel, ProviderFails, EdaFails

-----------------------------------------------------------------------------
(* The violations and the proposals still to come. *)

(* Leaving the inner loop leaves no search of a violation to come. *)
LEMMA FreshKept ==
  ASSUME TypeOK, Fresh, UNCHANGED searches, pc \in Searching,
         /\ pc' = "target"
         /\ queue' = <<>> \/ queue' = Tail(queue)
  PROVE  Fresh'
<1>1. queue # <<>> /\ \A s \in searches : s.v \notin ToSet(Tail(queue))
  BY DEF Fresh
<1>2. Distinct(queue')
  <2>1. CASE queue' = <<>>
    BY <2>1 DEF Distinct
  <2>2. CASE queue' = Tail(queue)
    BY <1>1, <2>2, QueueTail DEF Fresh, TypeOK
  <2>3. QED
    BY <2>1, <2>2
<1>3. \A s \in searches : s.v \notin ToSet(queue')
  <2>1. CASE queue' = <<>>
    BY <2>1 DEF ToSet
  <2>2. CASE queue' = Tail(queue)
    BY <1>1, <2>2
  <2>3. QED
    BY <2>1, <2>2
<1>4. QED
  BY <1>2, <1>3 DEF Fresh, Unbound, Searching

LEMMA NothingFresh ==
  ASSUME Distinct(queue'), searches' = {} \/ pc' \in Ended, pc' \notin Searching
  PROVE  Fresh'
BY DEF Fresh, Ended, Unbound, Searching

(* The next proposal of the loop was not searched for this violation. *)
LEMMA NextProposalFresh ==
  ASSUME TypeOK, Fresh, NEW code, NextProposal(code) \/ GiveUp(code), pc \in Searching,
         pc # "proposal"
  PROVE  Fresh'
<1>1. CASE GiveUp(code)
  BY <1>1, FreshKept DEF GiveUp, NextTarget
<1>2. CASE /\ Len(todo) > 1 /\ todo' = Tail(todo) /\ pc' = "proposal"
           /\ UNCHANGED <<queue, searches>>
  <2>1. queue # <<>> /\ todo # <<>> /\ Len(todo) \in Nat /\ todo \in Seq(OptionType)
    BY LenProperties DEF Fresh, TypeOK
  <2>2. Tail(todo) # <<>>
    BY <1>2, <2>1, HeadTail
  <2>3. ASSUME NEW s \in searches, s.v = Head(queue), s.dir = 0,
               NEW i \in DOMAIN Tail(todo)
        PROVE  s.id # Tail(todo)[i].id
    <3>1. i \in Nat \ {0} /\ i + 1 \in DOMAIN todo /\ Tail(todo)[i] = todo[i + 1]
      BY <2>1, HeadTail
    <3>2. i + 1 > 1
      BY <3>1
    <3>3. QED
      BY <2>3, <3>1, <3>2 DEF Fresh
  <2>4. 1 \in DOMAIN Tail(todo)
    BY <2>1, <2>2, HeadTail
  <2>5. Distinct(queue') /\ \A s \in searches' : s.v \notin ToSet(Tail(queue'))
    BY <1>2 DEF Fresh
  <2>6. \A s \in searches' :
            s.v = Head(queue') /\ s.dir = 0 =>
              /\ \A i \in DOMAIN todo' : i > 1 => s.id # todo'[i].id
              /\ pc' = "proposal" => s.id # todo'[1].id
    BY <1>2, <2>3, <2>4
  <2>7. QED
    BY <1>2, <2>1, <2>2, <2>5, <2>6 DEF Fresh, Unbound
<1>3. QED
  BY <1>1, <1>2 DEF NextProposal

LEMMA FreshStep ==
  ASSUME IInv, Next
  PROVE  Fresh'
<1>0. TypeOK /\ Adopted /\ Recorded /\ Fresh /\ answers \in Nat /\ plan \in PlanType
  BY DEF IInv, TypeOK
<1>1. ASSUME NEW p \in PlanType
      PROVE  Distinct(InOrder(Selected(p)))
  <2>1. Selected(p) \in SUBSET Violations
    BY LenProperties, ElementOfSeq DEF PlanType, Selected, ToSet
  <2>2. QED
    BY <2>1, InOrderFacts
<1>2. CASE PlanSymbolic \/ Finalize
  BY <1>0, <1>2, NothingFresh
     DEF PlanSymbolic, Finalize, Return, search_state, Fresh, Unbound, Ended, Searching
<1>3. CASE Bind
  <2>1. searches' = {}
    BY <1>0, <1>3 DEF Bind, Return, search_state, Fresh, Unbound
  <2>2. Distinct(queue')
    BY <1>0, <1>1, <1>3 DEF Bind, Return, search_state, Fresh
  <2>3. pc' \notin Searching
    BY <1>3 DEF Bind, Return, Searching
  <2>4. QED
    BY <2>1, <2>2, <2>3, NothingFresh
<1>4. CASE Rebind
  <2>1. searches' = {}
    BY <1>0, <1>4 DEF Rebind, Return, Fresh, Unbound
  <2>2. Distinct(queue')
    BY <1>0, <1>1, <1>4, BindingType DEF Rebind, Return, Fresh
  <2>3. pc' \notin Searching
    BY <1>4 DEF Rebind, Return, Searching
  <2>4. QED
    BY <2>1, <2>2, <2>3, NothingFresh
<1>5. CASE PreferredFeedback \/ RevisePreferred
  <2>1. searches' = {} /\ queue' = queue
    BY <1>0, <1>5 DEF PreferredFeedback, RevisePreferred, Return, search_state, Fresh, Unbound
  <2>2. pc' \notin Searching
    BY <1>5 DEF PreferredFeedback, RevisePreferred, Return, Searching
  <2>3. QED
    BY <1>0, <2>1, <2>2, NothingFresh DEF Fresh
<1>6. CASE Target
  <2>1. /\ pc = "target" /\ queue # <<>> /\ searches' = searches
        /\ \A s \in searches : s.v \notin ToSet(queue)
    BY <1>0, <1>6 DEF Target, Fresh
  <2>2. /\ ToSet(queue) = {Head(queue)} \cup ToSet(Tail(queue))
        /\ Distinct(queue) /\ Distinct(Tail(queue))
    BY <1>0, <2>1, QueueTail DEF Fresh, TypeOK
  <2>3. CASE queue' = Tail(queue) /\ pc' = pc
    BY <2>1, <2>2, <2>3 DEF Fresh, Searching, Unbound
  <2>4. CASE todo' # <<>> /\ pc' = "proposal" /\ queue' = queue
    BY <2>1, <2>2, <2>4 DEF Fresh, Searching, Unbound
  <2>5. QED
    BY <1>6, <2>1, <2>3, <2>4 DEF Target
<1>7. CASE Proposal
  <2>1. PICK r \in SearchType :
          /\ searches' = searches \cup {r} /\ started' = started + 1
          /\ r.v = Head(queue) /\ r.id = todo[1].id /\ r.dofs = todo[1].dofs
          /\ r.plan = bound /\ r.revision = answers - 1 /\ r.dir = 0
          /\ pc' = "search"
    BY <1>7, ProposalStarts
  <2>2. UNCHANGED <<queue, todo, answers>> /\ pc = "proposal"
    BY <1>7 DEF Proposal, plan_state
  <2>3. /\ queue # <<>> /\ todo # <<>>
        /\ \A s \in searches : s.v \notin ToSet(Tail(queue))
        /\ DistinctIds(todo)
    BY <1>0, <2>2 DEF Fresh, Adopted, Searching, Unbound, Ended
  <2>4. Head(queue) \notin ToSet(Tail(queue))
    BY <1>0, <2>3, QueueTail DEF Fresh, TypeOK
  <2>5. 1 \in DOMAIN todo
    BY <1>0, <2>3, HeadTail DEF TypeOK
  <2>6. \A i \in DOMAIN todo : i > 1 => r.id # todo[i].id
    <3>1. SUFFICES ASSUME NEW i \in DOMAIN todo, i > 1, todo[1].id = todo[i].id PROVE FALSE
      BY <2>1
    <3>2. i = 1
      BY <2>3, <2>5, <3>1 DEF DistinctIds
    <3>3. QED
      BY <3>1, <3>2
  <2>7. \A s \in searches' : s.v \notin ToSet(Tail(queue'))
    BY <2>1, <2>2, <2>3, <2>4
  <2>8. \A s \in searches' :
            s.v = Head(queue') /\ s.dir = 0 =>
              \A i \in DOMAIN todo' : i > 1 => s.id # todo'[i].id
    BY <1>0, <2>1, <2>2, <2>6 DEF Fresh, Searching
  <2>9. QED
    BY <1>0, <2>1, <2>2, <2>3, <2>7, <2>8 DEF Fresh, Unbound
<1>8. CASE SearchClean
  <2>1. /\ UNCHANGED <<searches, queue, todo, answers>> /\ pc = "search" /\ pc' = "condense"
    BY <1>8 DEF SearchClean, plan_state
  <2>2. QED
    BY <1>0, <2>1 DEF Fresh, Searching, Unbound
<1>9. CASE SearchFails \/ CondenseFails \/ IntegrityFails
  <2>1. /\ pc \in Searching /\ pc # "proposal" /\ answers' = answers
        /\ NextProposal("TRAJECTORY_FAIL") \/ GiveUp("TRAJECTORY_FAIL")
    BY <1>9 DEF SearchFails, CondenseFails, IntegrityFails, Searching, plan_state
  <2>2. QED
    BY <1>0, <2>1, NextProposalFresh
<1>10. ASSUME pc \in Searching, NEW code, GiveUp(code)
       PROVE  Fresh'
  BY <1>0, <1>10, FreshKept DEF GiveUp, NextTarget
<1>11. CASE SearchFeedback
  <2>1. pc = "search" /\ pc \in Searching /\ UNCHANGED answers
    BY <1>11 DEF SearchFeedback, Searching
  <2>2. CASE pc' = "revise" /\ UNCHANGED <<queue, todo, searches>>
    BY <1>0, <2>1, <2>2 DEF Fresh, Searching, Unbound
  <2>3. QED
    BY <1>10, <1>11, <2>1, <2>2 DEF SearchFeedback
<1>12. CASE ReviseAccepted
  <2>1. pc \in Searching /\ queue # <<>> /\ todo # <<>> /\ answers' = answers + 1
    BY <1>12, RevisionStarts DEF ReviseAccepted, Searching, RevisedAs
  <2>2. CASE UNCHANGED <<queue, todo, candidates, failures>> /\ \E r \in SearchType :
               /\ searches' = searches \cup {r} /\ started' = started + 1
               /\ r.v = Head(queue) /\ r.dofs \cap bound'.forbidden = {}
               /\ r.plan = bound' /\ r.revision = answers /\ r.dir = 1
               /\ pc' = "search"
    <3>1. PICK r \in SearchType :
            /\ searches' = searches \cup {r} /\ r.v = Head(queue) /\ r.dir = 1
            /\ pc' = "search"
      BY <2>2
    <3>2. Head(queue) \notin ToSet(Tail(queue))
      BY <1>0, <2>1, QueueTail DEF Fresh, TypeOK
    <3>3. \A s \in searches' : s.v \notin ToSet(Tail(queue'))
      BY <1>0, <2>1, <2>2, <3>1, <3>2 DEF Fresh
    <3>4. \A s \in searches' : s.v = Head(queue) /\ s.dir = 0 =>
            \A i \in DOMAIN todo : i > 1 => s.id # todo[i].id
      <4>1. \A s \in searches : s.v = Head(queue) /\ s.dir = 0 =>
              \A i \in DOMAIN todo : i > 1 => s.id # todo[i].id
        BY <1>0, <2>1 DEF Fresh
      <4>2. \A s \in searches' : s.dir = 0 => s \in searches
        BY <3>1
      <4>3. QED
        BY <4>1, <4>2, Zenon
    <3>5. \A s \in searches' : s.v = Head(queue') /\ s.dir = 0 =>
            \A i \in DOMAIN todo' : i > 1 => s.id # todo'[i].id
      BY <2>2, <3>4
    <3>6. queue' # <<>> /\ todo' # <<>> /\ Distinct(queue')
      BY <1>0, <2>1, <2>2 DEF Fresh
    <3>7. pc' \notin Unbound \cup {"preferred", "revise preferred", "target", "proposal"}
      BY <3>1 DEF Unbound
    <3>8. QED
      BY <3>3, <3>5, <3>6, <3>7 DEF Fresh
  <2>3. QED
    BY <1>10, <1>12, <2>1, <2>2, RevisionStarts
<1>13. CASE ReviseRefused
  <2>1. pc \in Searching /\ \E code : GiveUp(code)
    BY <1>13 DEF ReviseRefused, Searching
  <2>2. QED
    BY <1>10, <2>1
<1>14. CASE CondensePasses \/ ReservedStop
  <2>1. /\ pc \in Searching /\ pc' = "target" /\ UNCHANGED searches
        /\ queue' = <<>> \/ queue' = Tail(queue)
    BY <1>14 DEF CondensePasses, ReservedStop, NextTarget, Searching
  <2>2. QED
    BY <1>0, <2>1, FreshKept
<1>15. CASE Finish \/ Raise
  BY <1>0, <1>15, NothingFresh DEF Finish, Raise, search_state, Fresh, Ended, Searching
<1>16. CASE ProviderFailsRevising
  <2>1. CASE pc = "revise preferred"
    BY <1>0, <1>16, <2>1, NothingFresh DEF ProviderFailsRevising, Return, Fresh, Ended, Searching
  <2>2. CASE pc = "revise"
    BY <1>10, <1>16, <2>2 DEF ProviderFailsRevising, Searching
  <2>3. QED
    BY <1>16, <2>1, <2>2 DEF ProviderFailsRevising
<1>17. QED
  BY <1>2, <1>3, <1>4, <1>5, <1>6, <1>7, <1>8, <1>9, <1>11, <1>12, <1>13, <1>14, <1>15, <1>16
     DEF Next, Work, Alarms, Cancel, ProviderFails, EdaFails

-----------------------------------------------------------------------------
(* What is left of the selected violations. *)

Grows ==
  /\ failures \subseteq failures' /\ \A f \in failures' : f[2] # Region
  /\ \/ candidates' = candidates
     \/ Len(candidates) < MaxCandidates /\ \E c : candidates' = Append(candidates, c)

(* What is explained stays so while failures and candidates only grow. *)
LEMMA ExplainedKept ==
  ASSUME TypeOK, Grows, NEW v, Explained(v)
  PROVE  Explained(v)'
<1>1. CASE \E f \in failures : f[2] = v \/ f[1] = "DEFERRED_BUDGET"
  BY <1>1 DEF Explained, Grows
<1>2. CASE \E i \in 1..Len(candidates) : candidates[i].v = v
  <2>1. CASE candidates' = candidates
    BY <1>2, <2>1 DEF Explained
  <2>2. ASSUME NEW c, candidates' = Append(candidates, c)
        PROVE  Explained(v)'
    <3>1. PICK i \in 1..Len(candidates) : candidates[i].v = v
      BY <1>2
    <3>2. candidates'[i] = candidates[i] /\ i \in 1..Len(candidates')
      BY <2>2, AppendProperties, LenProperties DEF TypeOK
    <3>3. QED
      BY <3>1, <3>2 DEF Explained
  <2>3. QED
    BY <2>1, <2>2 DEF Grows
<1>3. CASE Len(candidates) = MaxCandidates
  <2>1. candidates' = candidates
    BY <1>3, TrajectoryAssumption DEF Grows
  <2>2. QED
    BY <1>3, <2>1 DEF Explained
<1>4. QED
  BY <1>1, <1>2, <1>3 DEF Explained

(* A step of the loops, when what leaves the queue is explained. *)
LEMMA StillVisited ==
  ASSUME TypeOK, Visited, pc \notin Unbound \cup Ended, pc' \notin Unbound \cup Ended,
         plan'.targets = plan.targets, Grows,
         \A v \in ToSet(queue) : v \in ToSet(queue') \/ Explained(v)',
         Len(candidates') <= MaxCandidates,
         queue' # <<>> => Len(candidates') < MaxCandidates
  PROVE  Visited'
<1>1. \A v \in Selected(plan') : v \in ToSet(queue') \/ Explained(v)'
  <2>1. TAKE v \in Selected(plan')
  <2>2. v \in ToSet(queue) \/ Explained(v)
    BY DEF Visited, Selected
  <2>3. QED
    BY <2>2, ExplainedKept
<1>2. \A f \in failures' : f[2] # Region
  BY DEF Grows
<1>3. pc' # "returned"
  BY DEF Ended
<1>4. QED
  BY <1>1, <1>2, <1>3 DEF Visited, EveryTargetExplained, Selected

(* Leaving the inner loop: the violation at the head is explained, and the others
   are too when the loop over them stops.                                      *)
LEMMA LeavingVisited ==
  ASSUME TypeOK, Fresh, Visited, pc \in Searching, pc' = "target",
         plan'.targets = plan.targets, Grows, NEW h, h = Head(queue), Explained(h)',
         Len(candidates') <= MaxCandidates,
         \/ queue' = Tail(queue) /\ Len(candidates') < MaxCandidates
         \/ /\ queue' = <<>>
            /\ \/ Len(candidates') = MaxCandidates
               \/ \E f \in failures' : f[1] = "DEFERRED_BUDGET"
  PROVE  Visited'
<1>1. queue # <<>> /\ queue \in Seq(Violations)
  BY DEF Fresh, TypeOK
<1>2. ToSet(queue) = {Head(queue)} \cup ToSet(Tail(queue))
  BY <1>1, QueueTail
<1>3. \A v \in ToSet(queue) : v \in ToSet(queue') \/ Explained(v)'
  <2>1. TAKE v \in ToSet(queue)
  <2>2. CASE queue' = Tail(queue)
    BY <1>2, <2>1, <2>2
  <2>3. CASE Len(candidates') = MaxCandidates \/ \E f \in failures' : f[1] = "DEFERRED_BUDGET"
    BY <2>3 DEF Explained
  <2>4. QED
    BY <2>2, <2>3
<1>4. queue' # <<>> => Len(candidates') < MaxCandidates
  OBVIOUS
<1>5. pc \notin Unbound \cup Ended /\ pc' \notin Unbound \cup Ended
  BY DEF Searching, Unbound, Ended
<1>6. QED
  BY <1>1, <1>3, <1>4, <1>5, StillVisited

(* Giving a violation up explains it; the others stay in the queue. *)
LEMMA GiveUpVisited ==
  ASSUME TypeOK, Fresh, Visited, pc \in Searching, plan'.targets = plan.targets,
         NEW code \in FailureCodes, GiveUp(code)
  PROVE  Visited'
<1>1. queue # <<>> /\ queue \in Seq(Violations) /\ Len(candidates) < MaxCandidates
  BY DEF Fresh, Visited, TypeOK, Searching, Ended, Unbound
<1>2. Head(queue) \in Violations /\ Head(queue) # Region
  BY <1>1, HeadTail, TrajectoryAssumption
<1>3. failures' = failures \cup {<<code, Head(queue)>>} /\ UNCHANGED candidates
  BY DEF GiveUp, Fail
<1>4. Grows
  BY <1>2, <1>3 DEF Grows, Visited, Searching, Ended
<1>5. PICK h : h = Head(queue)
  OBVIOUS
<1>9. Explained(h)'
  <2>1. <<code, h>> \in failures' /\ <<code, h>>[2] = h
    BY <1>3, <1>5
  <2>2. QED
    BY <2>1 DEF Explained
<1>6. queue' = Tail(queue) /\ pc' = "target"
  <2>1. Len(candidates) \in Nat /\ MaxCandidates \in Nat
    BY LenProperties, TrajectoryAssumption DEF TypeOK
  <2>2. ~(Len(candidates) >= MaxCandidates)
    BY <1>1, <2>1
  <2>3. QED
    BY <2>2 DEF GiveUp, NextTarget
<1>7. Len(candidates') <= MaxCandidates /\ Len(candidates') < MaxCandidates
  BY <1>1, <1>3, LenProperties, TrajectoryAssumption DEF TypeOK
<1>8. QED
  BY <1>4, <1>5, <1>6, <1>7, <1>9, LeavingVisited

LEMMA NextProposalVisited ==
  ASSUME TypeOK, Fresh, Visited, pc \in Searching, plan'.targets = plan.targets,
         NEW code \in FailureCodes, NextProposal(code)
  PROVE  Visited'
<1>1. CASE GiveUp(code)
  BY <1>1, GiveUpVisited
<1>2. CASE Fail(code) /\ pc' = "proposal" /\ UNCHANGED <<queue, candidates>>
  <2>1. queue # <<>> /\ queue \in Seq(Violations) /\ Len(candidates) < MaxCandidates
        /\ Len(candidates) <= MaxCandidates
    BY DEF Fresh, Visited, TypeOK, Searching, Ended, Unbound
  <2>2. Head(queue) # Region
    BY <2>1, HeadTail, TrajectoryAssumption
  <2>3. Grows
    BY <1>2, <2>2 DEF Fail, Grows, Visited, Searching, Ended
  <2>4. pc \notin Unbound \cup Ended /\ pc' \notin Unbound \cup Ended
    BY <1>2 DEF Searching, Unbound, Ended
  <2>5. QED
    BY <1>2, <2>1, <2>3, <2>4, StillVisited
<1>3. QED
  BY <1>1, <1>2 DEF NextProposal

(* A step that leaves the queue, the candidates and the failures alone. *)
LEMMA SameVisited ==
  ASSUME TypeOK, Visited, pc \notin Unbound \cup Ended, pc' \notin Unbound \cup Ended,
         plan'.targets = plan.targets, UNCHANGED <<queue, candidates, failures>>
  PROVE  Visited'
<1>1. Grows
  BY DEF Grows, Visited
<1>2. QED
  BY <1>1, StillVisited DEF Visited

(* A region that fails as a whole returns no candidate. *)
LEMMA ReturnVisited ==
  ASSUME NEW code, code # "KERNEL_NO_CANDIDATE", Return(code)
  PROVE  Visited'
<1>1. pc' = "returned" /\ candidates' = <<>> /\ <<code, Region>> \in failures'
  BY DEF Return
<1>2. RegionFailed'
  BY <1>1 DEF RegionFailed
<1>3. QED
  BY <1>1, <1>2 DEF Visited, EveryTargetExplained, Ended

LEMMA VisitedStep ==
  ASSUME IInv, Next
  PROVE  Visited'
<1>0. TypeOK /\ Adopted /\ Asked /\ Fresh /\ Visited /\ plan \in PlanType
  BY DEF IInv, TypeOK
<1>1. CASE PlanSymbolic \/ Finalize
  <2>1. CASE pc \in Unbound /\ pc' \in Unbound /\ UNCHANGED <<candidates, failures, queue>>
    BY <1>0, <2>1 DEF Visited, Unbound, Ended, EveryTargetExplained
  <2>2. QED
    BY <1>1, <2>1, ReturnVisited DEF PlanSymbolic, Finalize, Unbound, search_state
<1>2. ASSUME NEW p \in PlanType, plan' = p, queue' = InOrder(Selected(p)),
             UNCHANGED <<candidates, failures>>, pc \in {"bind", "rebind"}, pc' = "preferred",
             Binds(p)
      PROVE  Visited'
  <2>1. Selected(p) \in SUBSET Violations
    BY LenProperties, ElementOfSeq DEF PlanType, Selected, ToSet
  <2>2. ToSet(queue') = Selected(plan')
    BY <1>2, <2>1, InOrderFacts
  <2>3. \A f \in failures' : f[2] # Region
    BY <1>0, <1>2 DEF Visited, Ended
  <2>4. QED
    BY <1>0, <1>2, <2>2, <2>3 DEF Visited, EveryTargetExplained, Unbound, Ended, Selected
<1>3. CASE Bind
  <2>1. CASE pc \in Unbound /\ pc' \in Unbound /\ UNCHANGED <<candidates, failures, queue>>
    BY <1>0, <2>1 DEF Visited, Unbound, Ended, EveryTargetExplained
  <2>2. QED
    BY <1>0, <1>2, <1>3, <2>1, ReturnVisited DEF Bind, Unbound, search_state, plan_state
<1>4. CASE Rebind
  BY <1>0, <1>2, <1>4, ReturnVisited, TrajectoryAssumption DEF Rebind, Ask
<1>5. CASE RevisePreferred
  <2>1. pc \notin Unbound \cup Ended
    BY <1>5 DEF RevisePreferred, Unbound, Ended
  <2>2. ASSUME NEW p \in Plans, plan' = p, pc' = "target",
               UNCHANGED <<queue, candidates, failures>>,
               validate_execution_feedback_revision(feedback, plan, p) = "ACCEPTED"
        PROVE  Visited'
    <3>1. Permitted(feedback.kind, plan, p, feedback.sets) /\ feedback.kind \in FeedbackKinds
      BY <1>0, <1>5, <2>2
         DEF validate_execution_feedback_revision, Asked, RevisePreferred, FeedbackKinds
    <3>2. p \in PlanType
      BY TrajectoryAssumption
    <3>3. plan'.targets = plan.targets
      BY <1>0, <2>2, <3>1, <3>2, PermittedFacts
    <3>4. QED
      BY <1>0, <2>1, <2>2, <3>3, SameVisited DEF Unbound, Ended
  <2>3. QED
    BY <1>5, <2>2, ReturnVisited DEF RevisePreferred, Ask, search_state
<1>6. CASE PreferredFeedback
  BY <1>0, <1>6, SameVisited DEF PreferredFeedback, search_state, Unbound, Ended
<1>7. CASE Target
  <2>1. queue # <<>> /\ queue \in Seq(Violations) /\ pc = "target" /\ plan' = plan
        /\ UNCHANGED candidates
    BY <1>0, <1>7 DEF Target, TypeOK, plan_state
  <2>2. Len(candidates) < MaxCandidates /\ Len(candidates) <= MaxCandidates
    BY <1>0, <2>1 DEF Visited, Ended
  <2>3. pc \notin Unbound \cup Ended /\ pc' \notin Unbound \cup Ended
    BY <1>7, <2>1 DEF Target, Unbound, Ended
  <2>4. Head(queue) # Region /\ ToSet(queue) = {Head(queue)} \cup ToSet(Tail(queue))
    BY <2>1, HeadTail, QueueTail, TrajectoryAssumption
  <2>5. ASSUME NEW code, Fail(code), queue' = Tail(queue)
        PROVE  Visited'
    <3>1. Grows
      BY <1>0, <2>1, <2>4, <2>5 DEF Grows, Fail, Visited, Ended
    <3>2. PICK h : h = Head(queue)
      OBVIOUS
    <3>3. Explained(h)'
      <4>1. <<code, h>> \in failures' /\ <<code, h>>[2] = h
        BY <2>5, <3>2 DEF Fail
      <4>2. QED
        BY <4>1 DEF Explained
    <3>5. \A v \in ToSet(queue) : v \in ToSet(queue') \/ Explained(v)'
      BY <2>4, <2>5, <3>2, <3>3
    <3>4. QED
      BY <1>0, <2>1, <2>2, <2>3, <3>1, <3>5, StillVisited
  <2>6. CASE UNCHANGED <<queue, failures>>
    BY <1>0, <2>1, <2>3, <2>6, SameVisited
  <2>7. QED
    BY <1>7, <2>5, <2>6 DEF Target
<1>8. CASE Proposal \/ SearchClean
  BY <1>0, <1>8, SameVisited DEF Proposal, StartSearch, SearchClean, plan_state, Unbound, Ended
<1>9. CASE SearchFails \/ CondenseFails \/ IntegrityFails
  <2>1. /\ pc \in Searching /\ plan' = plan /\ "TRAJECTORY_FAIL" \in FailureCodes
        /\ NextProposal("TRAJECTORY_FAIL") \/ GiveUp("TRAJECTORY_FAIL")
    BY <1>9 DEF SearchFails, CondenseFails, IntegrityFails, Searching, plan_state, FailureCodes
  <2>2. QED
    BY <1>0, <2>1, NextProposalVisited, GiveUpVisited
<1>10. CASE SearchFeedback
  <2>1. pc \in Searching /\ plan' = plan /\ "REVISION_LIMIT_REACHED" \in FailureCodes
        /\ pc \notin Unbound \cup Ended
    BY <1>10 DEF SearchFeedback, Searching, FailureCodes, Unbound, Ended
  <2>2. GiveUp("REVISION_LIMIT_REACHED")
        \/ (pc' = "revise" /\ UNCHANGED <<queue, candidates, failures>>)
    BY <1>10 DEF SearchFeedback
  <2>3. QED
    BY <1>0, <2>1, <2>2, GiveUpVisited, SameVisited DEF Unbound, Ended
<1>11. CASE ReviseAccepted
  <2>1. pc = "revise" /\ pc \in Searching /\ pc \notin Unbound \cup Ended
        /\ "ROOT_PROPOSAL_UNAVAILABLE_AFTER_REVISION" \in FailureCodes
    BY <1>11 DEF ReviseAccepted, Searching, FailureCodes, Unbound, Ended
  <2>2. PICK p \in Plans : RevisedAs(p)
    BY <1>11, RevisionStarts
  <2>3. Permitted(feedback.kind, plan, p, feedback.sets) /\ feedback.kind \in FeedbackKinds
    BY <1>0, <2>1, <2>2 DEF validate_execution_feedback_revision, Asked, RevisedAs
  <2>4. plan'.targets = plan.targets
    BY <1>0, <2>2, <2>3, PermittedFacts, TrajectoryAssumption DEF RevisedAs
  <2>5. \/ GiveUp("ROOT_PROPOSAL_UNAVAILABLE_AFTER_REVISION")
        \/ UNCHANGED <<queue, candidates, failures>> /\ pc' = "search"
    BY <1>11, RevisionStarts
  <2>6. QED
    BY <1>0, <2>1, <2>4, <2>5, GiveUpVisited, SameVisited DEF Unbound, Ended
<1>12. CASE ReviseRefused
  <2>1. pc \in Searching /\ plan' = plan /\ \E code \in FailureCodes : GiveUp(code)
    BY <1>12 DEF ReviseRefused, Searching, FailureCodes
  <2>2. QED
    BY <1>0, <2>1, GiveUpVisited
<1>13. CASE ReservedStop
  <2>1. pc \in Searching /\ plan' = plan /\ queue # <<>> /\ queue \in Seq(Violations)
        /\ UNCHANGED candidates /\ pc \notin Ended
    BY <1>0, <1>13 DEF ReservedStop, Searching, plan_state, Fresh, TypeOK, Ended
  <2>2. queue' = <<>> /\ pc' = "target" /\ failures' = failures \cup {<<"DEFERRED_BUDGET", Head(queue)>>}
    BY <1>13 DEF ReservedStop, NextTarget, Fail
  <2>3. Head(queue) # Region
    BY <2>1, HeadTail, TrajectoryAssumption
  <2>4. Grows
    BY <1>0, <2>1, <2>2, <2>3 DEF Grows, Visited
  <2>5. \E f \in failures' : f[1] = "DEFERRED_BUDGET"
    <3>1. <<"DEFERRED_BUDGET", Head(queue)>> \in failures'
          /\ <<"DEFERRED_BUDGET", Head(queue)>>[1] = "DEFERRED_BUDGET"
      BY <2>2
    <3>2. QED
      BY <3>1
  <2>6. PICK h : h = Head(queue)
    OBVIOUS
  <2>7. Explained(h)'
    BY <2>5 DEF Explained
  <2>8. Len(candidates') <= MaxCandidates
    BY <1>0, <2>1 DEF Visited
  <2>9. QED
    BY <1>0, <2>1, <2>2, <2>4, <2>5, <2>6, <2>7, <2>8, LeavingVisited
<1>14. CASE CondensePasses
  <2>1. pc \in Searching /\ plan' = plan /\ queue # <<>> /\ queue \in Seq(Violations)
        /\ UNCHANGED failures /\ pc \notin Ended /\ pc' = "target"
    BY <1>0, <1>14 DEF CondensePasses, NextTarget, Searching, plan_state, Fresh, TypeOK, Ended
  <2>2. PICK c : candidates' = Append(candidates, c) /\ c.v = Head(queue)
    BY <1>14 DEF CondensePasses
  <2>3. /\ candidates \in Seq([v : Violations, dofs : SUBSET Dofs, evidence : BOOLEAN])
        /\ Len(candidates) \in Nat /\ Len(candidates) < MaxCandidates /\ MaxCandidates \in Nat
    BY <1>0, <2>1, LenProperties, TrajectoryAssumption DEF TypeOK, Visited
  <2>4. Len(candidates') = Len(candidates) + 1 /\ candidates'[Len(candidates) + 1] = c
    BY <2>2, <2>3
  <2>5. Grows
    BY <1>0, <2>1, <2>2, <2>3 DEF Grows, Visited
  <2>6. PICK h : h = Head(queue)
    OBVIOUS
  <2>7. Explained(h)'
    <3>1. Len(candidates) + 1 \in 1..Len(candidates') /\ candidates'[Len(candidates) + 1].v = h
      BY <2>2, <2>3, <2>4, <2>6
    <3>2. QED
      BY <3>1 DEF Explained
  <2>8. \/ queue' = Tail(queue) /\ Len(candidates') < MaxCandidates
        \/ queue' = <<>> /\ Len(candidates') = MaxCandidates
    <3>1. queue' = IF Len(candidates') >= MaxCandidates THEN <<>> ELSE Tail(queue)
      BY <1>14 DEF CondensePasses, NextTarget
    <3>2. QED
      BY <2>3, <2>4, <3>1
  <2>9. Len(candidates') <= MaxCandidates
    BY <2>3, <2>4
  <2>10. QED
    BY <1>0, <2>1, <2>5, <2>6, <2>7, <2>8, <2>9, LeavingVisited
<1>15. CASE Finish
  <2>1. /\ pc = "target" /\ pc' = "returned" /\ queue = <<>>
        /\ UNCHANGED <<plan, candidates>>
        /\ failures' = failures \/ failures' = failures \cup {<<"KERNEL_NO_CANDIDATE", Region>>}
    BY <1>15 DEF Finish, plan_state, search_state
  <2>2. ~RegionFailed'
    BY <1>0, <2>1 DEF RegionFailed, Visited, Ended
  <2>3. \A v \in Selected(plan') : Explained(v)'
    <3>1. TAKE v \in Selected(plan')
    <3>2. v \notin ToSet(queue)
      BY <2>1 DEF ToSet
    <3>3. Explained(v)
      BY <1>0, <2>1, <3>1, <3>2 DEF Visited, Unbound, Ended
    <3>4. failures \subseteq failures' /\ UNCHANGED candidates
      BY <2>1
    <3>5. QED
      BY <3>3, <3>4 DEF Explained
  <2>4. QED
    BY <2>1, <2>2, <2>3 DEF Visited, EveryTargetExplained, Selected, Ended
<1>16. CASE Raise
  BY <1>16 DEF Raise, Visited, EveryTargetExplained, Ended
<1>17. CASE ProviderFailsRevising
  <2>1. CASE pc = "revise preferred"
    BY <1>17, <2>1, ReturnVisited DEF ProviderFailsRevising
  <2>2. CASE pc = "revise"
    <3>1. pc \in Searching /\ plan' = plan /\ GiveUp("INVALID_EXECUTION_REVISION")
          /\ "INVALID_EXECUTION_REVISION" \in FailureCodes
      BY <1>17, <2>2 DEF ProviderFailsRevising, Searching, FailureCodes
    <3>2. QED
      BY <1>0, <3>1, GiveUpVisited
  <2>3. QED
    BY <1>17, <2>1, <2>2 DEF ProviderFailsRevising
<1>18. QED
  BY <1>1, <1>3, <1>4, <1>5, <1>6, <1>7, <1>8, <1>9, <1>10, <1>11, <1>12, <1>13, <1>14,
     <1>15, <1>16, <1>17
     DEF Next, Work, Alarms, Cancel, ProviderFails, EdaFails

-----------------------------------------------------------------------------
(* The invariant is inductive. *)

LEMMA IInvInit == Init => IInv
<1> SUFFICES ASSUME Init PROVE IInv
  OBVIOUS
<1>1. TypeOK
  BY TypeInit
<1>2. Adopted /\ Asked
  BY DEF Init, Adopted, Asked, Unbound
<1>3. Recorded
  <2>1. searches = {} /\ started = 0 /\ pc = "symbolic"
    BY DEF Init
  <2>2. IsFiniteSet(searches) /\ Cardinality(searches) = 0
    BY <2>1, FS_EmptySet
  <2>3. SharedOnlyByAlternation
    BY <2>1, <2>2 DEF SharedOnlyByAlternation
  <2>4. QED
    BY <2>1, <2>2, <2>3 DEF Recorded, ForbiddenRespected, RevisionNamesOnePlan
<1>4. Fresh
  BY DEF Init, Fresh, Distinct, Searching
<1>5. Visited
  <2>1. pc = "symbolic" /\ candidates = <<>> /\ Len(candidates) = 0
        /\ failures = {<<"FORMAL_PHASE3_CONTEXT_FAIL", v>> : v \in world.supported \ world.scenes}
    BY DEF Init
  <2>2. \A f \in failures : f[2] # Region
    BY <1>1, <2>1, TrajectoryAssumption DEF TypeOK, WorldType
  <2>3. Len(candidates) < MaxCandidates /\ Len(candidates) <= MaxCandidates
    BY <2>1, TrajectoryAssumption
  <2>4. QED
    BY <2>1, <2>2, <2>3 DEF Visited, EveryTargetExplained, Unbound
<1>6. QED
  BY <1>1, <1>2, <1>3, <1>4, <1>5 DEF IInv

LEMMA IInvStep == IInv /\ [Next]_vars => IInv'
<1> SUFFICES ASSUME IInv, [Next]_vars PROVE IInv'
  OBVIOUS
<1>1. TypeOK'
  BY TypeStep DEF IInv
<1>2. CASE Next
  BY <1>1, <1>2, AdoptedStep, AskedStep, RecordedStep, FreshStep, VisitedStep DEF IInv
<1>3. CASE UNCHANGED vars
  <2>1. Adopted' /\ Asked'
    BY <1>3 DEF IInv, vars, Adopted, Asked, BoundKernelPlan, AllowedDofs, DofsOf, Selected
  <2>2. Recorded' /\ Fresh'
    BY <1>3 DEF IInv, vars, Recorded, Fresh, ForbiddenRespected, RevisionNamesOnePlan,
                SharedOnlyByAlternation
  <2>3. Visited'
    BY <1>3 DEF IInv, vars, Visited, EveryTargetExplained, RegionFailed, Explained, Selected
  <2>4. QED
    BY <1>1, <2>1, <2>2, <2>3 DEF IInv
<1>4. QED
  BY <1>2, <1>3

(* Capping two depths at the configured one keeps their order. *)
LEMMA LesserDepth ==
  ASSUME NEW d \in Nat, NEW e \in Nat, NEW m \in Nat, e = d \/ e \in d..m
  PROVE  (IF e < m THEN e ELSE m) \in (IF d < m THEN d ELSE m)..m
<1>1. d <= e
  OBVIOUS
<1>2. CASE e < m
  BY <1>1, <1>2
<1>3. CASE ~(e < m)
  BY <1>1, <1>3
<1>4. QED
  BY <1>2, <1>3

(* Both sites that adopt a revision stay within the authority of the feedback. *)
LEMMA RevisionAuthorized ==
  ASSUME TypeOK, Adopted, Asked, pc \in {"revise preferred", "revise"},
         NEW p \in PlanType, Binds(p), bound' = BoundKernelPlan(p),
         validate_execution_feedback_revision(feedback, plan, p) = "ACCEPTED"
  PROVE  RevisionKeepsAuthority
<1>1. plan \in PlanType /\ bound = BoundKernelPlan(plan) /\ feedback.sets \in SUBSET OptionType
  BY DEF TypeOK, Adopted, Unbound, Ended
<1>2. Permitted(feedback.kind, plan, p, feedback.sets) /\ feedback.kind \in FeedbackKinds
  BY DEF validate_execution_feedback_revision, Asked, FeedbackKinds
<1>3. /\ p.targets = plan.targets
      /\ feedback.kind # "PREFERRED_DOF_INFEASIBLE" => p.forbidden = plan.forbidden
      /\ feedback.kind = "PREFERRED_DOF_INFEASIBLE" => PreferredProved(plan, p, feedback.sets)
      /\ p.depth = plan.depth \/ p.depth \in plan.depth..MaxDepth
  BY <1>1, <1>2, PermittedFacts
<1>4. /\ bound'.targets = p.targets /\ bound.targets = plan.targets
      /\ bound'.forbidden = p.forbidden /\ bound.forbidden = plan.forbidden
      /\ bound'.ops = p.ops
  BY <1>1, BindingFacts
<1>5. bound'.depth \in bound.depth..MaxDepth
  <2>1. /\ bound'.depth = IF p.depth < MaxDepth THEN p.depth ELSE MaxDepth
        /\ bound.depth = IF plan.depth < MaxDepth THEN plan.depth ELSE MaxDepth
    BY <1>1, BindingFacts
  <2>2. p.depth \in Nat /\ plan.depth \in Nat /\ MaxDepth \in Nat
    BY <1>1, TrajectoryAssumption DEF PlanType
  <2>4. p.depth = plan.depth \/ p.depth \in plan.depth..MaxDepth
    BY <1>3
  <2>5. QED
    BY <2>1, <2>2, <2>4, LesserDepth
<1>6. CASE pc = "revise"
  <2>1. p.forbidden = plan.forbidden
    BY <1>3, <1>6 DEF Asked
  <2>2. QED
    BY <1>3, <1>4, <1>5, <1>6, <2>1 DEF RevisionKeepsAuthority
<1>7. CASE pc = "revise preferred"
  <2>1. /\ feedback.kind = "PREFERRED_DOF_INFEASIBLE"
        /\ \A o \in feedback.sets :
             o \in ToSet(world.options) /\ o.dofs \subseteq DofsOf(Selected(plan))
    BY <1>7 DEF Asked
  <2>2. PreferredProved(plan, p, feedback.sets)
    BY <1>3, <2>1
  <2>3. p.forbidden \subseteq plan.forbidden
        /\ plan.forbidden \ p.forbidden \subseteq UNION {o.dofs : o \in feedback.sets}
    BY <2>2 DEF PreferredProved
  <2>4. UNION {o.dofs : o \in feedback.sets} \subseteq UNION {o.dofs : o \in ToSet(world.options)}
    BY <2>1
  <2>5. \E o \in feedback.sets : o.dofs \subseteq bound'.allowed /\ o.need <= bound'.ops
    BY <1>1, <1>3, <1>4, <2>1, <2>2, AlternativeStaysOpen
  <2>6. QED
    BY <1>3, <1>4, <1>5, <1>7, <2>3, <2>4, <2>5 DEF RevisionKeepsAuthority
<1>8. QED
  BY <1>6, <1>7

LEMMA AuthorityStep == IInv /\ [Next]_vars => [RevisionKeepsAuthority]_vars
<1> SUFFICES ASSUME IInv, Next, pc \in {"revise preferred", "revise"}, bound' # bound
             PROVE  RevisionKeepsAuthority
  BY DEF RevisionKeepsAuthority
<1>0. TypeOK /\ Adopted /\ Asked
  BY DEF IInv
<1>1. CASE RevisePreferred
  <2>1. ASSUME NEW code, Return(code) /\ UNCHANGED plan_state
        PROVE  FALSE
    BY <2>1 DEF plan_state
  <2>3. PICK p \in Plans :
          \/ /\ validate_execution_feedback_revision(feedback, plan, p) = "ACCEPTED"
             /\ Binds(p) /\ Adopt(p)
          \/ UNCHANGED bound
    BY <1>1, <2>1, Zenon DEF RevisePreferred
  <2>2. p \in PlanType
    BY TrajectoryAssumption
  <2>4. QED
    BY <1>0, <2>2, <2>3, RevisionAuthorized DEF Adopt
<1>2. CASE ReviseAccepted
  <2>1. PICK p \in Plans : RevisedAs(p)
    BY <1>2, RevisionStarts
  <2>2. p \in PlanType
    BY TrajectoryAssumption
  <2>3. QED
    BY <1>0, <2>1, <2>2, RevisionAuthorized DEF RevisedAs
<1>3. CASE ReviseRefused \/ ProviderFailsRevising \/ Raise
  BY <1>3 DEF ReviseRefused, ProviderFailsRevising, Raise, plan_state
<1>4. QED
  BY <1>1, <1>2, <1>3
     DEF Next, Work, Alarms, Cancel, ProviderFails, EdaFails, IntegrityFails, PlanSymbolic, Finalize,
         Bind, Rebind, PreferredFeedback, Target, Proposal, SearchClean, SearchFails,
         SearchFeedback, CondenseFails, CondensePasses, ReservedStop, Finish

(* The inductive invariant holds in every reachable state of plan(). *)
THEOREM Invariant == Spec => []IInv
BY IInvInit, IInvStep, PTL DEF Spec

(* Every variable of the coroutine keeps its type. *)
THEOREM TypeCorrect == Spec => []TypeOK
<1>1. IInv => TypeOK
  BY DEF IInv
<1>2. QED
  BY <1>1, Invariant, PTL

(* Whatever the LLM answers, no search of a region moves a DOF its plan forbids, a
   recorded plan_revision names one bound plan, and two searches write into one
   evidence directory only if both answer a revision and another revision with
   another plan id lies between them.                                          *)
THEOREM SearchesLawful == Spec => []SearchesAreLawful
<1>1. IInv => SearchesAreLawful
  BY DEF IInv, Recorded, SearchesAreLawful
<1>2. QED
  BY <1>1, Invariant, PTL

(* When plan() returns, it failed as a whole without candidates, or every selected
   violation has a candidate, a failure, or a reason not to have been visited. *)
THEOREM TargetsExplained == Spec => []EveryTargetExplained
<1>1. IInv => EveryTargetExplained
  BY DEF IInv, Visited
<1>2. QED
  BY <1>1, Invariant, PTL
(* validate_execution_feedback_revision with bind_kernel_plan: a revision keeps
   the targets, frees only DOFs an executable alternative uses, leaves such an
   alternative open, and never lowers or oversteps the depth.                  *)
THEOREM AuthorityKept == Spec => RevisionsStayAuthorized
BY Invariant, AuthorityStep, PTL DEF Spec, RevisionsStayAuthorized
=============================================================================
