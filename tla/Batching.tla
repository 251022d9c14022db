------------------------------ MODULE Batching ------------------------------
(* coordinator/batching.py: verified bundles are packed into transaction
   batches under the caps of the transaction, and the failure of a batch is
   narrowed down by replaying halves of it.

   A candidate is a number (the order of its id); Objects gives the objects it
   modifies. A bundle is the set of its selected candidates that are not NOOP,
   in the order of the bundle ids. *)
EXTENDS Integers, FiniteSets, Sequences, SequencesExt
CONSTANTS
  Objects,               \* candidate -> the objects it modifies
  MaxActions,            \* transaction.max_non_noop_actions_per_batch
  MaxObjects,            \* transaction.max_modified_objects_per_batch
  MaxReplays,            \* attribution.max_replays_per_failure
  BundleLists            \* the bundle lists the scheduler may be given
ASSUME BatchingAssumption ==
  /\ DOMAIN Objects \subseteq Nat /\ IsFiniteSet(DOMAIN Objects)
  /\ \A c \in DOMAIN Objects : IsFiniteSet(Objects[c])
  /\ BundleLists \subseteq Seq(SUBSET DOMAIN Objects)
  /\ MaxActions \in Nat \ {0} /\ MaxObjects \in Nat \ {0} /\ MaxReplays \in Nat
VARIABLES
  bundles,               \* the scheduler's input
  batches,               \* its output: the bundles of each batch
  current,               \* the candidates that still reproduce the failure
  half,                  \* 1 or 2: the half the next replay takes
  replays,               \* replay_count
  reproducing,           \* the subsets whose replay failed again
  attribution            \* the result, or Pending
batchingVars == <<bundles, batches, current, half, replays, reproducing, attribution>>
Pending == [quality |-> "PENDING", reproduced |-> {}, causal |-> FALSE]

modified(set) == UNION {Objects[c] : c \in set}
oversized(set) == Cardinality(set) > MaxActions \/ Cardinality(modified(set)) > MaxObjects
Together(list) == UNION ToSet(list)

\* The open batch, its number of candidates, and the batches closed so far.
NothingPacked == [open |-> <<>>, size |-> 0, done |-> <<>>]
flush(s) == IF s.open = <<>> THEN s ELSE [NothingPacked EXCEPT !.done = Append(s.done, s.open)]
\* Slip: an oversized bundle ends the batch but is packed all the same.
pack_oversized(s, bundle) ==
  IF bundle = {} THEN s
  ELSE LET room == Cardinality(Together(s.open) \cup bundle) <= MaxActions
           t == IF room THEN s ELSE flush(s)
       IN [t EXCEPT !.open = Append(@, bundle)]
\* One turn of the loop of schedule over the pending bundles.
pack(s, bundle) ==
  IF bundle = {} THEN s
  ELSE IF oversized(bundle) THEN flush(s)
  ELSE LET room == s.size + Cardinality(bundle) <= MaxActions
                   /\ Cardinality(modified(Together(s.open) \cup bundle)) <= MaxObjects
           t == IF room THEN s ELSE flush(s)
       IN [t EXCEPT !.open = Append(@, bundle), !.size = @ + Cardinality(bundle)]
\* A fold over the list, as a recursive function.
schedule(list) ==
  LET turn[i \in 0..Len(list)] ==
        IF i = 0 THEN NothingPacked ELSE pack(turn[i - 1], list[i])
  IN  flush(turn[Len(list)]).done

----------------------------------------------------------------------------
BatchingInit ==
  /\ bundles \in BundleLists
  /\ batches = <<>> /\ current = <<>> /\ half = 0 /\ replays = 0
  /\ reproducing = {} /\ attribution = Pending
BatchingIdle ==
  /\ bundles = <<>> /\ batches = <<>> /\ current = <<>> /\ half = 0 /\ replays = 0
  /\ reproducing = {} /\ attribution = Pending

Schedule ==
  /\ bundles # <<>> /\ batches = <<>>
  /\ batches' = schedule(bundles)
  /\ UNCHANGED <<bundles, current, half, replays, reproducing, attribution>>

candidate_ids ==
  LET S == Together(batches[1]) IN
  CHOOSE s \in [1..Cardinality(S) -> S] : \A i, j \in DOMAIN s : i < j => s[i] < s[j]
\* Objects stands for the anchors of the edits as well.
source_disjoint == \A c, d \in Together(batches[1]) : c # d => Objects[c] \cap Objects[d] = {}

\* The executed batch failed: the attributor starts from all its candidates.
Attribute ==
  /\ batches # <<>> /\ current = <<>>
  /\ current' = candidate_ids /\ half' = 1
  /\ UNCHANGED <<bundles, batches, replays, reproducing, attribution>>

Halves == LET mid == Len(current) \div 2 IN
  <<SubSeq(current, 1, mid), SubSeq(current, mid + 1, Len(current))>>
narrowing == /\ attribution = Pending /\ half # 0
             /\ Len(current) > 1 /\ replays < MaxReplays
\* Slip: when the first half passes, the second is taken to fail.
Replay_inferred ==
  /\ narrowing
  /\ replays' = replays + 1 /\ half' = 1
  /\ \/ /\ current' = Halves[1]
        /\ reproducing' = reproducing \cup {ToSet(Halves[1])}
     \/ current' = Halves[2] /\ UNCHANGED reproducing
  /\ UNCHANGED <<bundles, batches, attribution>>
\* A replay of one half reproduces the failure or does not.
Replay ==
  /\ narrowing
  /\ replays' = replays + 1
  /\ \/ /\ current' = Halves[half] /\ half' = 1
        /\ reproducing' = reproducing \cup {ToSet(Halves[half])}
     \/ /\ half' = IF half = 1 /\ replays' < MaxReplays THEN 2 ELSE 0
        /\ UNCHANGED <<current, reproducing>>
  /\ UNCHANGED <<bundles, batches, attribution>>

Conclude ==
  /\ attribution = Pending /\ current # <<>> /\ ~narrowing
  /\ LET narrowed == Len(current) < Len(candidate_ids) IN
     attribution' =
       [quality |-> IF narrowed THEN "DELTA_DEBUGGED"
                    ELSE IF Len(candidate_ids) = 1 THEN "DIRECT_CANDIDATE"
                    ELSE IF source_disjoint THEN "DIRECT_SMALL_BUNDLE" ELSE "BUNDLE_ONLY",
        reproduced |-> IF narrowed THEN ToSet(current) ELSE {},
        causal |-> Len(current) = 1]
  /\ UNCHANGED <<bundles, batches, current, half, replays, reproducing>>

BatchingNext == Schedule \/ Attribute \/ Replay \/ Conclude
BatchingSpec == BatchingInit /\ [][BatchingNext]_batchingVars

----------------------------------------------------------------------------
\* The bundles of a list that the scheduler may pack, in order.
Packable(list) ==
  LET upto[i \in 0..Len(list)] ==
        IF i = 0 THEN <<>>
        ELSE IF list[i] = {} \/ oversized(list[i]) THEN upto[i - 1] ELSE Append(upto[i - 1], list[i])
  IN  upto[Len(list)]

(* "Oversized bundles are deferred rather than silently split": the batches are
   a cut of the list of packable bundles, in order, none twice, none left out,
   and each batch is within both caps even where bundles share objects. *)
BatchesNeverSplit ==
  batches # <<>> =>
    /\ FlattenSeq(batches) = Packable(bundles)
    /\ \A i \in DOMAIN batches : batches[i] # <<>> /\ ~oversized(Together(batches[i]))

(* claims_candidate_causality: the attributor blames one candidate only when it
   was executed alone or a replay of exactly that candidate failed again; what
   it reports as reproduced was replayed, never inferred; and it stops at the
   replay budget whichever half it was in. *)
BlameIsReplayed ==
  /\ replays <= MaxReplays
  /\ attribution # Pending =>
       /\ attribution.reproduced \in reproducing \cup {{}}
       /\ attribution.causal => \/ Len(candidate_ids) = 1
                                \/ attribution.reproduced \in reproducing
                                   /\ Cardinality(attribution.reproduced) = 1

(* Bundles are packed whole and blamed only on what was replayed. *)
BatchesAndBlame == BatchesNeverSplit /\ BlameIsReplayed
=============================================================================
