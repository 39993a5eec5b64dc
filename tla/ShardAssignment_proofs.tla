----------------------- MODULE ShardAssignment_proofs -----------------------
(***************************************************************************)
(* The prediction, the correction and the restart for every number of      *)
(* shards up to a hundred and every assignment the epoch manager may make. *)
(***************************************************************************)
EXTENDS ShardAssignment, FiniteSetTheorems, WellFoundedInduction, TLAPS

USE ShardsAssumption, AssignmentsAssumption, BoundsAssumption

-----------------------------------------------------------------------------
(* The operators.                                                          *)

\* A set of naturals that is not empty has a lowest element.
LEMMA LowestIsMember ==
  ASSUME NEW S \in SUBSET Nat, S # {}
  PROVE  Lowest(S) \in S
<1> DEFINE Less == {p \in Nat \X Nat : p[1] < p[2]}
<1>1. IsWellFoundedOn(Less, Nat)
  BY NatLessThanWellFounded DEF OpToRel
<1>2. PICK x \in S : \A y \in S : ~ (<<y, x>> \in Less)
  <2> HIDE DEF Less
  <2> QED
    BY <1>1, WFMin
<1>3. ASSUME NEW y \in S PROVE x <= y
  <2>1. x \in Nat /\ y \in Nat
    OBVIOUS
  <2>2. ASSUME y < x PROVE FALSE
    <3>1. <<y, x>> \in Less
      BY <2>1, <2>2
    <3> QED
      BY <1>2, <3>1
  <2> QED
    BY <2>1, <2>2
<1> QED
  BY <1>3 DEF Lowest

\* The sets whose cardinality is the predicted shard.
Before(i) == {j \in Node : NameKey(j) < NameKey(i)}

LEMMA BeforeIsFinite ==
  ASSUME NEW i \in Node
  PROVE  /\ IsFiniteSet(Before(i)) /\ Cardinality(Before(i)) \in Nat
         /\ cp_shard(i) = Cardinality(Before(i))
<1>1. IsFiniteSet(Node)
  BY FS_Interval DEF Node
<1>2. Before(i) \in SUBSET Node
  BY DEF Before
<1> QED
  BY <1>1, <1>2, FS_Subset, FS_CardinalityType DEF Before, cp_shard

\* A prediction is a shard of the experiment.
LEMMA PredictionIsShard == ASSUME NEW i \in Node PROVE cp_shard(i) \in Shard
<1>1. IsFiniteSet(Node) /\ Cardinality(Node) = N
  BY FS_Interval DEF Node
<1>2. IsFiniteSet(Node \ {i}) /\ Cardinality(Node \ {i}) = N - 1
  BY <1>1, FS_RemoveElement
<1>3. Before(i) \in SUBSET (Node \ {i})
  BY DEF Before, NameKey, Node
<1>4. Cardinality(Before(i)) <= N - 1
  BY <1>2, <1>3, FS_Subset
<1> QED
  BY <1>4, BeforeIsFinite DEF Shard, Node

\* NameKey orders the indices as the names are ordered.
LEMMA KeyOrder ==
  ASSUME NEW i \in Node, NEW j \in Node
  PROVE  NameBefore(i, j) <=> NameKey(i) < NameKey(j)
<1>1. /\ i \in 0 .. 99 /\ j \in 0 .. 99
  BY DEF Node
<1>2. /\ i = 10 * (i \div 10) + (i % 10) /\ i % 10 \in 0 .. 9 /\ i \div 10 \in 0 .. 9
      /\ j = 10 * (j \div 10) + (j % 10) /\ j % 10 \in 0 .. 9 /\ j \div 10 \in 0 .. 9
  BY <1>1
<1>3. CASE i < 10 /\ j < 10
  BY <1>1, <1>3 DEF NameBefore, Digits, NameKey
<1>4. CASE i < 10 /\ ~ (j < 10)
  BY <1>1, <1>2, <1>4 DEF NameBefore, Digits, NameKey
<1>5. CASE ~ (i < 10) /\ j < 10
  BY <1>1, <1>2, <1>5 DEF NameBefore, Digits, NameKey
<1>6. CASE ~ (i < 10) /\ ~ (j < 10)
  BY <1>1, <1>2, <1>6 DEF NameBefore, Digits, NameKey
<1> QED
  BY <1>3, <1>4, <1>5, <1>6

\* The predicted shards are in the order of the keys.
LEMMA PredictionOrder ==
  ASSUME NEW i \in Node, NEW j \in Node
  PROVE  NameKey(i) < NameKey(j) <=> cp_shard(i) < cp_shard(j)
<1>1. \A k \in Node : NameKey(k) \in Nat
  BY DEF NameKey, Node
<1>2. ASSUME NameKey(i) < NameKey(j) PROVE cp_shard(i) < cp_shard(j)
  <2>1. Before(i) \in SUBSET Before(j) /\ i \in Before(j) /\ i \notin Before(i)
    BY <1>1, <1>2 DEF Before
  <2>2. Cardinality(Before(i)) <= Cardinality(Before(j))
        /\ Cardinality(Before(i)) # Cardinality(Before(j))
    BY <2>1, BeforeIsFinite, FS_Subset
  <2> QED
    BY <2>2, BeforeIsFinite
<1>3. ASSUME ~ (NameKey(i) < NameKey(j)) PROVE ~ (cp_shard(i) < cp_shard(j))
  <2>1. Before(j) \in SUBSET Before(i)
    BY <1>1, <1>3 DEF Before
  <2>2. Cardinality(Before(j)) <= Cardinality(Before(i))
    BY <2>1, BeforeIsFinite, FS_Subset
  <2> QED
    BY <2>2, BeforeIsFinite
<1> QED
  BY <1>2, <1>3

\* What the RPC resolves to is a shard of the experiment.
LEMMA ResolvedIsShard ==
  ASSUME current \in Assignments, upcoming \in Assignments
  PROVE  /\ DOMAIN Resolved \subseteq Node
         /\ \A i \in DOMAIN Resolved : /\ Resolved[i] \in Shard
                                       /\ Resolved[i] = Lowest(ShardsOf(i))
                                       /\ ShardsOf(i) # {}
<1>1. DOMAIN Resolved = {j \in Node : ShardsOf(j) # {}}
  BY DEF Resolved
<1>2. ASSUME NEW i \in DOMAIN Resolved
      PROVE  Resolved[i] \in Shard /\ Resolved[i] = Lowest(ShardsOf(i)) /\ ShardsOf(i) # {}
  <2>1. ShardsOf(i) # {} /\ Resolved[i] = Lowest(ShardsOf(i))
    BY <1>1 DEF Resolved
  <2>2. ShardsOf(i) \subseteq Shard /\ Shard \subseteq Nat
    BY DEF ShardsOf, InRange, Shard, Node
  <2> QED
    BY <2>1, <2>2, LowestIsMember
<1> QED
  BY <1>1, <1>2

-----------------------------------------------------------------------------
(* The inductive invariant.                                                *)

\* What the last poll resolved is what the RPC would still resolve to, as long
\* as the epoch it was asked in has not ended.
Answered ==
  queried = epochs =>
    \A i \in DOMAIN assignment : /\ ShardsOf(i) # {}
                                 /\ assignment[i] = Lowest(ShardsOf(i))

\* Every config holds the prediction until it is corrected; then that of a node
\* in the map holds the answer, or the prediction if the answer is its index.
Held(f) == \A i \in DOMAIN assignment :
             f[i] = IF assignment[i] # i THEN assignment[i] ELSE cp_shard(i)

Corrections ==
  /\ pc \in {"launch", "poll", "fix"} => config = Predicted
  /\ pc \in {"poll", "fix"} => loaded = Predicted
  /\ pc = "restart" => Held(config)
  /\ pc = "measure" => Held(loaded)

\* A restart has had a reason.
Reason ==
  pc = "restart" \/ restarted => \E i \in DOMAIN assignment : assignment[i] # cp_shard(i)

Unrestarted == pc \in {"configure", "launch", "poll", "fix"} => ~ restarted

AInv == TypeOK /\ Answered /\ Corrections /\ Reason /\ Unrestarted

LEMMA AInit == Init => AInv
<1> SUFFICES ASSUME Init PROVE AInv
  OBVIOUS
<1>1. DOMAIN assignment = {}
  BY DEF Init
<1>2. config \in [Node -> Shard] /\ loaded \in [Node -> Shard]
  BY DEF Init, Shard
<1>3. polls \in 0 .. MaxPolls /\ epochs \in 0 .. MaxEpochs /\ queried \in 0 .. epochs
  BY DEF Init
<1>4. TypeOK
  BY <1>1, <1>2, <1>3 DEF Init, TypeOK
<1> QED
  BY <1>1, <1>4 DEF Init, AInv, Answered, Corrections, Reason, Unrestarted

LEMMA PredictedType == Predicted \in [Node -> Shard] /\ \A i \in Node : Predicted[i] = cp_shard(i)
  BY PredictionIsShard DEF Predicted

LEMMA CorrectedType == TypeOK => Corrected \in [Node -> Shard]
  BY DEF TypeOK, Corrected, Considered

LEMMA TypesPreserved == TypeOK /\ [Next]_vars => TypeOK'
<1> SUFFICES ASSUME TypeOK, [Next]_vars PROVE TypeOK'
  OBVIOUS
<1>1. CASE Configure
  BY <1>1, PredictedType DEF Configure, TypeOK, chain
<1>2. CASE Launch
  BY <1>2 DEF Launch, TypeOK, chain
<1>3. CASE Poll
  <2>1. /\ DOMAIN assignment' \subseteq Node
        /\ \A i \in DOMAIN assignment' : assignment'[i] \in Shard
    <3>1. CASE assignment' = <<>>
      BY <3>1
    <3>2. CASE assignment' = Resolved
      BY <3>2, ResolvedIsShard DEF TypeOK
    <3> QED
      BY <1>3, <3>1, <3>2 DEF Poll
  <2>2. polls' \in 0 .. MaxPolls /\ queried' \in 0 .. epochs'
    BY <1>3 DEF Poll, TypeOK, chain
  <2> QED
    BY <1>3, <2>1, <2>2 DEF Poll, TypeOK, chain, files
<1>4. CASE Deadline
  BY <1>4 DEF Deadline, TypeOK, chain, files
<1>5. CASE Fix
  BY <1>5, CorrectedType DEF Fix, TypeOK, chain
<1>6. CASE Restart
  BY <1>6 DEF Restart, TypeOK, chain
<1>7. CASE Measure
  BY <1>7 DEF Measure, TypeOK, chain, files
<1>8. CASE EpochEnds
  BY <1>8 DEF EpochEnds, TypeOK, files
<1>9. CASE Finished \/ UNCHANGED vars
  BY <1>9 DEF Finished, vars, chain, files, TypeOK
<1> QED
  BY <1>1, <1>2, <1>3, <1>4, <1>5, <1>6, <1>7, <1>8, <1>9 DEF Next

LEMMA SameShards == ASSUME current' = current, upcoming' = upcoming, NEW i
                    PROVE  ShardsOf(i)' = ShardsOf(i)
  BY DEF ShardsOf, InRange

\* The answer, action by action: only a poll and the end of an epoch touch it.
LEMMA AnsweredPreserved == TypeOK /\ Answered /\ [Next]_vars => Answered'
<1> SUFFICES ASSUME TypeOK, Answered, [Next]_vars PROVE Answered'
  OBVIOUS
<1>1. CASE Poll
  <2>1. UNCHANGED <<current, upcoming>>
    BY <1>1 DEF Poll, chain
  <2>2. CASE assignment' = <<>>
    BY <2>2 DEF Answered
  <2>3. CASE assignment' = Resolved
    BY <2>1, <2>3, ResolvedIsShard, SameShards DEF Answered, TypeOK
  <2> QED
    BY <1>1, <2>2, <2>3 DEF Poll
<1>2. CASE EpochEnds
  BY <1>2 DEF EpochEnds, Answered, TypeOK
<1>3. CASE UNCHANGED <<chain, assignment, queried>>
  BY <1>3, SameShards DEF Answered, chain
<1> QED
  BY <1>1, <1>2, <1>3
  DEF Next, Configure, Launch, Deadline, Fix, Restart, Measure, Finished, vars

LEMMA CorrectionsPreserved ==
  AInv /\ [Next]_vars => Corrections' /\ Reason' /\ Unrestarted'
<1> SUFFICES ASSUME AInv, [Next]_vars PROVE Corrections' /\ Reason' /\ Unrestarted'
  OBVIOUS
<1> USE DEF Corrections, Reason, Unrestarted
<1>1. CASE Configure
  BY <1>1 DEF Configure, AInv
<1>2. CASE Launch
  BY <1>2 DEF Launch, AInv
<1>3. CASE Poll
  BY <1>3 DEF Poll, AInv, files
<1>4. CASE Deadline
  BY <1>4 DEF Deadline, AInv, files
<1>5. CASE Fix
  <2>1. /\ config = Predicted /\ loaded = Predicted /\ ~ restarted
        /\ \A i \in DOMAIN assignment : i \in Node /\ Predicted[i] = cp_shard(i)
    BY <1>5, PredictedType DEF Fix, AInv, TypeOK
  <2>2. /\ config' = Corrected /\ UNCHANGED <<loaded, assignment, restarted>>
        /\ pc' = IF Corrected # config THEN "restart" ELSE "measure"
    BY <1>5 DEF Fix
  <2>3. Held(Corrected)
    BY <2>1 DEF Held, Corrected, Considered
  <2>4. ASSUME Corrected # config
        PROVE  \E i \in DOMAIN assignment : assignment[i] # cp_shard(i)
    <3>1. PICK i \in Node : Corrected[i] # config[i]
      BY <2>1, <2>4, PredictedType, CorrectedType DEF AInv
    <3>2. i \in Considered /\ Corrected[i] = assignment[i]
      BY <3>1 DEF Corrected
    <3> QED
      BY <2>1, <3>1, <3>2 DEF Considered
  <2>5. CASE Corrected # config
    BY <2>2, <2>3, <2>4, <2>5 DEF Held
  <2>6. CASE Corrected = config
    BY <2>1, <2>2, <2>3, <2>6 DEF Held
  <2> QED
    BY <2>5, <2>6
<1>6. CASE Restart
  BY <1>6 DEF Restart, AInv, Held
<1>7. CASE Measure
  BY <1>7 DEF Measure, AInv
<1>8. CASE EpochEnds
  BY <1>8 DEF EpochEnds, AInv, files, Held
<1>9. CASE Finished \/ UNCHANGED vars
  BY <1>9 DEF Finished, vars, files, AInv, Held
<1> QED
  BY <1>1, <1>2, <1>3, <1>4, <1>5, <1>6, <1>7, <1>8, <1>9 DEF Next

-----------------------------------------------------------------------------

\* The inductive invariant of the assignment.
THEOREM AssignmentInvariant == Spec => []AInv
<1>1. AInv /\ [Next]_vars => AInv'
  BY TypesPreserved, AnsweredPreserved, CorrectionsPreserved DEF AInv
<1> QED
  BY AInit, <1>1, PTL DEF Spec

\* Every variable keeps its type; in particular every config names a shard.
THEOREM AssignmentTypes == Spec => []TypeOK
<1>1. AInv => TypeOK
  BY DEF AInv
<1> QED
  BY AssignmentInvariant, <1>1, PTL

\* The nodes are first launched with shards in the order of their names.
THEOREM PredictionSorted == Spec => []PredictionIsSorted
<1>1. AInv => PredictionIsSorted
  <2> SUFFICES ASSUME AInv, pc = "launch", NEW i \in Node, NEW j \in Node
               PROVE  NameBefore(i, j) <=> config[i] < config[j]
    BY DEF PredictionIsSorted
  <2>1. config[i] = cp_shard(i) /\ config[j] = cp_shard(j)
    BY PredictedType DEF AInv, Corrections
  <2> QED
    BY <2>1, KeyOrder, PredictionOrder
<1> QED
  BY AssignmentInvariant, <1>1, PTL

\* Nodes that the RPC confirms in their predicted place are not restarted.
THEOREM RestartsHaveReason == Spec => []NoNeedlessRestart
<1>1. AInv => NoNeedlessRestart
  BY DEF AInv, Reason, NoNeedlessRestart
<1> QED
  BY AssignmentInvariant, <1>1, PTL

\* Every generator that was resolved feeds the shard its node produces for.
THEOREM MatchingGenerators == Spec => []GeneratorsMatch
<1>1. AInv => GeneratorsMatch
  <2> SUFFICES ASSUME AInv, pc = "measure", queried = epochs,
                      NEW i \in DOMAIN assignment, InRange(current[i]) # {},
                      assignment[i] # i \/ cp_shard(i) = i
               PROVE  loaded[i] = Lowest(InRange(current[i]))
    BY DEF GeneratorsMatch, Matches
  <2>1. assignment[i] = Lowest(InRange(current[i]))
    BY DEF AInv, Answered, ShardsOf
  <2>2. loaded[i] = assignment[i]
    BY DEF AInv, Corrections, Held
  <2> QED
    BY <2>1, <2>2
<1> QED
  BY AssignmentInvariant, <1>1, PTL

=============================================================================
