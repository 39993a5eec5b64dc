-------------------------- MODULE ShardAssignment --------------------------
(***************************************************************************)
(* Which accounts each node's transaction generator loads, against which   *)
(* shard the node produces chunks for (scripts/run_benchmark.py).          *)
(*                                                                         *)
(* generate_node_configs predicts the assignment from the order of the     *)
(* validator names; after the readiness gate the harness asks the          *)
(* validators RPC, corrects config.json where the answer differs from the  *)
(* node index, and restarts the nodes if it changed anything.  The epoch   *)
(* manager of neard, outside this repository, decides the real assignment  *)
(* and may change it when an epoch ends.                                   *)
(***************************************************************************)
EXTENDS Naturals, FiniteSets, Sequences

CONSTANTS N,           \* --shards
          Assignments, \* maps the epoch manager may choose from
          MaxPolls,    \* polls of the RPC before the 30 s deadline
          MaxEpochs    \* bound: epochs that end during a run

Node == 0 .. (N - 1)
Shard == Node

ASSUME ShardsAssumption == N \in Nat \ {0} /\ N <= 100
ASSUME AssignmentsAssumption ==
  /\ Assignments \subseteq [Node -> SUBSET Nat]
  /\ \A a \in Assignments : \A i \in Node : IsFiniteSet(a[i])
ASSUME BoundsAssumption == MaxPolls \in Nat \ {0} /\ MaxEpochs \in Nat

VARIABLES
  pc,          \* configure, launch, poll, fix, restart, measure or done
  current,     \* chunk-producer shards of each validator in this epoch
  upcoming,    \* and in the next one
  epochs,      \* epochs that have ended
  config,      \* shard of tx_generator.accounts_path in each config.json
  loaded,      \* shard of the accounts each running generator has loaded
  assignment,  \* node index -> shard, as resolved by the last poll
  polls,
  queried,     \* value of epochs when that poll was answered
  restarted    \* whether the nodes were restarted

chain == <<current, upcoming, epochs>>
files == <<config, loaded>>
vars == <<pc, chain, files, assignment, polls, queried, restarted>>

Lowest(S) == CHOOSE s \in S : \A t \in S : s <= t

-----------------------------------------------------------------------------
(* The predicted assignment.                                               *)

\* A number that orders 0..99 as the strings "node0" .. "node99" are ordered:
\* a name precedes the names it is a prefix of.
NameKey(j) == IF j < 10 THEN 11 * j ELSE 11 * (j \div 10) + 1 + (j % 10)

\* Fault: validators are sorted by number.
cp_shard_Numeric(i) == Cardinality({j \in Node : j < i})

\* Index of "node{i}" among the sorted validator names.
cp_shard(i) == Cardinality({j \in Node : NameKey(j) < NameKey(i)})

Predicted == [i \in Node |-> cp_shard(i)]

Init ==
  /\ pc = "configure"
  /\ current \in Assignments /\ upcoming \in Assignments /\ epochs = 0
  /\ config = [i \in Node |-> i] /\ loaded = config
  /\ assignment = <<>> /\ polls = 0 /\ queried = 0 /\ restarted = FALSE

\* generate_node_configs.
Configure ==
  /\ pc = "configure"
  /\ config' = Predicted
  /\ pc' = "launch"
  /\ UNCHANGED <<chain, loaded, assignment, polls, queried, restarted>>

\* launch_neard_processes and the readiness gate: neard reads its config.json.
Launch ==
  /\ pc = "launch"
  /\ loaded' = config
  /\ pc' = "poll"
  /\ UNCHANGED <<chain, config, assignment, polls, queried, restarted>>

-----------------------------------------------------------------------------
(* verify_chunk_producer_shard_assignment.                                 *)

InRange(shards) == shards \intersect Shard

\* _cp_shard_for_account: this epoch's shards, else the next epoch's; of
\* several the lowest.
ShardsOf(i) == IF InRange(current[i]) # {} THEN InRange(current[i])
                                          ELSE InRange(upcoming[i])

\* Fault: the next epoch's assignment is preferred.
Resolved_NextFirst ==
  LET shards(i) == IF InRange(upcoming[i]) # {} THEN InRange(upcoming[i])
                                               ELSE InRange(current[i])
  IN  [i \in {j \in Node : shards(j) # {}} |-> Lowest(shards(i))]

Resolved == [i \in {j \in Node : ShardsOf(j) # {}} |-> Lowest(ShardsOf(i))]

\* _try_build_chunk_producer_assignment: the first instance that answers, or
\* none; the previous answer is overwritten either way.
Poll ==
  /\ pc = "poll" /\ polls < MaxPolls
  /\ polls' = polls + 1 /\ queried' = epochs
  /\ assignment' \in {<<>>, Resolved}
  /\ pc' = IF DOMAIN assignment' = Node THEN "fix" ELSE "poll"
  /\ UNCHANGED <<chain, files, restarted>>

\* The deadline has passed: a partial map is used as it is.
Deadline ==
  /\ pc = "poll" /\ polls = MaxPolls
  /\ pc' = "fix"
  /\ UNCHANGED <<chain, files, assignment, polls, queried, restarted>>

-----------------------------------------------------------------------------
(* fix_accounts_path_for_assignment and restart_neard_instances.           *)

\* "if actual is None or actual == i: continue"
Considered == {i \in DOMAIN assignment : assignment[i] # i}

Corrected == [i \in Node |-> IF i \in Considered THEN assignment[i] ELSE config[i]]

Fix ==
  /\ pc = "fix"
  /\ config' = Corrected
  /\ pc' = IF Corrected # config THEN "restart" ELSE "measure"
  /\ UNCHANGED <<chain, loaded, assignment, polls, queried, restarted>>

\* restart_neard_instances and the second readiness gate.
Restart ==
  /\ pc = "restart"
  /\ loaded' = config /\ restarted' = TRUE
  /\ pc' = "measure"
  /\ UNCHANGED <<chain, config, assignment, polls, queried>>

Measure ==
  /\ pc = "measure"
  /\ pc' = "done"
  /\ UNCHANGED <<chain, files, assignment, polls, queried, restarted>>

-----------------------------------------------------------------------------
\* The epoch manager moves on while the nodes run.
EpochEnds ==
  /\ pc \in {"poll", "fix", "restart", "measure"} /\ epochs < MaxEpochs
  /\ epochs' = epochs + 1
  /\ current' = upcoming /\ upcoming' \in Assignments
  /\ UNCHANGED <<pc, files, assignment, polls, queried, restarted>>

Finished == pc = "done" /\ UNCHANGED vars

Next == \/ Configure \/ Launch \/ Poll \/ Deadline \/ Fix \/ Restart \/ Measure
        \/ EpochEnds \/ Finished

Spec == Init /\ [][Next]_vars

-----------------------------------------------------------------------------
(* Correctness.                                                            *)

\* Every variable stays in its type; the RPC is polled at most MaxPolls times.
TypeOK ==
  /\ pc \in {"configure", "launch", "poll", "fix", "restart", "measure", "done"}
  /\ current \in Assignments /\ upcoming \in Assignments
  /\ epochs \in 0 .. MaxEpochs /\ queried \in 0 .. epochs
  /\ config \in [Node -> Shard] /\ loaded \in [Node -> Shard]
  /\ DOMAIN assignment \subseteq Node
  /\ \A i \in DOMAIN assignment : assignment[i] \in Shard
  /\ polls \in 0 .. MaxPolls /\ restarted \in BOOLEAN

\* The order Python gives the names: digit by digit, a name before the longer
\* names it is a prefix of ("node1", "node10", .., "node2").
Digits(j) == IF j < 10 THEN <<j>> ELSE <<j \div 10, j % 10>>
NameBefore(i, j) ==
  LET a == Digits(i)
      b == Digits(j)
  IN  \/ a[1] < b[1]
      \/ a[1] = b[1] /\ Len(a) < Len(b)
      \/ a[1] = b[1] /\ Len(a) = 2 /\ Len(b) = 2 /\ a[2] < b[2]

\* The nodes are first launched with shards in the order of their names
\* ("sorting validator account IDs lexicographically").
PredictionIsSorted ==
  pc = "launch" => \A i, j \in Node : NameBefore(i, j) <=> config[i] < config[j]

\* "eliminating the post-launch config fix + restart": nodes the RPC confirms in
\* their predicted place are not restarted.
NoNeedlessRestart ==
  restarted => \E i \in DOMAIN assignment : assignment[i] # cp_shard(i)

\* The generator of node i feeds the shard it produces chunks for.  Nodes whose
\* answer is their own index are exempt unless that was the prediction:
\* Considered skips them although config.json holds another shard.
Matches(i) ==
  /\ InRange(current[i]) # {}
  /\ assignment[i] # i \/ cp_shard(i) = i
  => loaded[i] = Lowest(InRange(current[i]))

\* When the measurement begins in the epoch the RPC was asked in, the generator
\* of every node that was resolved feeds the shard the node produces for,
\* through the restart or without one ("so generators match CP shards").
GeneratorsMatch ==
  pc = "measure" /\ queried = epochs => \A i \in DOMAIN assignment : Matches(i)

\* README: the assignment may change after the first epoch, and "the harness
\* re-queries RPC to realign monitoring / tx submission with the post-epoch
\* assignment": the measurement ends with matching generators all the same.
RealignedAfterEpoch == pc = "done" => \A i \in DOMAIN assignment : Matches(i)

=============================================================================
