------------------------ MODULE MCShardAssignment ------------------------
(* Sixteen shards: the smallest count whose names do not sort by number.  *)
EXTENDS ShardAssignment

\* The real rule, the node indices, two nodes exchanged, a validator without
\* shards, one with several, and a shard id out of range.
Sorted == [i \in Node |-> {cp_shard(i)}]
ByIndex == [i \in Node |-> {i}]
Exchanged == [Sorted EXCEPT ![2] = Sorted[3], ![3] = Sorted[2]]
Dropped == [Sorted EXCEPT ![15] = {}]
Several == [Exchanged EXCEPT ![5] = {4, 11}]
Outside == [ByIndex EXCEPT ![9] = {16}]

MCAssignments == {Sorted, ByIndex, Exchanged, Dropped, Several, Outside}
=============================================================================
