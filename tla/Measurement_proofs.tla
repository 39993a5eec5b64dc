------------------------ MODULE Measurement_proofs ------------------------
(* Theorems about Measurement for any set of instances, shard labels,      *)
(* retries and chain, whichever instances are moved.                       *)
EXTENDS Measurement, FiniteSetTheorems, TLAPS

(***************************************************************************)
(* The inductive invariant.                                                *)
(***************************************************************************)

\* Threads run only while a snapshot is taken.
ThreadsJoined == pc \notin {"start", "end"} => Joined

\* A height of the start snapshot was read after t1, or is the default 0.
FirstIsRecent == \A i \in Shard :
  /\ startHead[i] <= head[i] /\ first[i].height <= head[i]
  /\ first[i].status_ok => startHead[i] <= first[i].height
  /\ pc = "start" => asleep[i] = 0

\* Series a, or none, was read at the start. What a has gained since then was
\* produced since t1, and so was all there is in the series before a, which
\* were not positive then.
GainOf(i, a) == /\ txs[i][a] > 0
                /\ txs[i][a] <= first[i].chunk_tx + produced[i]
                /\ \A l \in Label : l < a => txs[i][l] <= produced[i]
GainOfAll(i) == /\ first[i].chunk_tx = 0
                /\ \A l \in Label : txs[i][l] <= produced[i]
GainIsProduced == \A i \in Shard :
  first[i].counted => GainOfAll(i) \/ \E a \in Label : GainOf(i, a)

\* The only series of an instance holds what was read of it and all that has
\* been added during the sleep.
SleepIsKept == \A i \in Shard, l \in Label :
  SoleSeries(i, l) => first[i].chunk_tx + asleep[i] <= txs[i][l]

\* A value of the end snapshot was read after the sleep, or is a default.
LastIsLate == \A i \in Shard :
  /\ last[i].height <= head[i]
  /\ last[i].counted => pc \notin {"wait", "start", "sleep"}
  /\ ~ last[i].counted => last[i].chunk_tx = 0
  /\ first[i].counted /\ last[i].counted =>
       last[i].chunk_tx <= first[i].chunk_tx + produced[i]
  /\ last[i].counted => \A l \in Label :
       SoleSeries(i, l) => first[i].chunk_tx + asleep[i] <= last[i].chunk_tx

MInv == /\ TypeOK /\ ThreadsJoined /\ FirstIsRecent
        /\ GainIsProduced /\ SleepIsKept /\ LastIsLate

LEMMA MInvInit == Init => MInv
  BY RetriesAssumption, ChainAssumption
  DEF Init, Nothing, NoSnapshot, Snapshot, MInv, TypeOK, ThreadsJoined, Joined,
      FirstIsRecent, GainIsProduced, SleepIsKept, LastIsLate

\* What one snapshot of instance i changes.
LEMMA TakeOne ==
  ASSUME TypeOK, NEW i \in Shard, NEW s \in Snapshot, Take(i, s),
         pc \in {"start", "end"}
  PROVE  /\ first' \in [Shard -> Snapshot] /\ last' \in [Shard -> Snapshot]
         /\ \A j \in Shard : j # i => first'[j] = first[j] /\ last'[j] = last[j]
         /\ pc = "start" => first'[i] = s /\ last' = last
         /\ pc = "end" => last'[i] = s /\ first' = first
  BY DEF Take, TypeOK

\* If nothing but the chain stands still and the values of the counters in the
\* snapshots stay, then what is known of the counters stays.
LEMMA CountersKept ==
  ASSUME TypeOK, GainIsProduced, SleepIsKept, UNCHANGED <<chain, history>>,
         \A j \in Shard : /\ first'[j].chunk_tx = first[j].chunk_tx
                          /\ first'[j].counted = first[j].counted
  PROVE  GainIsProduced' /\ SleepIsKept'
  BY DEF GainIsProduced, GainOf, GainOfAll, SleepIsKept, SoleSeries, chain, history

\* No step of the harness, of a thread or of the chain leaves the invariant.
LEMMA MInvStep == MInv /\ [Next]_vars => MInv'
<1> SUFFICES ASSUME MInv, [Next]_vars PROVE MInv'
  OBVIOUS
<1> USE DEF MInv
<1>t. /\ \A i \in Shard : /\ first[i] \in Snapshot /\ last[i] \in Snapshot
                          /\ head[i] \in 0 .. MaxHead /\ startHead[i] \in 0 .. MaxHead
                          /\ produced[i] \in Nat /\ asleep[i] \in Nat
      /\ \A i \in Shard, l \in Label : txs[i][l] \in 0 .. MaxTx
      /\ first \in [Shard -> Snapshot] /\ last \in [Shard -> Snapshot]
  BY DEF TypeOK
<1>1. CASE StartAttempt
  <2>1. /\ first' = [j \in Shard |-> NoSnapshot] /\ last' = first'
        /\ asleep' = [j \in Shard |-> 0] /\ produced' = [j \in Shard |-> 0]
        /\ thread' = [j \in Shard |-> "status"]
        /\ startHead' = head
        /\ pc' = "start" /\ UNCHANGED <<attempt, head, txs>>
    BY <1>1 DEF StartAttempt, Spawn, Nothing, chain
  <2>2. TypeOK'
    BY <2>1, ChainAssumption DEF Snapshot, NoSnapshot, TypeOK
  <2>3. ThreadsJoined' /\ FirstIsRecent'
    BY <2>1, <1>t DEF ThreadsJoined, FirstIsRecent, NoSnapshot
  <2>4. GainIsProduced' /\ LastIsLate'
    BY <2>1, <1>t DEF GainIsProduced, LastIsLate, NoSnapshot
  <2>5. SleepIsKept'
    BY <2>1, <1>t DEF SleepIsKept, NoSnapshot
  <2> QED BY <2>2, <2>3, <2>4, <2>5
<1>2. CASE OpenWindow \/ CloseWindow \/ Decide
  <2>1. /\ UNCHANGED <<window, chain, history>> /\ pc' # "start"
        /\ pc' \in {"wait", "start", "sleep"} => pc \in {"wait", "start", "sleep"}
    BY <1>2 DEF OpenWindow, CloseWindow, Decide
  <2>2. TypeOK' /\ ThreadsJoined'
    BY <1>2, RetriesAssumption
    DEF OpenWindow, CloseWindow, Decide, TypeOK, ThreadsJoined, Joined, Spawn,
        window, chain, history
  <2>3. FirstIsRecent' /\ LastIsLate'
    BY <2>1 DEF FirstIsRecent, LastIsLate, SoleSeries, window, chain, history
  <2>4. GainIsProduced' /\ SleepIsKept'
    BY <2>1, CountersKept DEF window
  <2> QED BY <2>2, <2>3, <2>4
<1>3. ASSUME NEW i \in Shard, FetchStatus(i) PROVE MInv'
  <2>1. /\ pc \in {"start", "end"}
        /\ thread' \in [Shard -> {"status", "metrics", "idle"}]
        /\ UNCHANGED <<harness, chain, history>>
    BY <1>3 DEF FetchStatus, ThreadsJoined, Joined, TypeOK
  <2>2. PICK ok \in BOOLEAN :
          Take(i, [Taken(i) EXCEPT
                     !.height = IF ok THEN head[i]
                                ELSE IF pc = "start" THEN 0 ELSE first[i].height,
                     !.status_ok = ok /\ pc = "start"])
    BY <1>3 DEF FetchStatus
  <2> DEFINE s == [Taken(i) EXCEPT
                     !.height = IF ok THEN head[i]
                                ELSE IF pc = "start" THEN 0 ELSE first[i].height,
                     !.status_ok = ok /\ pc = "start"]
  <2>3. s \in Snapshot /\ s.chunk_tx = Taken(i).chunk_tx /\ s.counted = Taken(i).counted
        /\ (s.status_ok => ok)
        /\ s.height = IF ok THEN head[i] ELSE IF pc = "start" THEN 0 ELSE first[i].height
    <3>1. /\ Taken(i) \in Snapshot
          /\ (IF ok THEN head[i] ELSE IF pc = "start" THEN 0 ELSE first[i].height)
               \in 0 .. MaxHead
      BY <1>t, ChainAssumption DEF Taken, Snapshot
    <3> QED BY <3>1 DEF Snapshot
  <2> HIDE DEF s
  <2>5. Taken(i) = IF pc = "start" THEN first[i] ELSE last[i]
    BY DEF Taken
  <2>6. /\ first' \in [Shard -> Snapshot] /\ last' \in [Shard -> Snapshot]
        /\ \A j \in Shard : j # i => first'[j] = first[j] /\ last'[j] = last[j]
        /\ pc = "start" => first'[i] = s /\ last' = last
        /\ pc = "end" => last'[i] = s /\ first' = first
    <3>1. Take(i, s)
      BY <2>2 DEF s
    <3> QED BY <2>1, <2>3, <3>1, TakeOne
  <2>7. TypeOK' /\ ThreadsJoined'
    BY <2>1, <2>6 DEF TypeOK, ThreadsJoined, harness, chain, history
  <2>8. FirstIsRecent'
    BY <2>1, <2>3, <2>6, <1>t DEF FirstIsRecent, Snapshot, harness, chain, history
  <2>9. \A j \in Shard : /\ first'[j].chunk_tx = first[j].chunk_tx
                         /\ first'[j].counted = first[j].counted
                         /\ last'[j].chunk_tx = last[j].chunk_tx
                         /\ last'[j].counted = last[j].counted
    BY <2>1, <2>3, <2>5, <2>6
  <2>10. GainIsProduced' /\ SleepIsKept'
    BY <2>1, <2>9, CountersKept
  <2>11. \A j \in Shard : last'[j].height <= head[j]
    BY <2>1, <2>3, <2>6, <1>t DEF FirstIsRecent, LastIsLate, Snapshot
  <2>12. LastIsLate'
    BY <2>1, <2>9, <2>11 DEF LastIsLate, SoleSeries, harness, chain, history
  <2> QED
    BY <2>7, <2>8, <2>10, <2>12
<1>4. ASSUME NEW i \in Shard, FetchMetrics(i) PROVE MInv'
  <2>1. /\ pc \in {"start", "end"}
        /\ thread' \in [Shard -> {"status", "metrics", "idle"}]
        /\ UNCHANGED <<harness, chain, history>>
    BY <1>4 DEF FetchMetrics, ThreadsJoined, Joined, TypeOK
  <2>2. PICK ok \in BOOLEAN, value \in 0 .. MaxTx :
          /\ IF ok THEN metrics_chunk_tx_total(i, value) ELSE value = 0
          /\ Take(i, [Taken(i) EXCEPT !.chunk_tx = value, !.counted = ok])
    BY <1>4 DEF FetchMetrics
  <2> DEFINE s == [Taken(i) EXCEPT !.chunk_tx = value, !.counted = ok]
  <2>3. s \in Snapshot /\ s.height = Taken(i).height /\ s.status_ok = Taken(i).status_ok
        /\ s.counted = ok /\ s.chunk_tx = value
    <3>1. Taken(i) \in Snapshot
      BY <1>t DEF Taken
    <3> QED BY <3>1 DEF Snapshot
  <2> HIDE DEF s
  <2>5. Taken(i) = IF pc = "start" THEN first[i] ELSE last[i]
    BY DEF Taken
  <2>6. /\ first' \in [Shard -> Snapshot] /\ last' \in [Shard -> Snapshot]
        /\ \A j \in Shard : j # i => first'[j] = first[j] /\ last'[j] = last[j]
        /\ pc = "start" => first'[i] = s /\ last' = last
        /\ pc = "end" => last'[i] = s /\ first' = first
    <3>1. Take(i, s)
      BY <2>2 DEF s
    <3> QED BY <2>1, <2>3, <3>1, TakeOne
  <2>7. TypeOK' /\ ThreadsJoined'
    BY <2>1, <2>6 DEF TypeOK, ThreadsJoined, harness, chain, history
  <2>8. FirstIsRecent'
    BY <2>1, <2>3, <2>5, <2>6 DEF FirstIsRecent, harness, chain, history
  \* What an answer says of the series behind it.
  <2>9. value \in Nat /\ \A l \in Label : txs[i][l] \in Nat
    BY <1>t, ChainAssumption
  <2>10. ok => \/ value = 0 /\ \A l \in Label : txs[i][l] = 0
               \/ \E l \in Label : /\ txs[i][l] > 0 /\ value = txs[i][l]
                                   /\ \A k \in Label : k < l => txs[i][k] = 0
    BY <2>2 DEF metrics_chunk_tx_total
  <2>11. \A l \in Label : SoleSeries(i, l) =>
           /\ ok => value = txs[i][l]
           /\ value <= txs[i][l]
    BY <2>2, <2>9, <2>10 DEF SoleSeries
  <2>12. UNCHANGED <<pc, txs, produced, asleep, head>>
    BY <2>1 DEF harness, chain, history
  <2>13. CASE pc = "start"
    <3>1. /\ first'[i].chunk_tx = value /\ first'[i].counted = ok /\ last' = last
          /\ asleep[i] = 0
      BY <2>13, <2>3, <2>6 DEF FirstIsRecent
    <3>2. ok => (GainOfAll(i) \/ \E a \in Label : GainOf(i, a))'
      <4>1. CASE value = 0 /\ \A l \in Label : txs[i][l] = 0
        BY <4>1, <3>1, <2>12, <1>t DEF GainOfAll
      <4>2. ASSUME NEW l \in Label, txs[i][l] > 0, value = txs[i][l],
                   \A k \in Label : k < l => txs[i][k] = 0
            PROVE  GainOf(i, l)'
        BY <4>2, <3>1, <2>9, <2>12, <1>t DEF GainOf
      <4> QED BY <2>10, <4>1, <4>2
    <3>3. GainIsProduced'
      BY <3>1, <3>2, <2>6, <2>12 DEF GainIsProduced, GainOf, GainOfAll
    <3>4. SleepIsKept'
      BY <3>1, <2>6, <2>9, <2>11, <2>12 DEF SleepIsKept, SoleSeries
    <3>5. LastIsLate'
      BY <2>13, <3>1, <2>12 DEF LastIsLate
    <3> QED BY <2>7, <2>8, <3>3, <3>4, <3>5
  <2>14. CASE pc = "end"
    <3>1. /\ last'[i].chunk_tx = value /\ last'[i].counted = ok /\ first' = first
          /\ last'[i].height = last[i].height
      BY <2>14, <2>3, <2>5, <2>6
    <3>2. GainIsProduced' /\ SleepIsKept'
      BY <3>1, <2>1, CountersKept
    <3>3. ok /\ first[i].counted => value <= first[i].chunk_tx + produced[i]
      <4> SUFFICES ASSUME ok, first[i].counted PROVE value <= first[i].chunk_tx + produced[i]
        OBVIOUS
      <4>1. first[i].chunk_tx \in Nat /\ produced[i] \in Nat
        BY <1>t, ChainAssumption DEF Snapshot
      <4>2. CASE value = 0
        BY <4>1, <4>2
      <4>3. ASSUME NEW l \in Label, txs[i][l] > 0, value = txs[i][l],
                   \A k \in Label : k < l => txs[i][k] = 0
            PROVE  value <= first[i].chunk_tx + produced[i]
        <5>1. CASE GainOfAll(i)
          BY <4>1, <4>3, <5>1 DEF GainOfAll
        <5>2. ASSUME NEW a \in Label, GainOf(i, a)
              PROVE  value <= first[i].chunk_tx + produced[i]
          <6>1. l <= a
            BY <4>3, <5>2 DEF GainOf, Label
          <6>2. l < a \/ l = a
            BY <6>1 DEF Label
          <6> QED BY <4>1, <4>3, <5>2, <6>2, <2>9 DEF GainOf
        <5> QED BY <5>1, <5>2 DEF GainIsProduced
      <4> QED BY <2>10, <4>2, <4>3
    <3>4. \A l \in Label : SoleSeries(i, l) /\ ok =>
            first[i].chunk_tx + asleep[i] <= value
      BY <2>11 DEF SleepIsKept
    <3>5. ~ ok => value = 0
      BY <2>2
    <3>6. LastIsLate'
      BY <2>14, <3>1, <3>3, <3>4, <3>5, <2>6, <2>12 DEF LastIsLate, SoleSeries
    <3> QED BY <2>7, <2>8, <3>2, <3>6
  <2> QED
    BY <2>1, <2>13, <2>14
<1>5. ASSUME NEW i \in Shard, NextBlock(i) PROVE MInv'
  <2>1. /\ UNCHANGED <<harness, thread, window, txs, history>>
        /\ head' = [head EXCEPT ![i] = @ + 1] /\ head[i] < MaxHead
    BY <1>5 DEF NextBlock
  <2>2. TypeOK' /\ ThreadsJoined'
    BY <2>1, ChainAssumption
    DEF TypeOK, ThreadsJoined, Joined, harness, window, history
  <2>3. \A j \in Shard : head[j] <= head'[j]
    BY <2>1, <1>t, ChainAssumption DEF TypeOK
  <2>4. FirstIsRecent' /\ LastIsLate'
    BY <2>1, <2>2, <2>3, <1>t, ChainAssumption
    DEF TypeOK, FirstIsRecent, LastIsLate, SoleSeries, Snapshot, harness, window, history
  <2>5. GainIsProduced' /\ SleepIsKept'
    BY <2>1 DEF GainIsProduced, GainOf, GainOfAll, SleepIsKept, SoleSeries,
                window, history
  <2> QED BY <2>2, <2>4, <2>5
<1>6. ASSUME NEW i \in Shard, NEW l \in Label, ProduceChunk(i, l) PROVE MInv'
  <2>1. /\ UNCHANGED <<harness, thread, window, head, startHead>>
        /\ txs' = [txs EXCEPT ![i][l] = @ + 1] /\ txs[i][l] < MaxTx
        /\ produced' = [produced EXCEPT ![i] = @ + 1]
        /\ asleep' = IF pc = "sleep" THEN [asleep EXCEPT ![i] = @ + 1] ELSE asleep
    BY <1>6 DEF ProduceChunk
  <2>2. /\ \A j \in Shard, k \in Label :
             txs'[j][k] = IF j = i /\ k = l THEN txs[j][k] + 1 ELSE txs[j][k]
        /\ \A j \in Shard : produced'[j] = IF j = i THEN produced[j] + 1 ELSE produced[j]
        /\ \A j \in Shard : asleep'[j] = IF pc = "sleep" /\ j = i THEN asleep[j] + 1
                                         ELSE asleep[j]
    BY <2>1 DEF TypeOK
  <2>3. TypeOK' /\ ThreadsJoined' /\ FirstIsRecent'
    <3>1. txs' \in [Shard -> [Label -> 0 .. MaxTx]]
      BY <2>1, ChainAssumption DEF TypeOK
    <3> QED BY <2>1, <2>2, <3>1
            DEF TypeOK, ThreadsJoined, Joined, FirstIsRecent, harness, window
  <2>4. \A j \in Shard, k \in Label : SoleSeries(j, k)' =>
          SoleSeries(j, k) /\ (j = i => k = l)
    BY <2>2, <1>t DEF SoleSeries
  <2>5. SleepIsKept'
    BY <2>1, <2>2, <2>4, <1>t, ChainAssumption DEF SleepIsKept, Snapshot, window
  <2>6. ASSUME NEW j \in Shard, first'[j].counted
        PROVE  (GainOfAll(j) \/ \E a \in Label : GainOf(j, a))'
    <3>1. GainOfAll(j) \/ \E a \in Label : GainOf(j, a)
      BY <2>1, <2>6 DEF GainIsProduced, window
    <3>2. first' = first /\ first[j].chunk_tx \in Nat
      BY <2>1, <1>t, ChainAssumption DEF Snapshot, window
    <3>3. \A k \in Label : /\ txs'[j][k] \in Nat /\ txs[j][k] \in Nat
                           /\ txs'[j][k] >= txs[j][k]
                           /\ txs'[j][k] - txs[j][k] <= produced'[j] - produced[j]
      BY <2>2, <1>t, ChainAssumption
    <3>4. produced[j] \in Nat /\ produced'[j] \in Nat
      BY <2>2, <1>t
    <3>5. CASE GainOfAll(j)
      BY <3>2, <3>3, <3>4, <3>5 DEF GainOfAll
    <3>6. ASSUME NEW a \in Label, GainOf(j, a) PROVE GainOf(j, a)'
      BY <3>2, <3>3, <3>4, <3>6 DEF GainOf
    <3> QED BY <3>1, <3>5, <3>6
  <2>7. LastIsLate'
    <3>1. UNCHANGED <<pc, first, last, head>>
      BY <2>1 DEF harness, window
    <3>2. \A j \in Shard : last[j].counted => asleep'[j] = asleep[j]
      BY <2>2 DEF LastIsLate
    <3>3. \A j \in Shard : /\ produced'[j] >= produced[j] /\ produced'[j] \in Nat
                           /\ produced[j] \in Nat
                           /\ first[j].chunk_tx \in Nat /\ last[j].chunk_tx \in Nat
      BY <2>2, <1>t, ChainAssumption DEF Snapshot
    <3> QED BY <2>4, <3>1, <3>2, <3>3 DEF LastIsLate
  <2> QED BY <2>3, <2>5, <2>6, <2>7 DEF GainIsProduced
<1>7. CASE UNCHANGED vars
  <2>1. UNCHANGED <<harness, thread, window, chain, history>>
    BY <1>7 DEF vars
  <2>2. GainIsProduced' /\ SleepIsKept'
    BY <2>1, CountersKept DEF window
  <2> QED
    BY <2>1, <2>2 DEF TypeOK, ThreadsJoined, Joined, FirstIsRecent, LastIsLate, SoleSeries,
                      harness, window, chain, history
<1> QED
  BY <1>1, <1>2, <1>3, <1>4, <1>5, <1>6, <1>7
  DEF Next, HarnessStep, Returned

LEMMA MInvariance == Spec => []MInv
  BY MInvInit, MInvStep, PTL DEF Spec

(***************************************************************************)
(* What it yields.                                                         *)
(***************************************************************************)

\* Every variable keeps its type and the retries stay within their bound.
THEOREM MeasurementTypes == Spec => []TypeOK
<1>1. MInv => TypeOK
  BY DEF MInv
<1> QED
  BY <1>1, MInvariance, PTL

LEMMA NoOverstatement == MInv => NeverOverstates
<1> SUFFICES ASSUME MInv, pc = "done", NEW i \in Shard
             PROVE  /\ first[i].counted => delta_count(i) <= produced[i]
                    /\ first[i].status_ok => delta_h(i) <= head[i] - startHead[i]
  BY DEF NeverOverstates
<1>1. /\ first[i] \in Snapshot /\ last[i] \in Snapshot
      /\ head[i] \in Nat /\ startHead[i] \in Nat /\ produced[i] \in Nat
  BY ChainAssumption DEF MInv, TypeOK
<1>2. first[i].chunk_tx \in Nat /\ last[i].chunk_tx \in Nat
  BY <1>1, ChainAssumption DEF Snapshot
<1>3. first[i].counted => delta_count(i) <= produced[i]
  BY <1>1, <1>2 DEF MInv, LastIsLate, delta_count
<1>4. first[i].height \in Nat /\ last[i].height \in Nat
  BY <1>1, ChainAssumption DEF Snapshot
<1>5. first[i].status_ok => delta_h(i) <= head[i] - startHead[i]
  BY <1>1, <1>4 DEF MInv, FirstIsRecent, LastIsLate, delta_h
<1> QED
  BY <1>3, <1>5

\* The reported deltas never exceed what an instance that answered at the start
\* of the window produced between t1 and t2, over any number of attempts and
\* however often it was moved between any number of shards.
THEOREM MeasurementNeverOverstates == Spec => []NeverOverstates
  BY NoOverstatement, MInvariance, PTL

\* Whatever an instance that is not moved includes during the sleep is counted
\* if it answers at the end, whichever shard it produces for.
THEOREM MeasurementWindowCounted == Spec => []WindowCounted
<1>1. ASSUME MInv PROVE WindowCounted
  <2> SUFFICES ASSUME pc = "done", NEW i \in Shard, last[i].counted,
                      NEW l \in Label, SoleSeries(i, l)
               PROVE  delta_count(i) >= asleep[i]
    BY DEF WindowCounted
  <2>1. /\ first[i].chunk_tx \in Nat /\ last[i].chunk_tx \in Nat
        /\ asleep[i] \in Nat
    BY <1>1, ChainAssumption DEF MInv, TypeOK, Snapshot
  <2> QED
    BY <1>1, <2>1 DEF MInv, LastIsLate, delta_count
<1> QED
  BY <1>1, MInvariance, PTL

\* More shards can only be enough as well.
LEMMA EnoughMonotone ==
  ASSUME NEW S \in SUBSET Shard, NEW T \in SUBSET Shard, S \subseteq T,
         enough(Cardinality(S))
  PROVE  enough(Cardinality(T))
<1>1. IsFiniteSet(T)
  BY ShardAssumption, FS_Subset
<1>2. /\ Cardinality(S) <= Cardinality(T)
      /\ Cardinality(S) \in Nat /\ Cardinality(T) \in Nat
  BY <1>1, FS_Subset, FS_CardinalityType
<1>3. Cardinality(Shard) \in Nat
  BY ShardAssumption, FS_CardinalityType
<1> QED
  BY <1>2, <1>3 DEF enough

\* If the start snapshot is complete, a window that is accepted saw half of the
\* shards include transactions and a height advance.
THEOREM MeasurementAcceptedMeansLive == Spec => []AcceptedMeansLive
<1>1. ASSUME MInv PROVE AcceptedMeansLive
  <2> SUFFICES ASSUME pc = "done", measurement_is_valid,
                      \A i \in Shard : first[i].counted /\ first[i].status_ok
               PROVE  /\ enough(Cardinality({i \in Shard : produced[i] > 0}))
                      /\ \E i \in Shard : head[i] > startHead[i]
    BY DEF AcceptedMeansLive
  <2>1. \A i \in Shard : /\ delta_count(i) <= produced[i]
                         /\ delta_h(i) <= head[i] - startHead[i]
    BY <1>1, NoOverstatement DEF NeverOverstates
  <2>2. \A i \in Shard : /\ delta_count(i) \in Int /\ produced[i] \in Int
                         /\ delta_h(i) \in Int
                         /\ head[i] \in Nat /\ startHead[i] \in Nat
    BY <1>1, ChainAssumption
    DEF MInv, TypeOK, Snapshot, delta_count, delta_h
  <2>3. {i \in Shard : delta_count(i) > 0} \subseteq {i \in Shard : produced[i] > 0}
    BY <2>1, <2>2
  <2>4. enough(Cardinality({i \in Shard : produced[i] > 0}))
    BY <2>3, EnoughMonotone DEF measurement_is_valid
  <2>5. \E i \in Shard : head[i] > startHead[i]
    BY <2>1, <2>2 DEF measurement_is_valid
  <2> QED
    BY <2>4, <2>5
<1> QED
  BY <1>1, MInvariance, PTL

=============================================================================
