---------------------------- MODULE Measurement ----------------------------
(***************************************************************************)
(* measure_run of scripts/run_benchmark.py: two snapshots of every shard,  *)
(* taken by concurrent threads on either side of a sleep, and the decision *)
(* to accept, to retry or to report the window as it is.                   *)
(*                                                                         *)
(* Each thread fetches /status and then /metrics; either may time out.     *)
(* Meanwhile every shard's node produces blocks and includes transactions. *)
(* near_chunk_transactions_total has one series per shard an instance has  *)
(* produced chunks for. One seat per shard makes instance i the only       *)
(* producer of one shard, but which one may change with the epoch, so that *)
(* several series of an instance may be positive; the code reads the first *)
(* positive one.                                                           *)
(*                                                                         *)
(* startHead, produced and asleep are history variables: the heights at    *)
(* t1, and the transactions each instance has included since t1 and        *)
(* during the sleep, whatever the shard.                                   *)
(***************************************************************************)
EXTENDS Integers, FiniteSets

CONSTANTS Shard,       \* the shards, one neard instance each
          Labels,      \* bound: shards an instance may come to produce for
          Moved,       \* the instances that an epoch may move
          MaxRetries,  \* MAX_MEASUREMENT_RETRIES
          MinHead,     \* height reached when the readiness gate opened
          MaxHead,     \* bound: block height
          MaxTx        \* bound: transactions in chunks, per series

ASSUME ShardAssumption == IsFiniteSet(Shard) /\ Shard # {}
ASSUME RetriesAssumption == MaxRetries \in Nat
ASSUME LabelsAssumption == Labels \in Nat \ {0} /\ Moved \subseteq Shard
ASSUME ChainAssumption == /\ MaxHead \in Nat /\ MinHead \in 0 .. MaxHead
                          /\ MaxTx \in Nat

\* The shard labels of an instance's counter, in the order /metrics prints
\* them; label 1 is the only one of an instance that stays where it is.
Label == 1 .. Labels

\* What one fetch_shard_snapshot returns; "counted" says whether chunk_tx was
\* read from /metrics or is the default 0. status_ok is only kept for H1.
Snapshot == [height : 0 .. MaxHead, status_ok : BOOLEAN,
             chunk_tx : 0 .. MaxTx, counted : BOOLEAN]
NoSnapshot == [height |-> 0, status_ok |-> FALSE,
               chunk_tx |-> 0, counted |-> FALSE]

VARIABLES
  pc,       \* wait, start, sleep, end, decide, retry or done
  attempt,  \* loop variable of the retry loop
  thread,   \* per shard: status, metrics or idle
  first,    \* h1 and counts_start
  last,     \* h2 and counts_end
  head,     \* latest_block_height of each instance
  txs,      \* near_chunk_transactions_total of each instance, per label
  startHead, produced, asleep

harness == <<pc, attempt>>
window == <<first, last>>
chain == <<head, txs>>
history == <<startHead, produced, asleep>>
vars == <<harness, thread, window, chain, history>>

Nothing == [i \in Shard |-> 0]

Init ==
  /\ pc = "wait" /\ attempt = 0
  /\ thread = [i \in Shard |-> "idle"]
  /\ first = [i \in Shard |-> NoSnapshot] /\ last = first
  /\ head = [i \in Shard |-> MinHead] /\ txs = [i \in Shard |-> [l \in Label |-> 0]]
  /\ startHead = head /\ produced = Nothing /\ asleep = Nothing

-----------------------------------------------------------------------------
(* The window.                                                             *)

Spawn == thread' = [i \in Shard |-> "status"]
Joined == \A i \in Shard : thread[i] = "idle"

\* Fault: a retry keeps the start snapshot of the first attempt.
StartAttempt_KeepsSnapshot ==
  /\ pc \in {"wait", "retry"}
  /\ IF pc = "wait" THEN Spawn /\ pc' = "start"
     ELSE pc' = "sleep" /\ UNCHANGED thread
  /\ startHead' = head /\ produced' = Nothing /\ asleep' = Nothing
  /\ UNCHANGED <<attempt, window, chain>>

\* The phase transition has passed, or the retry wait is over: t1.
StartAttempt ==
  /\ pc \in {"wait", "retry"}
  /\ pc' = "start"
  /\ Spawn
  /\ first' = [i \in Shard |-> NoSnapshot] /\ last' = first'
  /\ startHead' = head /\ produced' = Nothing /\ asleep' = Nothing
  /\ UNCHANGED <<attempt, chain>>

\* Every thread has been joined; the window sleeps for the duration.
OpenWindow ==
  /\ pc = "start" /\ Joined
  /\ pc' = "sleep"
  /\ UNCHANGED <<attempt, thread, window, chain, history>>

CloseWindow ==
  /\ pc = "sleep"
  /\ pc' = "end" /\ Spawn
  /\ UNCHANGED <<attempt, window, chain, history>>

-----------------------------------------------------------------------------
(* fetch_shard_snapshot, in the threads of the start and the end snapshot.  *)

Take(i, s) == IF pc = "start"
              THEN first' = [first EXCEPT ![i] = s] /\ UNCHANGED last
              ELSE last' = [last EXCEPT ![i] = s] /\ UNCHANGED first
Taken(i) == IF pc = "start" THEN first[i] ELSE last[i]

\* Without an answer H1 is 0 and H2 is H1.
FetchStatus(i) ==
  /\ thread[i] = "status"
  /\ thread' = [thread EXCEPT ![i] = "metrics"]
  /\ \E ok \in BOOLEAN :
       Take(i, [Taken(i) EXCEPT
                  !.height = IF ok THEN head[i]
                             ELSE IF pc = "start" THEN 0 ELSE first[i].height,
                  !.status_ok = ok /\ pc = "start"])
  /\ UNCHANGED <<harness, chain, history>>

\* Fault: the first line decides, also when it is zero.
metrics_chunk_tx_total_FirstLine(i, value) == value = txs[i][1]

\* value is the first positive series in the text of /metrics, or 0.
metrics_chunk_tx_total(i, value) ==
  \/ \E l \in Label : /\ txs[i][l] > 0 /\ value = txs[i][l]
                      /\ \A k \in Label : k < l => txs[i][k] = 0
  \/ (\A l \in Label : txs[i][l] = 0) /\ value = 0

\* Without an answer the counter is 0.
FetchMetrics(i) ==
  /\ thread[i] = "metrics"
  /\ thread' = [thread EXCEPT ![i] = "idle"]
  /\ \E ok \in BOOLEAN, value \in 0 .. MaxTx :
       /\ IF ok THEN metrics_chunk_tx_total(i, value) ELSE value = 0
       /\ Take(i, [Taken(i) EXCEPT !.chunk_tx = value, !.counted = ok])
  /\ UNCHANGED <<harness, chain, history>>

-----------------------------------------------------------------------------
(* The decision.                                                           *)

delta_count(i) == last[i].chunk_tx - first[i].chunk_tx
delta_h(i) == last[i].height - first[i].height

enough(active) == /\ active >= 1
                  /\ active >= Cardinality(Shard) \div 2

\* Fault: a shard counts as active when its counter differs.
measurement_is_valid_AnyChange ==
  /\ enough(Cardinality({i \in Shard : delta_count(i) # 0}))
  /\ \E i \in Shard : delta_h(i) > 0

measurement_is_valid ==
  /\ enough(Cardinality({i \in Shard : delta_count(i) > 0}))
  /\ \E i \in Shard : delta_h(i) > 0

\* Fault: the number of retries is not bounded.
Decide_Unbounded ==
  /\ pc = "end" /\ Joined
  /\ IF measurement_is_valid
     THEN pc' = "done" /\ UNCHANGED attempt
     ELSE pc' = "retry" /\ attempt' = attempt
  /\ UNCHANGED <<thread, window, chain, history>>

\* t2 and the decision: accept, wait and retry, or report as it is.
Decide ==
  /\ pc = "end" /\ Joined
  /\ IF measurement_is_valid \/ attempt = MaxRetries
     THEN pc' = "done" /\ UNCHANGED attempt
     ELSE pc' = "retry" /\ attempt' = attempt + 1
  /\ UNCHANGED <<thread, window, chain, history>>

-----------------------------------------------------------------------------
(* The chain, until the measurement is over.                               *)

NextBlock(i) ==
  /\ pc # "done" /\ head[i] < MaxHead
  /\ head' = [head EXCEPT ![i] = @ + 1]
  /\ UNCHANGED <<harness, thread, window, txs, history>>

\* Instance i produces a chunk of shard l that includes a transaction.
ProduceChunk(i, l) ==
  /\ pc # "done" /\ txs[i][l] < MaxTx
  /\ l = 1 \/ i \in Moved
  /\ txs' = [txs EXCEPT ![i][l] = @ + 1]
  /\ produced' = [produced EXCEPT ![i] = @ + 1]
  /\ asleep' = IF pc = "sleep" THEN [asleep EXCEPT ![i] = @ + 1] ELSE asleep
  /\ UNCHANGED <<harness, thread, window, head, startHead>>

\* The results are returned and the instances are torn down.
Returned == pc = "done" /\ UNCHANGED vars

HarnessStep ==
  \/ StartAttempt \/ OpenWindow \/ CloseWindow \/ Decide
  \/ \E i \in Shard : FetchStatus(i) \/ FetchMetrics(i)

Next == \/ HarnessStep
        \/ \E i \in Shard : NextBlock(i)
        \/ \E i \in Shard, l \in Label : ProduceChunk(i, l)
        \/ Returned

Spec == Init /\ [][Next]_vars

\* Every request has a timeout and every sleep ends; the chain may stall.
FairSpec == Spec /\ WF_vars(HarnessStep)

-----------------------------------------------------------------------------
(* Correctness.                                                            *)

\* Every variable stays in its type; there are at most MaxRetries retries.
TypeOK ==
  /\ pc \in {"wait", "start", "sleep", "end", "retry", "done"}
  /\ attempt \in 0 .. MaxRetries
  /\ thread \in [Shard -> {"status", "metrics", "idle"}]
  /\ first \in [Shard -> Snapshot] /\ last \in [Shard -> Snapshot]
  /\ head \in [Shard -> 0 .. MaxHead] /\ txs \in [Shard -> [Label -> 0 .. MaxTx]]
  /\ startHead \in [Shard -> 0 .. MaxHead]
  /\ produced \in [Shard -> Nat] /\ asleep \in [Shard -> Nat]

\* The reported deltas never overstate an instance that answered at the start
\* of the window, whatever failed at its end and however many attempts it took:
\* counts and heights of an earlier attempt never leak into the last one, and
\* two series that are read on either side of the sleep never add what the
\* instance had produced before.
NeverOverstates ==
  pc = "done" => \A i \in Shard :
    /\ first[i].counted => delta_count(i) <= produced[i]
    /\ first[i].status_ok => delta_h(i) <= head[i] - startHead[i]

\* Whatever instance i has included so far, it included in chunks of shard l.
SoleSeries(i, l) == \A k \in Label : k # l => txs[i][k] = 0

\* No transaction of the sleep is missed on an instance that answered at its
\* end ("elapsed matches the interval over which chunk counters advanced"),
\* whatever shard it produces for, unless it has been moved from one shard to
\* another before the window ended: then another series may be read.
WindowCounted ==
  pc = "done" => \A i \in Shard :
    last[i].counted /\ (\E l \in Label : SoleSeries(i, l)) =>
      delta_count(i) >= asleep[i]

\* If every shard answered the start snapshot, an accepted window really saw
\* half of the instances (one at least) include transactions and a height advance,
\* even though fetches at its end may have failed.
AcceptedMeansLive ==
  pc = "done" /\ measurement_is_valid
  /\ (\A i \in Shard : first[i].counted /\ first[i].status_ok) =>
    /\ enough(Cardinality({i \in Shard : produced[i] > 0}))
    /\ \E i \in Shard : head[i] > startHead[i]

\* measure_run returns, however often the chain stalls.
MeasurementEnds == <>(pc = "done")

\* measurement_is_valid "checks whether a measurement window captured live
\* chain activity": when it accepts, something was produced after t1.
AcceptedWindowIsLive ==
  pc = "done" /\ measurement_is_valid =>
    \E i \in Shard : produced[i] > 0 \/ head[i] > startHead[i]

=============================================================================
