---------------------------- MODULE ReadinessGate ----------------------------
(***************************************************************************)
(* readiness_gate of scripts/run_benchmark.py: poll after poll it asks     *)
(* every node in turn for its status, compares the heights it got at       *)
(* different moments, sleeps, and then decides; a deadline ends it.        *)
(* Meanwhile the nodes come up, synchronise, fall silent and move on.      *)
(*                                                                         *)
(* One unit of the clock is HTTP_TIMEOUT_S: a request takes none or one.   *)
(* What the gate learns of the transaction counters is advisory and left   *)
(* out, the time the requests for them take is not.                        *)
(*                                                                         *)
(* began and steady are history variables: the heights when the poll       *)
(* began, and whether all nodes have been ready since.                     *)
(***************************************************************************)
EXTENDS Integers

CONSTANTS N,              \* n_shards
          MinHeight,      \* 10
          Spread,         \* 3
          Timeout,        \* readiness_timeout_s
          Interval,       \* readiness_poll_interval_s
          Stabilization,  \* STABILIZATION_S, or 0 with skip_stabilization
          MaxHead         \* bound: block height

ASSUME NodesAssumption == N \in Nat \ {0}
ASSUME HeightsAssumption == MinHeight \in Nat /\ Spread \in Nat /\ MaxHead \in Nat
ASSUME ClockAssumption == Timeout \in Nat /\ Interval \in Nat /\ Stabilization \in Nat

Node == 0 .. N - 1
Row == [ok : BOOLEAN, height : 0 .. MaxHead]
NoRow == [ok |-> FALSE, height |-> 0]

VARIABLES
  pc,       \* poll, scrape, sleep, ready or failed
  next,     \* loop index of the scrape
  now,      \* time since gate_start
  elapsed,  \* the same, as it was when the poll began
  seen,     \* status_rows and heights of this poll
  node,     \* silent, syncing or ready
  head,     \* latest_block_height of every node
  began, steady

gate == <<pc, next, now, elapsed, seen>>
chain == <<node, head>>
history == <<began, steady>>
vars == <<gate, chain, history>>

Open == pc \notin {"ready", "failed"}

Init ==
  /\ pc = "poll" /\ next = 0 /\ now = 0 /\ elapsed = 0
  /\ seen = [i \in Node |-> NoRow]
  /\ node \in [Node -> {"silent", "syncing", "ready"}]
  /\ head = [i \in Node |-> 0]
  /\ began = head /\ steady = FALSE

-----------------------------------------------------------------------------

\* Fault: the deadline starts anew with every poll.
StartPoll_NoDeadline ==
  /\ pc = "poll"
  /\ pc' = "scrape" /\ next' = 0 /\ seen' = [i \in Node |-> NoRow]
  /\ elapsed' = 0 /\ now' = 0
  /\ began' = head /\ steady' = (\A i \in Node : node[i] = "ready")
  /\ UNCHANGED chain

\* Fault: the time is not taken again before a poll.
StartPoll_StaleTime ==
  /\ pc = "poll" /\ elapsed <= Timeout
  /\ pc' = "scrape" /\ next' = 0 /\ seen' = [i \in Node |-> NoRow]
  /\ elapsed' = now
  /\ began' = head /\ steady' = (\A i \in Node : node[i] = "ready")
  /\ UNCHANGED <<now, chain>>

\* The deadline is looked at when a poll begins, and only then.
StartPoll ==
  /\ pc = "poll" /\ now <= Timeout
  /\ pc' = "scrape" /\ next' = 0 /\ seen' = [i \in Node |-> NoRow]
  /\ elapsed' = now
  /\ began' = head /\ steady' = (\A i \in Node : node[i] = "ready")
  /\ UNCHANGED <<now, chain>>

TimedOut ==
  /\ pc = "poll" /\ now > Timeout
  /\ pc' = "failed"
  /\ UNCHANGED <<next, now, elapsed, seen, chain, history>>

\* fetch_status and fetch_metrics of one node.
Scrape ==
  /\ pc = "scrape"
  /\ LET i == next
         h == IF node[i] = "silent" THEN 0 ELSE head[i]
     IN /\ seen' = [seen EXCEPT ![i] = [ok |-> node[i] = "ready", height |-> h]]
        /\ \E cost \in 0 .. 2 : now' = now + cost
  /\ next' = IF next + 1 < N THEN next + 1 ELSE 0
  /\ pc' = IF next + 1 < N THEN "scrape" ELSE "sleep"
  /\ UNCHANGED <<elapsed, chain, began, steady>>

\* Fault: only node 0 must not lag behind the others.
spread_ok_FirstOnly == \A i \in Node : seen[i].height - seen[0].height <= Spread

spread_ok == \A i, j \in Node : seen[i].height - seen[j].height <= Spread

\* Fault: a node must be beyond the height that is asked for.
all_pass_Beyond == /\ \A i \in Node : seen[i].ok /\ seen[i].height > MinHeight
                   /\ spread_ok

\* Conditions 1 to 4.
all_pass == /\ \A i \in Node : seen[i].ok /\ seen[i].height >= MinHeight
            /\ spread_ok

\* The gate sleeps, asks for the counters, and decides on what it saw before;
\* if it opens, it waits for the stabilization.
Decide ==
  /\ pc = "sleep"
  /\ pc' = IF all_pass THEN "ready" ELSE "poll"
  /\ \E cost \in 0 .. N :
       now' = now + Interval + cost + (IF all_pass THEN Stabilization ELSE 0)
  /\ UNCHANGED <<next, elapsed, seen, chain, history>>

-----------------------------------------------------------------------------
(* The nodes.                                                              *)

NextBlock(i) ==
  /\ Open /\ head[i] < MaxHead
  /\ head' = [head EXCEPT ![i] = @ + 1]
  /\ UNCHANGED <<gate, node, history>>

Change(i) ==
  /\ Open
  /\ \E s \in {"silent", "syncing", "ready"} \ {node[i]} :
       node' = [node EXCEPT ![i] = s]
  /\ steady' = FALSE
  /\ UNCHANGED <<gate, head, began>>

Over == ~ Open /\ UNCHANGED vars

GateStep == StartPoll \/ TimedOut \/ Scrape \/ Decide

Next == GateStep \/ Over \/ \E i \in Node : NextBlock(i) \/ Change(i)

Spec == Init /\ [][Next]_vars

\* Requests have a timeout and sleeps end; of the nodes nothing is promised.
FairSpec == Spec /\ WF_vars(GateStep)

-----------------------------------------------------------------------------
(* Correctness.                                                            *)

\* The longest a poll can take: two requests of every node, the sleep, and one
\* more request of every node.
PollTime == 2 * N + Interval + N

\* Every variable stays in its type.
TypeOK ==
  /\ pc \in {"poll", "scrape", "sleep", "ready", "failed"}
  /\ next \in Node /\ now \in Nat /\ elapsed \in Nat
  /\ seen \in [Node -> Row]
  /\ node \in [Node -> {"silent", "syncing", "ready"}]
  /\ head \in [Node -> 0 .. MaxHead] /\ began \in [Node -> 0 .. MaxHead]
  /\ steady \in BOOLEAN

\* When the gate opens no node lags behind: it has MinHeight, and it is at most
\* Spread behind where any other was when the last poll began, although the
\* heights were read one after the other while the chain went on.
OpensWithoutLaggard ==
  pc = "ready" => \A i, j \in Node : head[i] >= MinHeight /\ head[i] >= began[j] - Spread

\* A poll during which all nodes were ready is refused only for a cause: a node
\* had not reached MinHeight when it began, or some node has got further ahead
\* of where another was than Spread allows, be it during the poll.
RefusedForCause ==
  pc = "sleep" /\ steady /\ ~ all_pass =>
    \E i, j \in Node : began[i] < MinHeight \/ head[i] - began[j] > Spread

\* The gate outlives its deadline by less than a poll and fails no earlier.
DeadlineKept ==
  /\ now <= Timeout + PollTime + (IF pc = "ready" THEN Stabilization ELSE 0)
  /\ pc = "failed" => now > Timeout

\* The gate ends, whatever the nodes do.
GateEnds == <>~ Open

=============================================================================
