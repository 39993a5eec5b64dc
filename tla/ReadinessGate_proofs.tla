------------------------ MODULE ReadinessGate_proofs ------------------------
(***************************************************************************)
(* What the readiness gate guarantees when it opens, when it refuses and   *)
(* when it gives up, for any number of nodes, any thresholds and timeouts  *)
(* and any behaviour of the nodes.                                         *)
(***************************************************************************)
EXTENDS ReadinessGate, TLAPS

\* Heights never decrease, so what was read lies between the height when the
\* poll began and the height now.
Between ==
  \A i \in Node : /\ began[i] <= head[i] /\ seen[i].height <= head[i]
                  /\ seen[i].ok => began[i] <= seen[i].height

\* The gate opened on what it saw.
Opened == pc = "ready" => all_pass

\* As long as all nodes have been ready, every row that was read says so.
Steady ==
  steady => /\ \A i \in Node : node[i] = "ready"
            /\ pc = "scrape" => \A i \in 0 .. next - 1 : seen[i].ok
            /\ pc = "sleep" => \A i \in Node : seen[i].ok

\* The clock, step by step of a poll.
Clock ==
  /\ pc = "poll" => now <= Timeout + PollTime
  /\ pc = "scrape" => now <= Timeout + 2 * next
  /\ pc = "sleep" => now <= Timeout + 2 * N
  /\ pc = "ready" => now <= Timeout + PollTime + Stabilization
  /\ pc = "failed" => Timeout < now /\ now <= Timeout + PollTime

GInv == TypeOK /\ Between /\ Opened /\ Steady /\ Clock

USE NodesAssumption, HeightsAssumption, ClockAssumption

-----------------------------------------------------------------------------

LEMMA GInit == Init => GInv
<1> SUFFICES ASSUME Init PROVE GInv
  OBVIOUS
<1>1. TypeOK
  <2>1. 0 \in Node /\ 0 \in 0 .. MaxHead
    BY DEF Node
  <2>2. NoRow \in Row
    BY <2>1 DEF NoRow, Row
  <2>3. seen \in [Node -> Row] /\ head \in [Node -> 0 .. MaxHead] /\ began = head
    BY <2>1, <2>2 DEF Init
  <2> QED
    BY <2>1, <2>3 DEF Init, TypeOK
<1>2. Between
  BY DEF Init, Between, Node, NoRow
<1>3. Opened /\ Steady
  BY DEF Init, Opened, Steady
<1>4. Clock
  BY DEF Init, Clock, PollTime
<1> QED
  BY <1>1, <1>2, <1>3, <1>4 DEF GInv

\* The types, action by action.
LEMMA TypesStep == TypeOK /\ [Next]_vars => TypeOK'
<1> SUFFICES ASSUME TypeOK, [Next]_vars PROVE TypeOK'
  OBVIOUS
<1> USE DEF TypeOK, Node, Row
<1>1. CASE StartPoll
  BY <1>1 DEF StartPoll, NoRow, chain
<1>2. CASE TimedOut
  BY <1>2 DEF TimedOut, chain, history
<1>3. CASE Scrape
  <2>1. /\ next' \in Node /\ pc' \in {"scrape", "sleep"}
    BY <1>3 DEF Scrape
  <2>2. seen' \in [Node -> Row]
    BY <1>3 DEF Scrape
  <2>3. now' \in Nat
    BY <1>3 DEF Scrape
  <2> QED
    BY <1>3, <2>1, <2>2, <2>3 DEF Scrape, chain
<1>4. CASE Decide
  <2>1. now' \in Nat
    BY <1>4 DEF Decide
  <2> QED
    BY <1>4, <2>1 DEF Decide, chain, history
<1>5. CASE \E i \in Node : NextBlock(i)
  <2>1. PICK i \in Node : NextBlock(i)
    BY <1>5
  <2>2. head[i] + 1 \in 0 .. MaxHead
    BY <2>1 DEF NextBlock
  <2>3. head' \in [Node -> 0 .. MaxHead]
    BY <2>1, <2>2 DEF NextBlock
  <2> QED
    BY <2>1, <2>3 DEF NextBlock, gate, history
<1>6. CASE \E i \in Node : Change(i)
  BY <1>6 DEF Change, gate
<1>7. CASE Over \/ UNCHANGED vars
  BY <1>7 DEF Over, vars, gate, chain, history
<1> QED
  BY <1>1, <1>2, <1>3, <1>4, <1>5, <1>6, <1>7 DEF Next, GateStep

\* What has been read stays between the heights.
LEMMA BetweenStep == TypeOK /\ Between /\ [Next]_vars => Between'
<1> SUFFICES ASSUME TypeOK, Between, [Next]_vars PROVE Between'
  OBVIOUS
<1> USE DEF TypeOK, Between, Node, Row
<1>1. CASE StartPoll
  BY <1>1 DEF StartPoll, NoRow, chain
<1>2. CASE TimedOut
  BY <1>2 DEF TimedOut, chain, history
<1>3. CASE Scrape
  <2>1. \A i \in Node : i # next => seen'[i] = seen[i]
    BY <1>3 DEF Scrape
  <2>2. /\ seen'[next].height = IF node[next] = "silent" THEN 0 ELSE head[next]
        /\ seen'[next].ok => node[next] = "ready"
    BY <1>3 DEF Scrape
  <2>3. UNCHANGED <<head, began>>
    BY <1>3 DEF Scrape, chain
  <2>4. began[next] <= head[next] /\ head[next] \in Nat
    OBVIOUS
  <2>5. /\ seen'[next].height <= head[next]
        /\ seen'[next].ok => began[next] <= seen'[next].height
    BY <2>2, <2>4
  <2> QED
    BY <2>1, <2>3, <2>5
<1>4. CASE Decide
  BY <1>4 DEF Decide, chain, history
<1>5. CASE \E i \in Node : NextBlock(i)
  BY <1>5 DEF NextBlock, gate, history
<1>6. CASE \E i \in Node : Change(i)
  BY <1>6 DEF Change, gate
<1>7. CASE Over \/ UNCHANGED vars
  BY <1>7 DEF Over, vars, gate, chain, history
<1> QED
  BY <1>1, <1>2, <1>3, <1>4, <1>5, <1>6, <1>7 DEF Next, GateStep

LEMMA SameVerdict == ASSUME seen' = seen PROVE all_pass' = all_pass
  BY DEF all_pass, spread_ok

\* Opening, steadiness and the clock.
LEMMA RestStep ==
  GInv /\ [Next]_vars => Opened' /\ Steady' /\ Clock'
<1> SUFFICES ASSUME GInv, [Next]_vars PROVE Opened' /\ Steady' /\ Clock'
  OBVIOUS
<1> USE DEF GInv, TypeOK, Node
<1>1. CASE StartPoll
  BY <1>1 DEF StartPoll, Opened, Steady, Clock, chain
<1>2. CASE TimedOut
  BY <1>2 DEF TimedOut, Opened, Steady, Clock, chain, history
<1>3. CASE Scrape
  <2>1. /\ pc = "scrape" /\ UNCHANGED <<node, head, steady>>
        /\ IF next + 1 < N THEN next' = next + 1 /\ pc' = "scrape"
                           ELSE next' = 0 /\ pc' = "sleep"
    BY <1>3 DEF Scrape, chain
  <2>2. /\ node[next] = "ready" => seen'[next].ok
        /\ \A i \in Node : i # next => seen'[i] = seen[i]
    BY <1>3 DEF Scrape, Row
  <2>3. now' <= now + 2
    BY <1>3 DEF Scrape
  <2>4. Steady'
    <3> SUFFICES ASSUME steady PROVE Steady'
      BY <2>1 DEF Steady
    <3>1. /\ \A i \in Node : node[i] = "ready"
          /\ \A i \in 0 .. next - 1 : seen[i].ok
      BY <2>1 DEF Steady
    <3>2. \A i \in 0 .. next : seen'[i].ok
      BY <2>2, <3>1
    <3>3. CASE next + 1 < N
      BY <2>1, <3>1, <3>2, <3>3 DEF Steady
    <3>4. CASE ~ (next + 1 < N)
      BY <2>1, <3>1, <3>2, <3>4 DEF Steady
    <3> QED
      BY <3>3, <3>4
  <2>5. Clock'
    <3>1. now' \in Nat
      BY TypesStep
    <3>2. now <= Timeout + 2 * next
      BY <2>1 DEF Clock
    <3>3. next + 1 < N \/ next + 1 = N
      OBVIOUS
    <3> QED
      BY <2>1, <2>3, <3>1, <3>2, <3>3 DEF Clock
  <2> QED
    BY <2>1, <2>4, <2>5 DEF Opened
<1>4. CASE Decide
  <2>1. all_pass' = all_pass
    BY <1>4, SameVerdict DEF Decide
  <2>2. Opened' /\ Steady'
    BY <1>4, <2>1 DEF Decide, Opened, Steady, chain, history
  <2>3. Clock'
    BY <1>4 DEF Decide, Clock, PollTime
  <2> QED
    BY <2>2, <2>3
<1>5. CASE \E i \in Node : NextBlock(i)
  <2>1. UNCHANGED <<gate, node, history>>
    BY <1>5 DEF NextBlock
  <2> QED
    BY <2>1, SameVerdict DEF gate, history, Opened, Steady, Clock, PollTime
<1>6. CASE \E i \in Node : Change(i)
  <2>1. UNCHANGED gate /\ steady' = FALSE
    BY <1>6 DEF Change
  <2> QED
    BY <2>1, SameVerdict DEF gate, Opened, Steady, Clock, PollTime
<1>7. CASE Over \/ UNCHANGED vars
  <2>1. UNCHANGED vars
    BY <1>7 DEF Over
  <2> QED
    BY <2>1, SameVerdict DEF vars, gate, chain, history, Opened, Steady, Clock, PollTime
<1> QED
  BY <1>1, <1>2, <1>3, <1>4, <1>5, <1>6, <1>7 DEF Next, GateStep

-----------------------------------------------------------------------------

\* The inductive invariant of the gate.
THEOREM GateInvariant == Spec => []GInv
<1>1. GInv /\ [Next]_vars => GInv'
  BY TypesStep, BetweenStep, RestStep DEF GInv
<1> QED
  BY GInit, <1>1, PTL DEF Spec

\* Every variable of the gate keeps its type.
THEOREM GateTypes == Spec => []TypeOK
<1>1. GInv => TypeOK
  BY DEF GInv
<1> QED
  BY GateInvariant, <1>1, PTL

\* The gate opens only when no node lags behind where another was when the last
\* poll began.
THEOREM NoLaggard == Spec => []OpensWithoutLaggard
<1>1. GInv => OpensWithoutLaggard
  <2> SUFFICES ASSUME GInv, pc = "ready", NEW i \in Node, NEW j \in Node
               PROVE  head[i] >= MinHeight /\ head[i] >= began[j] - Spread
    BY DEF OpensWithoutLaggard
  <2> USE DEF GInv, TypeOK, Row
  <2>1. all_pass
    BY DEF Opened
  <2>2. /\ seen[i].height >= MinHeight /\ seen[j].ok
        /\ seen[j].height - seen[i].height <= Spread
    BY <2>1 DEF all_pass, spread_ok
  <2>3. seen[i].height <= head[i] /\ began[j] <= seen[j].height
    BY <2>2 DEF Between
  <2> QED
    BY <2>2, <2>3
<1> QED
  BY GateInvariant, <1>1, PTL

\* A steady poll is refused only for a cause.
THEOREM RefusalExplained == Spec => []RefusedForCause
<1>1. GInv => RefusedForCause
  <2> SUFFICES ASSUME GInv, pc = "sleep", steady, ~ all_pass
               PROVE  \E i, j \in Node : began[i] < MinHeight \/ head[i] - began[j] > Spread
    BY DEF RefusedForCause
  <2> USE DEF GInv, TypeOK, Row
  <2>1. \A i \in Node : seen[i].ok
    BY DEF Steady
  <2>2. \A i \in Node : seen[i].height <= head[i] /\ began[i] <= seen[i].height
    BY <2>1 DEF Between
  <2>3. CASE \E i \in Node : ~ (seen[i].height >= MinHeight)
    <3>1. PICK i \in Node : ~ (seen[i].height >= MinHeight)
      BY <2>3
    <3>2. began[i] < MinHeight
      BY <2>2, <3>1
    <3> QED
      BY <3>2
  <2>4. CASE \E i, j \in Node : ~ (seen[i].height - seen[j].height <= Spread)
    <3>1. PICK i \in Node, j \in Node : ~ (seen[i].height - seen[j].height <= Spread)
      BY <2>4
    <3>2. head[i] - began[j] > Spread
      BY <2>2, <3>1
    <3> QED
      BY <3>2
  <2> QED
    BY <2>1, <2>3, <2>4 DEF all_pass, spread_ok
<1> QED
  BY GateInvariant, <1>1, PTL

\* The gate fails after its deadline and outlives it by less than a poll.
THEOREM GateKeepsDeadline == Spec => []DeadlineKept
<1>1. GInv => DeadlineKept
  BY DEF GInv, TypeOK, Clock, DeadlineKept, PollTime, Node
<1> QED
  BY GateInvariant, <1>1, PTL

=============================================================================
