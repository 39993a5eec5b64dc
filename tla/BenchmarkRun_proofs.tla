------------------------ MODULE BenchmarkRun_proofs ------------------------
(***************************************************************************)
(* Theorems about BenchmarkRun for every number of shards, runs and polls, *)
(* and that it implements BenchmarkContract under the mapping of           *)
(* BenchmarkRefinement.                                                    *)
(***************************************************************************)
EXTENDS BenchmarkRefinement, FiniteSetTheorems, TLAPS

(***************************************************************************)
(* Type correctness.                                                       *)
(***************************************************************************)

\* Which launch a phase belongs to.  A process is recorded under the current
\* invocation and launch, so types are preserved only together with this.
LaunchCounts ==
  /\ pc # "idle" => run # 0
  /\ pc \in {"preflight", "setup", "prekill", "wipe"} => launch = 0
  /\ pc \in {"launch", "spawn", "gate", "decide", "measure"} => launch # 0
  /\ pc \in {"assign", "rkill", "rpkill", "rwait"} => launch = 1

Typed == TypeOK /\ LaunchCounts

\* Every step keeps the variables in their types and the launches counted.
LEMMA TypedStep == Typed /\ [Next]_vars => Typed'
<1> SUFFICES ASSUME Typed, [Next]_vars PROVE Typed'
  OBVIOUS
<1> USE ShardsAssumption, BoundsAssumption, PkillAssumption
        DEF Typed, TypeOK, LaunchCounts, Phase, TryPhase, SetupPhase, RunPhase,
            HandlerPhase, FinallyPhase, PublishPhase, Mode, Outcome, ProcState, Artifact,
            Node, Run, Launch
<1>0. ASSUME PkillHits \/ PkillFails
      PROVE  proc' \in [Proc -> ProcState] /\ pkillFailed' \in BOOLEAN
  BY <1>0 DEF PkillHits, PkillFails
<1>1. ASSUME NEW m \in Mode, StartRun(m) PROVE Typed'
  <2>1. /\ run' \in 0 .. MaxRuns /\ launch' \in 0 .. 2
        /\ next' \in 0 .. N-1 /\ polls' \in 0 .. MaxPolls
    BY <1>1 DEF StartRun
  <2>2. pc' \in Phase /\ mode' \in Mode /\ outcome' \in Outcome
    BY <1>1 DEF StartRun
  <2>3. /\ recorded' \subseteq Proc /\ answered' \subseteq Proc
        /\ stale' \subseteq Proc /\ art' \subseteq Artifact
    BY <1>1 DEF StartRun
  <2>4. pkillFailed' \in BOOLEAN BY <1>1 DEF StartRun
  <2>5. UNCHANGED <<proc, data, dir, interrupts, refused>> /\ cont' = "exit" /\ tps' = "none"
    BY <1>1 DEF StartRun
  <2>6. LaunchCounts' BY <1>1 DEF StartRun
  <2> QED BY <2>1, <2>2, <2>3, <2>4, <2>5, <2>6
<1>2. CASE Preflight
  BY <1>2 DEF Preflight, Goto, Exit, harness, disk, env
<1>3. CASE Setup
  BY <1>3 DEF Setup, Goto, Exit, harness, disk, env
<1>4. CASE SetupFails
  BY <1>4 DEF SetupFails, Raise, Exit, harness, disk, env
<1>5. CASE PreLaunchKill
  BY <1>0, <1>5 DEF PreLaunchKill, Goto, Raise, harness, disk
<1>6. CASE Wipe
  BY <1>6 DEF Wipe, Goto, Raise, fleet, env
<1>7. CASE Fork
  <2>1. proc' \in [Proc -> ProcState]
    BY <1>7 DEF Fork
  <2>2. pc' = "spawn" /\ UNCHANGED <<cont, outcome, tps, harness, recorded,
                                    answered, stale, disk, env>>
    BY <1>7 DEF Fork, Goto
  <2> QED BY <1>7, <2>1, <2>2 DEF Fork, harness, disk, env
<1>8. CASE LaunchFails
  BY <1>8 DEF LaunchFails, Raise, harness, fleet, disk, env
<1>9. CASE Record
  <2>1. <<next, run, launch>> \in Proc
    BY <1>9 DEF Record, Proc
  <2>2. recorded' \subseteq Proc
    BY <1>9, <2>1 DEF Record
  <2>. QED
    BY <1>9, <2>2 DEF Record, Goto, disk, env
<1>10. CASE GateScrape
  BY <1>10 DEF GateScrape, Goto, disk, env
<1>11. CASE GateTimeout
  BY <1>11 DEF GateTimeout, Raise, harness, fleet, disk, env
<1>12. CASE GatePass
  BY <1>12 DEF GatePass, Goto, harness, fleet, disk, env
<1>13. CASE GateRetry
  BY <1>13 DEF GateRetry, Goto, harness, fleet, disk, env
<1>14. CASE Assign
  BY <1>14 DEF Assign, Goto, Raise, harness, disk, env
<1>15. ASSUME NEW p \in Proc, KillGroup(p) PROVE Typed'
  BY <1>15 DEF KillGroup, harness, disk, env
<1>33. ASSUME NEW p \in Proc, KillRefused(p) PROVE Typed'
  BY <1>33 DEF KillRefused, harness, fleet, disk
<1>16. CASE RestartKilled
  BY <1>16 DEF RestartKilled, Goto, harness, disk, env
<1>17. CASE RestartPkill
  BY <1>0, <1>17 DEF RestartPkill, Goto, Raise, harness, disk
<1>18. CASE RestartWait
  BY <1>18 DEF RestartWait, Goto, fleet, disk, env
<1>19. CASE Measure
  BY <1>19 DEF Measure, Goto, Raise, harness, fleet, disk, env
<1>20. CASE ReportFailure
  BY <1>20 DEF ReportFailure, Goto, harness, fleet, env
<1>21. CASE CleanupKilled
  BY <1>21 DEF CleanupKilled, Goto, harness, fleet, disk, env
<1>22. CASE HandlerPkill
  BY <1>0, <1>22 DEF HandlerPkill, LeaveHandler, Goto, Exit, harness, disk
<1>23. CASE HandlerSlept
  BY <1>23 DEF HandlerSlept, LeaveHandler, Goto, Exit, harness, disk, env
<1>24. CASE FinallyPkill
  BY <1>0, <1>24 DEF FinallyPkill, Goto, Exit, harness, disk
<1>25. CASE FinallySlept
  BY <1>25 DEF FinallySlept, Goto, Exit, harness, disk, env
<1>26. CASE WriteCsv \/ WriteDetail \/ WriteSummary
  <2>1. ASSUME NEW from \in {"csv", "detail", "summary"},
               NEW to \in {"detail", "summary", "wiperun"}, PublishStep(from, to)
        PROVE  Typed'
    <3>1. art' \subseteq Artifact /\ recorded' \subseteq Proc /\ outcome' \in Outcome
      BY <2>1 DEF PublishStep, Goto, Exit
    <3>2. pc' \in Phase
      BY <2>1 DEF PublishStep, Goto, Exit
    <3>. QED
      BY <2>1, <3>1, <3>2 DEF PublishStep, harness, env, Goto, Exit
  <2>. QED
    BY <1>26, <2>1 DEF WriteCsv, WriteDetail, WriteSummary
<1>27. CASE WipeRunDir
  BY <1>27 DEF WipeRunDir, Exit, harness, env
<1>28. CASE Interrupt
  BY <1>28 DEF Interrupt, HandlerInstalled, Exit, harness, disk
<1>29. CASE Crash
  BY <1>29 DEF Crash, Exit, harness, disk, env
<1>30. ASSUME NEW p \in Proc, Exec(p) \/ Die(p) PROVE Typed'
  <2>1. proc' \in [Proc -> ProcState]
    BY <1>30 DEF Exec, Die
  <2>2. UNCHANGED <<pc, cont, outcome, tps, harness, recorded, answered, stale,
                    disk, env>>
    BY <1>30 DEF Exec, Die, ProcUnchanged, disk
  <2>. QED
    BY <2>1, <2>2 DEF harness, disk, env
<1>32. ASSUME NEW p \in Proc, Store(p) PROVE Typed'
  <2>1. p[1] \in Node
    BY DEF Proc
  <2>. QED
    BY <1>32, <2>1 DEF Store, ProcUnchanged, harness, env
<1>31. CASE UNCHANGED vars
  BY <1>31 DEF vars, harness, fleet, disk, env
<1>. QED
  BY <1>1, <1>2, <1>3, <1>4, <1>5, <1>6, <1>7, <1>8, <1>9, <1>10, <1>11, <1>12,
     <1>13, <1>14, <1>15, <1>16, <1>17, <1>18, <1>19, <1>20, <1>21, <1>22, <1>23,
     <1>24, <1>25, <1>26, <1>27, <1>28, <1>29, <1>30, <1>31, <1>32, <1>33
     DEF Next, HarnessStep, ProcStep

LEMMA TypedInit == Init => Typed
<1> SUFFICES ASSUME Init PROVE Typed
  OBVIOUS
<1>1. LaunchCounts
  BY DEF Init, LaunchCounts
<1>2. /\ run \in 0 .. MaxRuns /\ launch \in 0 .. 2 /\ next \in Node
      /\ polls \in 0 .. MaxPolls /\ interrupts \in 0 .. MaxInterrupts
  BY ShardsAssumption, BoundsAssumption DEF Init, Node
<1>3. pc \in Phase /\ mode \in Mode /\ outcome \in Outcome
  BY DEF Init, Phase, Mode, Outcome
<1>4. /\ proc \in [Proc -> ProcState]
      /\ data \in [Node -> {"absent", "clean", "used"}]
  BY DEF Init, ProcState
<1> QED
  BY <1>1, <1>2, <1>3, <1>4 DEF Init, Typed, TypeOK

\* Every variable of the harness keeps its type in every behaviour: the gate
\* never polls past its deadline, the launch loop stays within the nodes.
THEOREM TypeCorrect == Spec => []TypeOK
<1>1. Typed => TypeOK
  BY DEF Typed
<1> QED
  BY <1>1, TypedInit, TypedStep, PTL DEF Spec

(***************************************************************************)
(* The inductive invariant, in named parts.                                *)
(***************************************************************************)

LivePhase == {"launch", "spawn", "gate", "decide", "assign", "rkill", "measure"}
NoneLive == \A p \in Proc : ~ Live(p)
NoneMine == \A p \in Proc : Mine(p) => ~ Live(p)

\* Nothing exists yet under the names the harness is about to give out.
FreshNames ==
  \A p \in Proc : proc[p] # "none" =>
    /\ p[2] <= run
    /\ p[2] = run => p[3] <= launch
    /\ p[2] = run /\ p[3] = launch =>
         /\ pc = "launch" => p[1] < next
         /\ pc = "spawn" => p[1] <= next

\* From the pre-launch pkill on, of the processes that can be killed only the
\* latest launch executes, and between the two pkills and their launches none.
OnlyLatestLaunch ==
  /\ pc \in {"wipe", "rpkill", "rwait"} => NoneLive
  /\ pc \in LivePhase =>
       \A p \in Proc : Live(p) => p[2] = run /\ p[3] = launch

\* neard_processes holds whatever executes, but for a child still in Popen.
Tracked ==
  /\ pc \in LivePhase =>
       \A p \in Proc : Live(p) =>
         p \in recorded \/ (pc = "spawn" /\ p = <<next, run, launch>>)
  /\ pc = "report" => \A p \in Proc : Mine(p) /\ Live(p) => p \in recorded
  /\ pc # "idle" =>
       \A p \in Proc : Mine(p) /\ Live(p) => p \in recorded \/ p = <<next, run, launch>>

\* What is left for the last pkill is within its reach, and then gone.
CleanupReaches ==
  /\ pc \in {"fkill", "fpkill"} \/ (pc \in HandlerPhase /\ cont = "exit") =>
       pkillFailed \/
       \A p \in Proc : Mine(p) /\ Live(p) => p \in recorded \/ proc[p] = "neard"
  /\ pc \in {"hpkill", "hsleep", "fpkill", "fsleep"} \union PublishPhase =>
       GroupsKilled
  /\ pc = "fsleep" \/ pc \in PublishPhase \/ (pc = "hsleep" /\ cont = "exit") =>
       pkillFailed \/ NoneMine
  /\ mode = "dry_run" => pc \in {"idle", "preflight", "setup"}

\* What the gate has read came from the latest launch, for every node once it
\* has passed.
Evidence ==
  /\ pc \in {"decide", "assign", "measure"} =>
       \A p \in answered : p \notin refused => p[2] = run /\ p[3] = launch
  /\ pc \in {"assign", "measure"} => \A n \in Node : \E p \in answered : p[1] = n

\* Only processes of a first launch are ever outdated, and none before the fix.
Outdated ==
  /\ \A p \in stale : p \notin refused => p[3] = 1
  /\ pc \in {"preflight", "setup", "prekill", "wipe"} => stale = {}
  /\ pc \in {"launch", "spawn", "gate", "decide", "assign", "measure"} /\ launch = 1
       => stale = {}

\* Artifacts appear in order, and a failure record excludes results.
Written ==
  /\ pc \in {"preflight", "report"} \union TryPhase => art = {}
  /\ outcome = "running" => "failure" \notin art
  /\ pc = "report" => outcome = "failed"
  /\ pc \in PublishPhase => outcome = "running"
  /\ pc = "detail" => "csv" \in art
  /\ pc = "summary" => {"csv", "detail"} \subseteq art
  /\ pc = "wiperun" => {"csv", "detail", "summary"} \subseteq art
  /\ outcome = "done" => pc = "idle" /\ {"csv", "detail", "summary"} \subseteq art
  /\ "failure" \in art => "csv" \notin art

Ownership == SingleInstance /\ FreshNames /\ OnlyLatestLaunch
Cleanup == Tracked /\ CleanupReaches /\ NoOrphans
Bookkeeping == Evidence /\ Outdated /\ CleanStart /\ Written

IInv == Typed /\ Ownership /\ Cleanup /\ Bookkeeping

LEMMA ProcParts ==
  ASSUME NEW p \in Proc
  PROVE  /\ p[1] \in Node /\ p[2] \in Run /\ p[3] \in {1, 2}
         /\ p = <<p[1], p[2], p[3]>>
  BY DEF Proc, Launch

\* Before its first launch an invocation owns no process.
LEMMA NoneMineYet == IInv /\ launch = 0 => NoneMine
<1> SUFFICES ASSUME IInv, launch = 0, NEW p \in Proc, Mine(p)
             PROVE  ~ Live(p)
  BY DEF NoneMine
<1>1. p[3] \in {1, 2} /\ ~ (p[3] <= launch)
  BY ProcParts
<1>2. proc[p] = "none"
  BY <1>1 DEF IInv, Ownership, FreshNames, Mine
<1> QED
  BY <1>2 DEF Live, Executing

LEMMA InvInit == Init => IInv
<1> SUFFICES ASSUME Init PROVE Ownership /\ Cleanup /\ Bookkeeping
  BY TypedInit DEF IInv
<1>1. NoneLive
  BY DEF Init, NoneLive, Live, Executing
<1>2. Ownership
  BY <1>1 DEF Init, Ownership, SingleInstance, FreshNames, OnlyLatestLaunch,
              NoneLive, LivePhase
<1>3. Cleanup
  BY <1>1 DEF Init, Cleanup, Tracked, CleanupReaches, NoOrphans, NoneLive,
              GroupsKilled, LivePhase, HandlerPhase, PublishPhase
<1>4. Bookkeeping
  BY DEF Init, Bookkeeping, Evidence, Outdated, CleanStart, Written, TryPhase,
         SetupPhase, RunPhase, PublishPhase
<1> QED
  BY <1>2, <1>3, <1>4

\* What a pkill, an exec, a kill and an exit do to the processes.
LEMMA PkillEffect ==
  ASSUME proc \in [Proc -> ProcState], refused' = refused
  PROVE  /\ PkillHits =>
              /\ pkillFailed' = pkillFailed
              /\ \A p \in Proc : /\ Live(p)' <=> Live(p) /\ proc[p] = "numactl"
                                 /\ Live(p)' => proc'[p] = "numactl"
                                 /\ proc[p] = "none" => proc'[p] = "none"
         /\ PkillFails => proc' = proc /\ pkillFailed' = TRUE
  BY DEF PkillHits, PkillFails, Executing, Live

ExecEffect ==
  /\ ProcUnchanged /\ data' = data
  /\ \A p \in Proc : /\ Live(p)' <=> Live(p)
                     /\ proc'[p] = "none" <=> proc[p] = "none"
                     /\ proc[p] = "neard" => proc'[p] = "neard"

KillEffect ==
  /\ ProcUnchanged /\ data' = data
  /\ \A p \in Proc : /\ Live(p)' => Live(p) /\ proc'[p] = proc[p]
                     /\ proc[p] = "none" => proc'[p] = "none"

StoreEffect ==
  /\ ProcUnchanged /\ proc' = proc
  /\ \A n \in Node : \/ data'[n] = data[n] \/ Barred(n)
                     \/ \E p \in Proc : Live(p) /\ p[1] = n

RefuseEffect ==
  /\ refused \subseteq refused' /\ refused' \subseteq Proc
  /\ UNCHANGED <<pc, cont, outcome, tps, harness, fleet, disk, pkillFailed, interrupts>>

LEMMA ProcEffects ==
  ASSUME TypeOK, NEW c \in Proc
  PROVE  /\ Exec(c) => ExecEffect
         /\ KillGroup(c) => KillEffect
         /\ KillRefused(c) => RefuseEffect
         /\ Die(c) => KillEffect
         /\ Store(c) => StoreEffect
<1>1. Exec(c) => ExecEffect
  BY DEF TypeOK, Exec, Executing, Live, ExecEffect, ProcUnchanged, env
<1>2. KillGroup(c) => KillEffect
  BY DEF TypeOK, KillGroup, Executing, Live, KillEffect, ProcUnchanged, disk, env
<1>3. Die(c) => KillEffect
  BY DEF TypeOK, Die, Executing, Live, KillEffect, ProcUnchanged, env
<1>4. Store(c) => StoreEffect
  BY DEF TypeOK, Store, Executing, Live, Barred, StoreEffect
<1>5. KillRefused(c) => RefuseEffect
  BY DEF TypeOK, KillRefused, RefuseEffect
<1> QED BY <1>1, <1>2, <1>3, <1>4, <1>5

\* No step leaves two processes on one home, hands out a name twice or lets
\* another launch than the latest execute.
LEMMA OwnershipStep == IInv /\ [Next]_vars => Ownership'
<1> SUFFICES ASSUME IInv, [Next]_vars PROVE Ownership'
  OBVIOUS
<1> USE ShardsAssumption, BoundsAssumption, ProcParts
    DEF IInv, Typed, TypeOK, LaunchCounts, Phase, TryPhase, SetupPhase,
        RunPhase, HandlerPhase, FinallyPhase, PublishPhase, harness, fleet,
        disk, env, Node, Run, Ownership, SingleInstance, FreshNames,
        OnlyLatestLaunch, Cleanup, Tracked, GroupsKilled, NoneLive,
        Executing, Live, LivePhase
<1>1. ASSUME NEW m \in Mode, StartRun(m) PROVE Ownership'
  BY <1>1 DEF StartRun
<1>2. CASE Preflight
  BY <1>2 DEF Preflight, Goto, Exit
<1>3. CASE Setup
  BY <1>3 DEF Setup, Goto, Exit
<1>4. CASE SetupFails
  BY <1>4 DEF SetupFails, Raise, Exit
<1>5. CASE PreLaunchKill
  BY <1>5, PkillEffect DEF PreLaunchKill, Goto, Raise, Settled
<1>6. CASE Wipe
  <2>1. SingleInstance'
    BY <1>6 DEF Wipe, Goto, Raise
  <2>2. FreshNames'
    BY <1>6 DEF Wipe, Goto, Raise
  <2>3. OnlyLatestLaunch'
    BY <1>6 DEF Wipe, Goto, Raise
  <2> QED BY <2>1, <2>2, <2>3
<1>7. CASE Fork
  <2>1. SingleInstance'
    <3>1. ASSUME NEW p \in Proc, Live(p)'
          PROVE  p = <<next, run, launch>> \/ Live(p)
      BY <1>7, <3>1 DEF Fork
    <3>2. ASSUME NEW p \in Proc, Live(p)
          PROVE  p[2] = run /\ p[3] = launch /\ p[1] < next
      BY <1>7, <3>2 DEF Fork
    <3>3. ASSUME NEW p \in Proc, NEW q \in Proc, Live(p)', Live(q)', p[1] = q[1]
          PROVE  p = q
      <4>1. CASE p = <<next, run, launch>>
        BY <3>1, <3>2, <3>3, <4>1
      <4>2. CASE q = <<next, run, launch>>
        BY <3>1, <3>2, <3>3, <4>2
      <4>3. CASE Live(p) /\ Live(q)
        BY <3>3, <4>3
      <4> QED BY <3>1, <3>3, <4>1, <4>2, <4>3
    <3> QED BY <3>3
  <2>2. FreshNames'
    BY <1>7 DEF Fork, Goto
  <2>3. OnlyLatestLaunch'
    BY <1>7 DEF Fork, Goto
  <2> QED BY <2>1, <2>2, <2>3
<1>8. CASE LaunchFails
  BY <1>8 DEF LaunchFails, Raise
<1>9. CASE Record
  <2>1. SingleInstance'
    BY <1>9 DEF Record, Goto
  <2>2. FreshNames'
    BY <1>9 DEF Record, Goto
  <2>3. OnlyLatestLaunch'
    BY <1>9 DEF Record, Goto
  <2> QED BY <2>1, <2>2, <2>3
<1>10. CASE GateScrape
  BY <1>10 DEF GateScrape, Goto, Answers
<1>11. CASE GateTimeout
  BY <1>11 DEF GateTimeout, Raise
<1>12. CASE GatePass
  BY <1>12 DEF GatePass, Goto
<1>13. CASE GateRetry
  BY <1>13 DEF GateRetry, Goto
<1>14. CASE Assign
  BY <1>14 DEF Assign, Goto, Raise
<1>15. CASE RestartKilled
  BY <1>15 DEF RestartKilled, Goto
<1>16. CASE RestartPkill
  BY <1>16, PkillEffect DEF RestartPkill, Goto, Raise
<1>17. CASE RestartWait
  <2>1. SingleInstance'
    BY <1>17 DEF RestartWait, Goto
  <2>2. FreshNames'
    BY <1>17 DEF RestartWait, Goto
  <2>3. OnlyLatestLaunch'
    BY <1>17 DEF RestartWait, Goto
  <2> QED BY <2>1, <2>2, <2>3
<1>18. CASE Measure
  BY <1>18 DEF Measure, Goto, Raise
<1>19. CASE ReportFailure
  BY <1>19 DEF ReportFailure, Goto
<1>20. CASE CleanupKilled
  BY <1>20 DEF CleanupKilled, Goto
<1>21. CASE HandlerPkill
  BY <1>21, PkillEffect DEF HandlerPkill, LeaveHandler, Goto, Exit
<1>22. CASE HandlerSlept
  BY <1>22 DEF HandlerSlept, LeaveHandler, Goto, Exit, Settled
<1>23. CASE FinallyPkill
  BY <1>23, PkillEffect DEF FinallyPkill, Goto, Exit
<1>24. CASE FinallySlept
  BY <1>24 DEF FinallySlept, Goto, Exit, Settled
<1>25. CASE WriteCsv
  BY <1>25 DEF WriteCsv, PublishStep, Goto, Exit
<1>26. CASE WriteDetail
  BY <1>26 DEF WriteDetail, PublishStep, Goto, Exit
<1>27. CASE WriteSummary
  BY <1>27 DEF WriteSummary, PublishStep, Goto, Exit
<1>28. CASE WipeRunDir
  BY <1>28 DEF WipeRunDir, Exit
<1>29. CASE Interrupt
  BY <1>29 DEF Interrupt, HandlerInstalled, Exit
<1>30. CASE Crash
  BY <1>30 DEF Crash, Exit
<1>31. CASE KillEffect
  BY <1>31 DEF KillEffect, ProcUnchanged
<1>32. CASE ExecEffect
  BY <1>32 DEF ExecEffect, ProcUnchanged
<1>33. CASE StoreEffect
  BY <1>33 DEF StoreEffect, ProcUnchanged
<1>34. CASE UNCHANGED vars
  BY <1>34 DEF vars
<1>35. CASE RefuseEffect
  BY <1>35 DEF RefuseEffect
<1> QED
  BY <1>1, <1>2, <1>3, <1>4, <1>5, <1>6, <1>7, <1>8, <1>9, <1>10, <1>11,
      <1>12, <1>13, <1>14, <1>15, <1>16, <1>17, <1>18, <1>19, <1>20, <1>21,
      <1>22, <1>23, <1>24, <1>25, <1>26, <1>27, <1>28, <1>29, <1>30, <1>31,
      <1>32, <1>33, <1>34, <1>35, ProcEffects
  DEF Next, HarnessStep, ProcStep

\* No step leaves an executing process out of the reach of the cleanup.
LEMMA CleanupStep == IInv /\ [Next]_vars => Cleanup'
<1> SUFFICES ASSUME IInv, [Next]_vars PROVE Cleanup'
  OBVIOUS
<1> USE ShardsAssumption, BoundsAssumption, ProcParts
    DEF IInv, Typed, TypeOK, LaunchCounts, Phase, TryPhase, SetupPhase,
        RunPhase, HandlerPhase, FinallyPhase, PublishPhase, harness, fleet,
        disk, env, Node, Run, Ownership, FreshNames, OnlyLatestLaunch,
        Cleanup, Tracked, CleanupReaches, NoOrphans, GroupsKilled, NoneMine,
        Mine, NoneLive, Executing, Live, LivePhase
<1>1. ASSUME NEW m \in Mode, StartRun(m) PROVE Cleanup'
  <2>1. \A p \in Proc : proc'[p] = proc[p] /\ (p[2] = run' => proc[p] = "none")
    BY <1>1 DEF StartRun
  <2>2. pc' = "preflight" /\ run' = run + 1 /\ recorded' = {} /\ refused' = refused
    BY <1>1 DEF StartRun
  <2> QED BY <2>1, <2>2
<1>2. CASE Preflight
  BY <1>2, NoneMineYet DEF Preflight, Goto, Exit
<1>3. CASE Setup
  BY <1>3, NoneMineYet DEF Setup, Goto, Exit
<1>4. CASE SetupFails
  BY <1>4, NoneMineYet DEF SetupFails, Raise, Exit
<1>5. CASE PreLaunchKill
  BY <1>5, NoneMineYet, PkillEffect DEF PreLaunchKill, Goto, Raise, Settled
<1>6. CASE Wipe
  BY <1>6 DEF Wipe, Goto, Raise
<1>7. CASE Fork
  BY <1>7 DEF Fork, Goto
<1>8. CASE LaunchFails
  BY <1>8 DEF LaunchFails, Raise
<1>9. CASE Record
  BY <1>9 DEF Record, Goto
<1>10. CASE GateScrape
  BY <1>10 DEF GateScrape, Goto, Answers
<1>11. CASE GateTimeout
  BY <1>11 DEF GateTimeout, Raise
<1>12. CASE GatePass
  BY <1>12 DEF GatePass, Goto
<1>13. CASE GateRetry
  BY <1>13 DEF GateRetry, Goto
<1>14. CASE Assign
  BY <1>14 DEF Assign, Goto, Raise
<1>15. CASE RestartKilled
  BY <1>15 DEF RestartKilled, Goto
<1>16. CASE RestartPkill
  BY <1>16, PkillEffect DEF RestartPkill, Goto, Raise
<1>17. CASE RestartWait
  BY <1>17 DEF RestartWait, Goto
<1>18. CASE Measure
  BY <1>18 DEF Measure, Goto, Raise
<1>19. CASE ReportFailure
  BY <1>19 DEF ReportFailure, Goto
<1>20. CASE CleanupKilled
  BY <1>20 DEF CleanupKilled, Goto
<1>21. CASE HandlerPkill
  BY <1>21, PkillEffect DEF HandlerPkill, LeaveHandler, Goto, Exit
<1>22. CASE HandlerSlept
  BY <1>22 DEF HandlerSlept, LeaveHandler, Goto, Exit, Settled
<1>23. CASE FinallyPkill
  BY <1>23, PkillEffect DEF FinallyPkill, Goto, Exit
<1>24. CASE FinallySlept
  BY <1>24 DEF FinallySlept, Goto, Exit, Settled
<1>25. CASE WriteCsv
  BY <1>25 DEF WriteCsv, PublishStep, Goto, Exit
<1>26. CASE WriteDetail
  BY <1>26 DEF WriteDetail, PublishStep, Goto, Exit
<1>27. CASE WriteSummary
  BY <1>27 DEF WriteSummary, PublishStep, Goto, Exit
<1>28. CASE WipeRunDir
  BY <1>28 DEF WipeRunDir, Exit
<1>29. CASE Interrupt
  <2>1. Tracked'
    BY <1>29, NoneMineYet DEF Interrupt, HandlerInstalled, Exit
  <2>2. CleanupReaches'
    BY <1>29, NoneMineYet DEF Interrupt, HandlerInstalled, Exit
  <2>3. NoOrphans'
    BY <1>29, NoneMineYet DEF Interrupt, HandlerInstalled, Exit
  <2> QED BY <2>1, <2>2, <2>3
<1>30. CASE Crash
  BY <1>30 DEF Crash, Exit
<1>31. CASE KillEffect
  <2>1. Tracked'
    BY <1>31 DEF KillEffect, ProcUnchanged
  <2>2. CleanupReaches'
    BY <1>31 DEF KillEffect, ProcUnchanged
  <2>3. NoOrphans'
    BY <1>31 DEF KillEffect, ProcUnchanged
  <2> QED BY <2>1, <2>2, <2>3
<1>32. CASE ExecEffect
  <2>1. Tracked'
    BY <1>32 DEF ExecEffect, ProcUnchanged
  <2>2. CleanupReaches'
    BY <1>32 DEF ExecEffect, ProcUnchanged
  <2>3. NoOrphans'
    BY <1>32 DEF ExecEffect, ProcUnchanged
  <2> QED BY <2>1, <2>2, <2>3
<1>33. CASE StoreEffect
  BY <1>33 DEF StoreEffect, ProcUnchanged
<1>34. CASE UNCHANGED vars
  BY <1>34 DEF vars
<1>35. CASE RefuseEffect
  BY <1>35 DEF RefuseEffect
<1> QED
  BY <1>1, <1>2, <1>3, <1>4, <1>5, <1>6, <1>7, <1>8, <1>9, <1>10, <1>11,
      <1>12, <1>13, <1>14, <1>15, <1>16, <1>17, <1>18, <1>19, <1>20, <1>21,
      <1>22, <1>23, <1>24, <1>25, <1>26, <1>27, <1>28, <1>29, <1>30, <1>31,
      <1>32, <1>33, <1>34, <1>35, ProcEffects
  DEF Next, HarnessStep, ProcStep

LEMMA LiveIsLatest ==
  ASSUME IInv, NEW p \in Proc, Executing(p), p \notin refused, pc \in LivePhase
  PROVE  p[2] = run /\ p[3] = launch /\ proc[p] # "none"
  BY DEF IInv, Ownership, OnlyLatestLaunch, Live, Executing

LEMMA BarredStays == ASSUME refused \subseteq refused', NEW n PROVE Barred(n) => Barred(n)'
  BY DEF Barred

\* No step lets evidence, configurations, wiped directories and artifacts drift
\* apart.
LEMMA BookkeepingStep == IInv /\ [Next]_vars => Bookkeeping'
<1> SUFFICES ASSUME IInv, [Next]_vars PROVE Bookkeeping'
  OBVIOUS
<1> USE ShardsAssumption, BoundsAssumption, ProcParts, BarredStays
    DEF IInv, Typed, TypeOK, LaunchCounts, Phase, TryPhase, SetupPhase,
        RunPhase, HandlerPhase, FinallyPhase, PublishPhase, harness, fleet,
        disk, env, Node, Run, Ownership, FreshNames, OnlyLatestLaunch,
        Bookkeeping, Evidence, Outdated, CleanStart, Written, Executing,
        Live, LivePhase
<1>1. ASSUME NEW m \in Mode, StartRun(m) PROVE Bookkeeping'
  BY <1>1 DEF StartRun
<1>2. CASE Preflight
  BY <1>2 DEF Preflight, Goto, Exit
<1>3. CASE Setup
  BY <1>3 DEF Setup, Goto, Exit
<1>4. CASE SetupFails
  BY <1>4 DEF SetupFails, Raise, Exit
<1>5. CASE PreLaunchKill
  BY <1>5, PkillEffect DEF PreLaunchKill, Goto, Raise, Settled
<1>6. CASE Wipe
  <2>1. Evidence'
    BY <1>6 DEF Wipe, Goto, Raise
  <2>2. Outdated'
    BY <1>6 DEF Wipe, Goto, Raise
  <2>3. CleanStart'
    BY <1>6 DEF Wipe, Goto, Raise
  <2>4. Written'
    BY <1>6 DEF Wipe, Goto, Raise
  <2> QED BY <2>1, <2>2, <2>3, <2>4
<1>7. CASE Fork
  <2>1. Evidence'
    BY <1>7 DEF Fork, Goto
  <2>2. Outdated'
    BY <1>7 DEF Fork, Goto
  <2>3. CleanStart'
    BY <1>7 DEF Fork, Goto
  <2>4. Written'
    BY <1>7 DEF Fork, Goto
  <2> QED BY <2>1, <2>2, <2>3, <2>4
<1>8. CASE LaunchFails
  BY <1>8 DEF LaunchFails, Raise
<1>9. CASE Record
  <2>1. Evidence'
    BY <1>9 DEF Record, Goto
  <2>2. Outdated'
    BY <1>9 DEF Record, Goto
  <2>3. CleanStart'
    BY <1>9 DEF Record, Goto
  <2>4. Written'
    BY <1>9 DEF Record, Goto
  <2> QED BY <2>1, <2>2, <2>3, <2>4
<1>10. CASE GateScrape
  <2>1. Evidence'
    <3>1. ASSUME NEW p \in answered', p \notin refused
          PROVE  p[2] = run /\ p[3] = launch
      <4>1. p \in Proc /\ proc[p] = "neard" /\ pc = "gate"
        BY <1>10, <3>1 DEF GateScrape
      <4> QED BY <3>1, <4>1, LiveIsLatest
    <3>2. pc' = "decide" /\ UNCHANGED <<run, launch, refused>>
      BY <1>10 DEF GateScrape, Goto
    <3> QED BY <3>1, <3>2
  <2>2. Outdated'
    BY <1>10 DEF GateScrape, Goto, Answers
  <2>3. CleanStart'
    BY <1>10 DEF GateScrape, Goto, Answers
  <2>4. Written'
    BY <1>10 DEF GateScrape, Goto, Answers
  <2> QED BY <2>1, <2>2, <2>3, <2>4
<1>11. CASE GateTimeout
  BY <1>11 DEF GateTimeout, Raise
<1>12. CASE GatePass
  BY <1>12 DEF GatePass, Goto
<1>13. CASE GateRetry
  BY <1>13 DEF GateRetry, Goto
<1>14. CASE Assign
  <2>1. Evidence'
    BY <1>14 DEF Assign, Goto, Raise
  <2>2. Outdated'
    <3>1. PICK changed \in SUBSET Node :
            /\ stale' = {p \in Proc : Executing(p) /\ p[1] \in changed}
            /\ pc' = "measure" => changed = {}
      BY <1>14 DEF Assign, Goto, Raise
    <3>2. ASSUME NEW p \in stale', p \notin refused PROVE p[3] = 1
      <4>1. p \in Proc /\ Executing(p) /\ pc = "assign" /\ launch = 1
        BY <1>14, <3>1, <3>2 DEF Assign
      <4> QED BY <3>2, <4>1, LiveIsLatest
    <3>3. pc' = "measure" => stale' = {}
      BY <3>1
    <3>4. pc' \in {"measure", "rkill", "report"} /\ UNCHANGED <<launch, refused>>
      BY <1>14 DEF Assign, Goto, Raise
    <3> QED BY <3>2, <3>3, <3>4
  <2>3. CleanStart'
    BY <1>14 DEF Assign, Goto, Raise
  <2>4. Written'
    BY <1>14 DEF Assign, Goto, Raise
  <2> QED BY <2>1, <2>2, <2>3, <2>4
<1>15. CASE RestartKilled
  BY <1>15 DEF RestartKilled, Goto
<1>16. CASE RestartPkill
  BY <1>16, PkillEffect DEF RestartPkill, Goto, Raise
<1>17. CASE RestartWait
  BY <1>17 DEF RestartWait, Goto
<1>18. CASE Measure
  BY <1>18 DEF Measure, Goto, Raise
<1>19. CASE ReportFailure
  BY <1>19 DEF ReportFailure, Goto
<1>20. CASE CleanupKilled
  BY <1>20 DEF CleanupKilled, Goto
<1>21. CASE HandlerPkill
  BY <1>21, PkillEffect DEF HandlerPkill, LeaveHandler, Goto, Exit
<1>22. CASE HandlerSlept
  BY <1>22 DEF HandlerSlept, LeaveHandler, Goto, Exit, Settled
<1>23. CASE FinallyPkill
  BY <1>23, PkillEffect DEF FinallyPkill, Goto, Exit
<1>24. CASE FinallySlept
  BY <1>24 DEF FinallySlept, Goto, Exit, Settled
<1>25. CASE WriteCsv
  BY <1>25 DEF WriteCsv, PublishStep, Goto, Exit
<1>26. CASE WriteDetail
  BY <1>26 DEF WriteDetail, PublishStep, Goto, Exit
<1>27. CASE WriteSummary
  <2>1. Evidence'
    BY <1>27 DEF WriteSummary, PublishStep, Goto, Exit
  <2>2. Outdated'
    BY <1>27 DEF WriteSummary, PublishStep, Goto, Exit
  <2>3. CleanStart'
    BY <1>27 DEF WriteSummary, PublishStep, Goto, Exit
  <2>4. Written'
    BY <1>27 DEF WriteSummary, PublishStep, Goto, Exit
  <2> QED BY <2>1, <2>2, <2>3, <2>4
<1>28. CASE WipeRunDir
  BY <1>28 DEF WipeRunDir, Exit
<1>29. CASE Interrupt
  BY <1>29 DEF Interrupt, HandlerInstalled, Exit
<1>30. CASE Crash
  BY <1>30 DEF Crash, Exit
<1>31. CASE KillEffect
  <2>1. Evidence'
    BY <1>31 DEF KillEffect, ProcUnchanged
  <2>2. Outdated'
    BY <1>31 DEF KillEffect, ProcUnchanged
  <2>3. CleanStart'
    BY <1>31 DEF KillEffect, ProcUnchanged
  <2>4. Written'
    BY <1>31 DEF KillEffect, ProcUnchanged
  <2> QED BY <2>1, <2>2, <2>3, <2>4
<1>32. CASE ExecEffect
  <2>1. Evidence'
    BY <1>32 DEF ExecEffect, ProcUnchanged
  <2>2. Outdated'
    BY <1>32 DEF ExecEffect, ProcUnchanged
  <2>3. CleanStart'
    BY <1>32 DEF ExecEffect, ProcUnchanged
  <2>4. Written'
    BY <1>32 DEF ExecEffect, ProcUnchanged
  <2> QED BY <2>1, <2>2, <2>3, <2>4
<1>33. CASE StoreEffect
  <2>1. Evidence'
    BY <1>33 DEF StoreEffect, ProcUnchanged
  <2>2. Outdated'
    BY <1>33 DEF StoreEffect, ProcUnchanged
  <2>3. CleanStart'
    <3>1. ASSUME NEW p \in Proc, Live(p), pc \in {"launch", "spawn"}
          PROVE  p[1] \in Node /\ ~ (p[1] > next) /\ (pc = "launch" => p[1] # next)
      <4>1. p[2] = run /\ p[3] = launch /\ proc[p] # "none"
        BY <3>1, LiveIsLatest
      <4>2. p[1] \in Node /\ (pc = "launch" => p[1] < next) /\ (pc = "spawn" => p[1] <= next)
        BY <4>1
      <4> QED BY <3>1, <4>2
    <3>2. UNCHANGED <<pc, launch, next, refused>>
      BY <1>33 DEF StoreEffect, ProcUnchanged
    <3>3. ASSUME NEW n \in Node, pc \in {"launch", "spawn"}, launch = 1,
                 n > next \/ (n = next /\ pc = "launch")
          PROVE  data'[n] = "clean" \/ Barred(n)
      <4>1. data[n] = "clean" \/ Barred(n)
        BY <3>3
      <4>2. data'[n] = data[n] \/ Barred(n) \/ \E p \in Proc : Live(p) /\ p[1] = n
        BY <1>33 DEF StoreEffect
      <4> QED BY <3>1, <3>3, <4>1, <4>2
    <3> QED BY <3>2, <3>3
  <2>4. Written'
    BY <1>33 DEF StoreEffect, ProcUnchanged
  <2> QED BY <2>1, <2>2, <2>3, <2>4
<1>34. CASE UNCHANGED vars
  BY <1>34 DEF vars
<1>35. CASE RefuseEffect
  <2>1. Evidence'
    BY <1>35 DEF RefuseEffect
  <2>2. Outdated'
    BY <1>35 DEF RefuseEffect
  <2>3. CleanStart'
    BY <1>35 DEF RefuseEffect
  <2>4. Written'
    BY <1>35 DEF RefuseEffect
  <2> QED BY <2>1, <2>2, <2>3, <2>4
<1> QED
  BY <1>1, <1>2, <1>3, <1>4, <1>5, <1>6, <1>7, <1>8, <1>9, <1>10, <1>11,
      <1>12, <1>13, <1>14, <1>15, <1>16, <1>17, <1>18, <1>19, <1>20, <1>21,
      <1>22, <1>23, <1>24, <1>25, <1>26, <1>27, <1>28, <1>29, <1>30, <1>31,
      <1>32, <1>33, <1>34, <1>35, ProcEffects
  DEF Next, HarnessStep, ProcStep

\* The heart of the safety argument: no step of the harness, of a signal or of
\* a process leaves the inductive invariant.
LEMMA InvStep == IInv /\ [Next]_vars => IInv'
  BY TypedStep, OwnershipStep, CleanupStep, BookkeepingStep DEF IInv

LEMMA Invariance == Spec => []IInv
  BY InvInit, InvStep, PTL DEF Spec

(***************************************************************************)
(* What the inductive invariant yields.                                    *)
(***************************************************************************)

\* Two processes never run on one node home, however many invocations crash,
\* restart their nodes or are interrupted.
THEOREM OneProcessPerHome == Spec => []SingleInstance
<1>1. IInv => SingleInstance
  BY DEF IInv, Ownership
<1> QED
  BY <1>1, Invariance, PTL

\* An invocation that is not killed leaves no process behind unless its pkill
\* fails, although a Popen interrupted by SIGINT is never recorded.
THEOREM CleanupGuaranteed == Spec => []NoOrphans
<1>1. IInv => NoOrphans
  BY DEF IInv, Cleanup
<1> QED
  BY <1>1, Invariance, PTL

\* However an invocation ends that is not killed, and whatever pkill does, every
\* process it forked is dead but those it may not signal and the child that was
\* still in Popen: a refused kill stops neither the loop over neard_processes
\* nor what comes after it.
THEOREM RecordedReached == Spec => RecordedAreKilled
<1> DEFINE Ending == pc # "idle" /\ pc' = "idle" /\ outcome' # "crashed"
           Reached == \A p \in Proc : Mine(p) /\ Live(p) =>
                        p \notin recorded /\ p = <<next, run, launch>>
<1>1. ASSUME IInv, [Next]_vars, Ending PROVE GroupsKilled \/ NoneMine
  <2>1. CASE Preflight \/ Setup \/ SetupFails \/ Interrupt
    <3>1. pc \in {"preflight", "setup"}
      BY <1>1, <2>1 DEF Preflight, Setup, SetupFails, Interrupt, HandlerInstalled,
         IInv, Cleanup, CleanupReaches
    <3> QED BY <1>1, <3>1, NoneMineYet DEF IInv, Typed, LaunchCounts
  <2>2. CASE pc \in {"hpkill", "hsleep", "fpkill", "fsleep"} \union PublishPhase
    BY <1>1, <2>2 DEF IInv, Cleanup, CleanupReaches
  <2>3. CASE HarnessStep
    BY <1>1, <2>1, <2>2, <2>3
    DEF HarnessStep, PreLaunchKill, Wipe, Fork, LaunchFails, Record,
        GateScrape, GateTimeout, GatePass, GateRetry, Assign, KillGroup, KillRefused,
        RestartKilled, RestartPkill, RestartWait, Measure, ReportFailure,
        CleanupKilled, HandlerPkill, HandlerSlept, FinallyPkill, FinallySlept,
        WriteCsv, WriteDetail, WriteSummary, WipeRunDir, PublishStep, PublishPhase,
        Goto, Raise
  <2>4. CASE ProcStep \/ Crash \/ UNCHANGED vars \/ \E m \in Mode : StartRun(m)
    BY <1>1, <2>4 DEF ProcStep, Exec, Store, Die, ProcUnchanged, Crash, Exit, StartRun, vars
  <2> QED BY <1>1, <2>1, <2>3, <2>4 DEF Next
<1>2. IInv /\ Ending /\ (GroupsKilled \/ NoneMine) => Reached
  BY DEF IInv, Cleanup, Tracked, GroupsKilled, NoneMine
<1>3. IInv /\ [Next]_vars => [Ending => Reached]_vars
  BY <1>1, <1>2
<1> QED
  BY <1>3, Invariance, PTL DEF Spec, RecordedAreKilled

\* The first launch of an invocation always starts from wiped data directories.
THEOREM WipedBeforeLaunch == Spec => []CleanStart
<1>1. IInv => CleanStart
  BY DEF IInv, Bookkeeping
<1> QED
  BY <1>1, Invariance, PTL

\* What opened the readiness gate is the very set of processes measured.
THEOREM GateSound == Spec => []GateAnsweredByOwn
<1>1. IInv => GateAnsweredByOwn
  <2> SUFFICES ASSUME IInv, pc = "measure", NEW n \in Node
               PROVE  <<n, run, launch>> \in answered \/ Barred(n)
    BY DEF GateAnsweredByOwn
  <2>1. PICK p \in answered : p[1] = n
    BY DEF IInv, Bookkeeping, Evidence
  <2>2. p \in Proc /\ (p \notin refused => p[2] = run /\ p[3] = launch)
    BY DEF IInv, Bookkeeping, Evidence, Typed, TypeOK
  <2>3. p \notin refused => p = <<n, run, launch>>
    BY <2>1, <2>2, ProcParts
  <2> QED
    BY <2>1, <2>3 DEF Barred
<1> QED
  BY <1>1, Invariance, PTL

\* No measured process still uses a configuration rewritten under it.
THEOREM ConfigFresh == Spec => []MeasuresFreshConfig
<1>1. IInv => MeasuresFreshConfig
  BY DEF IInv, Ownership, OnlyLatestLaunch, LivePhase, Bookkeeping, Outdated,
         MeasuresFreshConfig, Typed, TypeOK, LaunchCounts, Live
<1> QED
  BY <1>1, Invariance, PTL

\* A failure record and results exclude each other, "done" means all results
\* are written, and nothing is published while a forked process runs.
THEOREM ArtifactsConsistent == Spec => []ArtifactsAgree
<1>1. IInv => ArtifactsAgree
  BY DEF IInv, Cleanup, CleanupReaches, NoneMine, Bookkeeping, Written,
         ArtifactsAgree
<1> QED
  BY <1>1, Invariance, PTL

\* The run directory goes only after CSV row, detail record and summary are
\* written by the same invocation, and only for a positive rate.
THEOREM RemovalAfterPublication == Spec => RemovedOnlyWhenPublished
<1> DEFINE Published == {"csv", "detail", "summary"} \subseteq art /\ tps = "positive"
<1>1. ASSUME IInv, [Next]_vars, dir' = "absent", dir # "absent"
      PROVE  Published
  <2>1. CASE WipeRunDir
    BY <1>1, <2>1 DEF WipeRunDir, IInv, Bookkeeping, Written
  <2>2. CASE Setup \/ SetupFails
    BY <1>1, <2>2 DEF Setup, SetupFails
  <2>3. CASE dir' = dir
    BY <1>1, <2>3
  <2>4. CASE vars' = vars
    BY <1>1, <2>4 DEF vars, disk
  <2>5. CASE HarnessStep
    BY <2>1, <2>2, <2>3, <2>5
    DEF HarnessStep, Preflight, PreLaunchKill, Wipe, Fork, LaunchFails, Record,
        GateScrape, GateTimeout, GatePass, GateRetry, Assign, KillGroup, KillRefused,
        RestartKilled, RestartPkill, RestartWait, Measure, ReportFailure,
        CleanupKilled, HandlerPkill, HandlerSlept, FinallyPkill, FinallySlept,
        WriteCsv, WriteDetail, WriteSummary, PublishStep, disk
  <2>6. CASE ProcStep \/ Interrupt \/ Crash \/ \E m \in Mode : StartRun(m)
    BY <2>3, <2>6
    DEF ProcStep, Exec, Store, Die, ProcUnchanged, Interrupt, Crash, StartRun, disk
  <2> QED
    BY <1>1, <2>4, <2>5, <2>6 DEF Next
<1>2. IInv /\ [Next]_vars
        => [dir' = "absent" /\ dir # "absent" => Published]_vars
  BY <1>1
<1> QED
  BY <1>2, Invariance, PTL DEF Spec, RemovedOnlyWhenPublished

(***************************************************************************)
(* The refinement: BenchmarkRun implements BenchmarkContract, for every    *)
(* number of nodes, invocations, polls and interrupts, if pkill never      *)
(* fails and no kill is refused.                                           *)
(*                                                                         *)
(* Most steps do nothing that the contract sees or only stop processes     *)
(* (Quiet), make the invocation fail (Fails) or end it (Ends).  The start  *)
(* of an invocation, a fork, the publication and a crash are mapped to     *)
(* Begin, Occupy, Publish and HarnessDies on their own.                    *)
(***************************************************************************)


Results == {"csv", "detail", "summary"} \subseteq art

\* How far an invocation can be with which outcome, and with which results.
Verdicts ==
  /\ pkillFailed = FALSE /\ refused = {}
  /\ pc \in {"preflight"} \union TryPhase => outcome = "running"
  /\ pc # "idle" => outcome \in {"running", "failed", "interrupted"}
  /\ outcome = "running" => pc # "idle"
  /\ outcome = "running" /\ pc \notin PublishPhase => "csv" \notin art

RInv == IInv /\ Verdicts

-----------------------------------------------------------------------------
(* The steps, as the contract sees them.                                   *)

ContractStep == [Contract!Next]_(Contract!cvars)

\* No processes are started, and nothing else changes but the phase.
Quiet ==
  /\ pc # "idle" <=> pc' # "idle"
  /\ run' = run /\ outcome' = outcome /\ Results' = Results
  /\ \A p \in Proc : Executing(p)' => Executing(p)

Fails ==
  /\ pc # "idle" /\ pc' # "idle" /\ outcome' \in {"failed", "interrupted"}
  /\ run' = run /\ Results' = Results /\ proc' = proc

Ends ==
  /\ pc # "idle" /\ pc' = "idle"
  /\ \/ outcome' \in {"failed", "interrupted"}
     \/ outcome' = "skipped" /\ outcome = "running" /\ ~ Results
     \/ outcome' = "done" /\ outcome = "running" /\ Results
  /\ run' = run /\ Results' = Results /\ proc' = proc /\ NoneMine /\ refused = {}

\* The owners are those of the processes that execute.
LEMMA OwnersKept == proc' = proc => Owners' = Owners
  BY DEF Owners, Executing

LEMMA OwnersFewer ==
  (\A p \in Proc : Executing(p)' => Executing(p)) => Owners' \subseteq Owners
  BY DEF Owners

LEMMA NotAnOwner == NoneMine /\ refused = {} => run \notin Owners
  BY DEF NoneMine, Owners, Mine, Live

LEMMA QuietMaps == Quiet => ContractStep
<1> SUFFICES ASSUME Quiet PROVE ContractStep
  OBVIOUS
<1>1. Owners' \subseteq Owners
  BY OwnersFewer DEF Quiet
<1>2. CASE Owners' = Owners
  BY <1>2 DEF Quiet, ContractStep, Contract!cvars, Results
<1>3. CASE Owners' # Owners
  BY <1>1, <1>3 DEF Quiet, ContractStep, Contract!Next, Contract!Vacate, Results
<1> QED
  BY <1>2, <1>3

LEMMA FailsMaps == Fails => ContractStep
<1> SUFFICES ASSUME Fails PROVE ContractStep
  OBVIOUS
<1>1. Owners' = Owners
  BY OwnersKept DEF Fails
<1> QED
  BY <1>1 DEF Fails, ContractStep, Contract!Next, Contract!GiveUp, Results

LEMMA EndsMaps == Ends => ContractStep
<1> SUFFICES ASSUME Ends PROVE ContractStep
  OBVIOUS
<1>1. Owners' = Owners /\ run \notin Owners
  BY OwnersKept, NotAnOwner DEF Ends
<1> QED
  BY <1>1 DEF Ends, ContractStep, Contract!Next, Contract!End, Results

-----------------------------------------------------------------------------
(* Verdicts is kept.                                                       *)

LEMMA VerdictsInit == Init => Verdicts
  BY DEF Init, Verdicts, TryPhase, SetupPhase, RunPhase

LEMMA NoneRefused ==
  ASSUME MaxRefusals = 0, Verdicts, NEW p \in Proc
  PROVE  ~ KillRefused(p)
  BY FS_EmptySet DEF Verdicts, KillRefused

LEMMA VerdictsStep ==
  ASSUME PkillMayFail = FALSE, MaxRefusals = 0, RInv, [Next]_vars
  PROVE  Verdicts'
<1> USE DEF RInv, Verdicts, TryPhase, SetupPhase, RunPhase, HandlerPhase, FinallyPhase,
            PublishPhase, harness, fleet, disk, env
<1>0. ~ PkillFails /\ (PkillHits => pkillFailed' = pkillFailed)
  BY DEF PkillFails, PkillHits
<1>i. /\ pc \in {"preflight", "report"} \union TryPhase => art = {}
      /\ pc \in PublishPhase => outcome = "running"
      /\ pc = "report" => outcome = "failed"
  BY DEF IInv, Bookkeeping, Written
<1>1. ASSUME NEW m \in Mode, StartRun(m) PROVE Verdicts'
  BY <1>1 DEF StartRun
<1>2. CASE Preflight
  BY <1>2, <1>i DEF Preflight, Goto, Exit
<1>3. CASE Setup \/ SetupFails
  BY <1>3, <1>i DEF Setup, SetupFails, Goto, Exit, Raise
<1>4. CASE PreLaunchKill \/ RestartPkill
  BY <1>4, <1>0, <1>i DEF PreLaunchKill, RestartPkill, Goto, Raise
<1>5. CASE Wipe \/ Fork \/ LaunchFails \/ Record
  BY <1>5, <1>i DEF Wipe, Fork, LaunchFails, Record, Goto, Raise
<1>6. CASE GateScrape \/ GateTimeout \/ GatePass \/ GateRetry
  BY <1>6, <1>i DEF GateScrape, GateTimeout, GatePass, GateRetry, Goto, Raise
<1>7. CASE Assign \/ RestartKilled \/ RestartWait \/ Measure
  BY <1>7, <1>i DEF Assign, RestartKilled, RestartWait, Measure, Goto, Raise
<1>8. CASE ReportFailure \/ CleanupKilled
  BY <1>8, <1>i DEF ReportFailure, CleanupKilled, Goto
<1>9. CASE HandlerPkill \/ HandlerSlept
  BY <1>9, <1>0, <1>i DEF HandlerPkill, HandlerSlept, LeaveHandler, Goto, Exit
<1>10. CASE FinallyPkill \/ FinallySlept
  BY <1>10, <1>0, <1>i DEF FinallyPkill, FinallySlept, Goto, Exit
<1>11. CASE WriteCsv \/ WriteDetail \/ WriteSummary \/ WipeRunDir
  BY <1>11, <1>i DEF WriteCsv, WriteDetail, WriteSummary, PublishStep, WipeRunDir, Goto, Exit
<1>12. CASE Interrupt \/ Crash
  BY <1>12, <1>i DEF Interrupt, Crash, Exit
<1>13. CASE ProcStep \/ (\E p \in Proc : KillGroup(p) \/ KillRefused(p)) \/ UNCHANGED vars
  BY <1>13, NoneRefused DEF ProcStep, Exec, Store, Die, ProcUnchanged, KillGroup, vars
<1> QED
  BY <1>1, <1>2, <1>3, <1>4, <1>5, <1>6, <1>7, <1>8, <1>9, <1>10, <1>11, <1>12, <1>13
  DEF Next, HarnessStep

LEMMA RInvariance == ASSUME PkillMayFail = FALSE, MaxRefusals = 0 PROVE Spec => []RInv
<1>1. Init => RInv
  BY InvInit, VerdictsInit DEF RInv
<1>2. RInv /\ [Next]_vars => RInv'
  BY InvStep, VerdictsStep DEF RInv
<1> QED
  BY <1>1, <1>2, PTL DEF Spec

-----------------------------------------------------------------------------
(* Every step is one of the contract.                                      *)

\* The invocation has no process any more when it publishes or ends.
LEMMA QuietMachine ==
  ASSUME RInv,
         pc \in {"preflight", "setup", "fsleep"} \union PublishPhase
           \/ (pc = "hsleep" /\ cont = "exit")
  PROVE  NoneMine /\ refused = {}
<1>1. CASE pc \in {"preflight", "setup"}
  BY <1>1, NoneMineYet DEF RInv, Verdicts, IInv, Typed, LaunchCounts
<1>2. CASE pc \notin {"preflight", "setup"}
  BY <1>2 DEF RInv, Verdicts, IInv, Cleanup, CleanupReaches
<1> QED
  BY <1>1, <1>2

LEMMA StartMaps ==
  ASSUME RInv, NEW m \in Mode, StartRun(m)
  PROVE  ContractStep
<1>1. Owners' = Owners
  BY OwnersKept DEF StartRun
<1>2. run + 1 \in Run
  BY BoundsAssumption DEF StartRun, RInv, IInv, Typed, TypeOK, Run
<1>3. Contract!Begin
  BY <1>1, <1>2 DEF StartRun, Contract!Begin
<1> QED
  BY <1>3 DEF ContractStep, Contract!Next

LEMMA ForkMaps == ASSUME RInv, Fork PROVE ContractStep
<1>1. /\ run \in Run /\ <<next, run, launch>> \in Proc
      /\ proc' = [proc EXCEPT ![<<next, run, launch>>] = "numactl"]
  BY DEF Fork, RInv, IInv, Typed, TypeOK, LaunchCounts, Proc, Run, Launch, Node
<1>2. \A p \in Proc : Executing(p) => p[2] = run
  BY DEF Fork, RInv, Verdicts, IInv, Ownership, OnlyLatestLaunch, LivePhase, Live
<1>3. Owners \subseteq {run}
  BY <1>2 DEF Owners
<1>4. Owners' = {run}
  <2>1. PICK c \in Proc : c = <<next, run, launch>> /\ c[2] = run
    BY <1>1
  <2>2. proc' = [proc EXCEPT ![c] = "numactl"] /\ proc \in [Proc -> ProcState]
    BY <1>1, <2>1 DEF RInv, IInv, Typed, TypeOK
  <2>3. \A p \in Proc : Executing(p)' <=> (p = c \/ Executing(p))
    BY <2>2 DEF Executing
  <2>4. \A p \in Proc : Executing(p)' => p[2] = run
    BY <1>2, <2>1, <2>3
  <2>5. Executing(c)'
    BY <2>3
  <2> QED
    BY <1>1, <2>1, <2>4, <2>5 DEF Owners
<1>5. outcome = "running"
  BY DEF Fork, RInv, Verdicts, TryPhase, SetupPhase
<1>6. Contract!Occupy
  BY <1>3, <1>4, <1>5 DEF Fork, Goto, harness, disk, Contract!Occupy
<1> QED
  BY <1>6 DEF ContractStep, Contract!Next

\* Results appear when the last of the three artifacts is written.
LEMMA PublishMaps ==
  ASSUME RInv, WriteCsv \/ WriteDetail \/ WriteSummary
  PROVE  ContractStep
<1>1. pc \in PublishPhase /\ NoneMine /\ refused = {} /\ outcome = "running"
  BY QuietMachine DEF WriteCsv, WriteDetail, WriteSummary, PublishStep, PublishPhase,
     RInv, IInv, Bookkeeping, Written
<1>2. run' = run /\ proc' = proc
  BY DEF WriteCsv, WriteDetail, WriteSummary, PublishStep, harness
<1>3. CASE pc' = "idle"
  <2>1. Ends
    BY <1>1, <1>2, <1>3
    DEF WriteCsv, WriteDetail, WriteSummary, PublishStep, Goto, Exit, Results, Ends, PublishPhase
  <2> QED
    BY <2>1, EndsMaps
<1>4. CASE pc' # "idle"
  <2>1. outcome' = outcome /\ (Results => Results')
    BY <1>4 DEF WriteCsv, WriteDetail, WriteSummary, PublishStep, Goto, Exit, Results
  <2>2. Owners' = Owners /\ run \notin Owners
    BY <1>1, <1>2, OwnersKept, NotAnOwner
  <2>3. CASE Results' = Results
    BY <1>1, <1>2, <1>4, <2>1, <2>3, QuietMaps DEF Quiet, Executing, PublishPhase
  <2>4. CASE Results' /\ ~ Results
    <3>1. Contract!Publish
      BY <1>1, <1>2, <1>4, <2>1, <2>2, <2>4 DEF Contract!Publish, Results, PublishPhase
    <3> QED
      BY <3>1 DEF ContractStep, Contract!Next
  <2>5. Results' \in BOOLEAN /\ Results \in BOOLEAN
    BY DEF Results
  <2> QED
    BY <2>1, <2>3, <2>4, <2>5
<1> QED
  BY <1>3, <1>4

LEMMA CrashMaps == ASSUME Crash PROVE ContractStep
<1>1. Owners' = Owners
  BY OwnersKept DEF Crash
<1>2. Contract!HarnessDies
  BY <1>1 DEF Crash, Exit, harness, disk, Contract!HarnessDies
<1> QED
  BY <1>2 DEF ContractStep, Contract!Next

LEMMA StepsMap ==
  ASSUME PkillMayFail = FALSE, MaxRefusals = 0, RInv, [Next]_vars
  PROVE  ContractStep
<1> USE DEF Results, harness, fleet, disk, env
<1>0. ~ PkillFails /\ (PkillHits => \A p \in Proc : Executing(p)' => Executing(p))
  BY DEF PkillFails, PkillHits, RInv, IInv, Typed, TypeOK, Executing
<1>i. /\ pc \in {"preflight", "setup"} => art = {} /\ outcome = "running"
      /\ pc = "wiperun" => Results /\ outcome = "running"
      /\ outcome = "running" /\ pc \in {"fkill", "fpkill", "fsleep"} => ~ Results
      /\ pc # "idle" => outcome \in {"running", "failed", "interrupted"}
  BY DEF RInv, Verdicts, TryPhase, SetupPhase, PublishPhase, IInv, Bookkeeping, Written
<1>1. ASSUME NEW m \in Mode, StartRun(m) PROVE ContractStep
  BY <1>1, StartMaps
<1>2. CASE Preflight \/ Setup \/ SetupFails
  <2>1. NoneMine /\ refused = {}
    BY <1>2, QuietMachine DEF Preflight, Setup, SetupFails
  <2>2. Quiet \/ Fails \/ Ends
    BY <1>2, <1>i, <2>1 DEF Preflight, Setup, SetupFails, Goto, Exit, Raise,
       Quiet, Fails, Ends, Executing
  <2> QED
    BY <2>2, QuietMaps, FailsMaps, EndsMaps
<1>3. CASE PreLaunchKill \/ RestartPkill
  <2>1. Quiet
    BY <1>3, <1>0 DEF PreLaunchKill, RestartPkill, Goto, Quiet
  <2> QED
    BY <2>1, QuietMaps
<1>4. CASE Fork
  BY <1>4, ForkMaps
<1>5. CASE Wipe \/ LaunchFails \/ Record \/ GateScrape \/ GateTimeout \/ GatePass \/ GateRetry
  <2>1. Quiet \/ Fails
    BY <1>5 DEF Wipe, LaunchFails, Record, GateScrape, GateTimeout, GatePass, GateRetry,
       Goto, Raise, Quiet, Fails, Executing
  <2> QED
    BY <2>1, QuietMaps, FailsMaps
<1>6. CASE Assign \/ RestartKilled \/ RestartWait \/ Measure
  <2>1. Quiet \/ Fails
    BY <1>6 DEF Assign, RestartKilled, RestartWait, Measure, Goto, Raise,
       Quiet, Fails, Executing
  <2> QED
    BY <2>1, QuietMaps, FailsMaps
<1>7. CASE ReportFailure \/ CleanupKilled
  <2>1. Quiet
    BY <1>7 DEF ReportFailure, CleanupKilled, Goto, Quiet, Executing
  <2> QED
    BY <2>1, QuietMaps
<1>8. CASE HandlerPkill
  <2>1. Quiet
    BY <1>8, <1>0 DEF HandlerPkill, Goto, Quiet
  <2> QED
    BY <2>1, QuietMaps
<1>9. CASE HandlerSlept
  <2>1. cont = "exit" => NoneMine /\ refused = {}
    BY <1>9, QuietMachine DEF HandlerSlept
  <2>2. Quiet \/ Ends
    BY <1>9, <2>1 DEF HandlerSlept, LeaveHandler, Goto, Exit, Quiet, Ends, Executing
  <2> QED
    BY <2>2, QuietMaps, EndsMaps
<1>10. CASE FinallyPkill
  <2>1. Quiet
    BY <1>10, <1>0 DEF FinallyPkill, Goto, Quiet
  <2> QED
    BY <2>1, QuietMaps
<1>11. CASE FinallySlept
  <2>1. NoneMine /\ refused = {}
    BY <1>11, QuietMachine DEF FinallySlept
  <2>2. Quiet \/ Ends
    BY <1>11, <1>i, <2>1 DEF FinallySlept, Goto, Exit, Quiet, Ends, Executing
  <2> QED
    BY <2>2, QuietMaps, EndsMaps
<1>12. CASE WriteCsv \/ WriteDetail \/ WriteSummary
  BY <1>12, PublishMaps
<1>13. CASE WipeRunDir
  <2>1. NoneMine /\ refused = {}
    BY <1>13, QuietMachine DEF WipeRunDir, PublishPhase
  <2>2. Ends
    BY <1>13, <1>i, <2>1 DEF WipeRunDir, Exit, Ends
  <2> QED
    BY <2>2, EndsMaps
<1>14. CASE Interrupt
  <2>1. CASE pc' = "idle"
    <3>1. pc = "preflight" \/ mode = "dry_run"
      BY <1>14, <2>1 DEF Interrupt, HandlerInstalled
    <3>2. pc \in {"preflight", "setup"}
      BY <1>14, <3>1 DEF Interrupt, RInv, IInv, Cleanup, CleanupReaches
    <3>3. NoneMine /\ refused = {}
      BY <3>2, QuietMachine
    <3>4. Ends
      BY <1>14, <2>1, <3>3 DEF Interrupt, Exit, Ends
    <3> QED
      BY <3>4, EndsMaps
  <2>2. CASE pc' # "idle"
    <3>1. Fails
      BY <1>14, <2>2 DEF Interrupt, Exit, Fails
    <3> QED
      BY <3>1, FailsMaps
  <2> QED
    BY <2>1, <2>2
<1>15. CASE Crash
  BY <1>15, CrashMaps
<1>16. CASE ProcStep \/ \E p \in Proc : KillGroup(p) \/ KillRefused(p)
  <2>1. PICK c \in Proc : Exec(c) \/ Store(c) \/ Die(c) \/ KillGroup(c)
    BY <1>16, NoneRefused DEF ProcStep, RInv
  <2>2. ExecEffect \/ StoreEffect \/ KillEffect
    BY <2>1, ProcEffects DEF RInv, IInv, Typed
  <2>3. Quiet
    BY <2>2 DEF ExecEffect, StoreEffect, KillEffect, ProcUnchanged, Quiet, Executing,
       Live, RInv, Verdicts
  <2> QED
    BY <2>3, QuietMaps
<1>17. CASE UNCHANGED vars
  <2>1. Quiet
    BY <1>17 DEF vars, Quiet, Executing
  <2> QED
    BY <2>1, QuietMaps
<1> QED
  BY <1>1, <1>2, <1>3, <1>4, <1>5, <1>6, <1>7, <1>8, <1>9, <1>10, <1>11, <1>12,
     <1>13, <1>14, <1>15, <1>16, <1>17
  DEF Next, HarnessStep

\* run_experiment keeps the contract of the benchmark however many nodes it
\* has and however often it is interrupted or killed, if pkill does its work:
\* foreign nodes are gone before its own come up, results are complete when it
\* says so, and nothing is left running except by a crash.
THEOREM ContractKept == ASSUME PkillMayFail = FALSE, MaxRefusals = 0 PROVE Spec => KeepsContract
<1>1. Init => Contract!Init
  <2>1. Init => Owners = {}
    BY DEF Init, Owners, Executing
  <2> QED
    BY <2>1 DEF Init, Contract!Init
<1>2. RInv /\ [Next]_vars => ContractStep
  BY StepsMap
<1> QED
  BY <1>1, <1>2, RInvariance, PTL DEF Spec, KeepsContract, Contract!Spec, ContractStep

=============================================================================
