---------------------------- MODULE BenchmarkRun ----------------------------
(***************************************************************************)
(* The lifecycle of scripts/run_benchmark.py: successive invocations of    *)
(* run_experiment on one machine, the neard processes they launch and the  *)
(* artifacts they leave.  The harness is one Python process; its SIGINT    *)
(* handler runs between any two of its steps, it may be killed outright,   *)
(* and every neard instance starts, dies and is torn down on its own.      *)
(*                                                                         *)
(* A process is named by the node home it runs on, the invocation that     *)
(* forked it and which launch of that invocation (1 first, 2 after the     *)
(* restart that reloads the configs) it belongs to.                        *)
(*                                                                         *)
(* Timing assumption: numactl has replaced itself by neard, or has exited, *)
(* by the time a sleep of the harness or the setup phase is over           *)
(* (guards "Settled").  Nothing else about relative speeds is assumed.     *)
(* A SIGKILL ends its process in the same step: how long the locks of a    *)
(* killed neard outlive it is the subject of LockHandover.                 *)
(***************************************************************************)
EXTENDS Naturals, FiniteSets

CONSTANTS N,              \* --shards
          MaxRuns,        \* bound: invocations of the script
          MaxPolls,       \* polls of the readiness gate before it times out
          MaxInterrupts,  \* bound: SIGINTs delivered over all runs
          MaxRefusals,    \* bound: processes the harness may not signal
          PkillMayFail    \* whether pkill may exit with a code above 1

ASSUME ShardsAssumption == N \in Nat \ {0}
ASSUME BoundsAssumption == /\ MaxRuns \in Nat
                           /\ MaxPolls \in Nat \ {0}
                           /\ MaxInterrupts \in Nat
                           /\ MaxRefusals \in Nat
ASSUME PkillAssumption == PkillMayFail \in BOOLEAN

Node == 0 .. (N - 1)
Run == 1 .. MaxRuns
Launch == 1 .. 2
Proc == Node \X Run \X Launch

Mode == {"full", "setup_only", "dry_run"}
SetupPhase == {"setup", "prekill", "wipe", "launch", "spawn"}
RunPhase == {"gate", "decide", "assign", "rkill", "rpkill", "rwait", "measure"}
TryPhase == SetupPhase \union RunPhase
HandlerPhase == {"hkill", "hpkill", "hsleep"}
FinallyPhase == {"fkill", "fpkill", "fsleep"}
PublishPhase == {"csv", "detail", "summary", "wiperun"}
Phase == {"idle", "preflight", "report"} \union TryPhase
            \union HandlerPhase \union FinallyPhase \union PublishPhase

Outcome == {"running", "done", "skipped", "failed", "interrupted", "crashed"}
ProcState == {"none", "numactl", "neard"}
Artifact == {"csv", "detail", "summary", "failure"}

VARIABLES
  pc,          \* what the harness is about to do
  mode,        \* --setup-only, --dry-run or neither
  run,         \* number of the current (or last) invocation
  launch,      \* launches begun by this invocation
  next,        \* loop index of launch_neard_processes
  polls,       \* polls made by the current readiness gate
  cont,        \* where the SIGINT handler's SystemExit goes: finally or exit
  outcome,     \* how the invocation is ending, or ended
  tps,         \* aggregate_tps of the measurement: none, zero or positive
  proc,        \* state of every process
  recorded,    \* ProcessState.neard_processes
  answered,    \* processes whose /status the last poll of the gate used
  stale,       \* processes that read a config.json rewritten since
  data,        \* RocksDB directory of each node home
  dir,         \* run_base: absent, partial or ready
  art,         \* artifacts written by this invocation
  pkillFailed, \* a pkill of this invocation has failed
  interrupts,  \* SIGINTs delivered so far
  refused      \* processes whose SIGKILL was refused (PermissionError)

harness == <<mode, run, launch, next, polls>>
fleet == <<proc, recorded, answered, stale>>
disk == <<data, dir, art>>
env == <<pkillFailed, interrupts, refused>>
vars == <<pc, cont, outcome, tps, harness, fleet, disk, env>>

Executing(p) == proc[p] \in {"numactl", "neard"}
Settled == \A p \in Proc : proc[p] # "numactl"
Mine(p) == p[2] = run
Live(p) == Executing(p) /\ p \notin refused
Barred(n) == \E p \in refused : p[1] = n

Init ==
  /\ pc = "idle" /\ mode = "full" /\ run = 0 /\ launch = 0 /\ next = 0
  /\ polls = 0 /\ cont = "exit" /\ outcome = "skipped" /\ tps = "none"
  /\ proc = [p \in Proc |-> "none"]
  /\ recorded = {} /\ answered = {} /\ stale = {}
  /\ data = [n \in Node |-> "absent"] /\ dir = "absent" /\ art = {}
  /\ pkillFailed = FALSE /\ interrupts = 0 /\ refused = {}

-----------------------------------------------------------------------------
(* Control flow shared by the steps.                                       *)

Goto(label) == pc' = label /\ UNCHANGED <<cont, outcome>>

\* The interpreter exits: the ProcessState object is gone.
Exit(how) ==
  /\ pc' = "idle" /\ outcome' = how
  /\ recorded' = {} /\ UNCHANGED cont

\* An exception inside the try block reaches "except Exception".
Raise == pc' = "report" /\ outcome' = "failed" /\ UNCHANGED cont

\* SystemExit leaves the handler for the finally block or for the interpreter.
LeaveHandler ==
  \/ cont = "finally" /\ Goto("fkill") /\ UNCHANGED recorded
  \/ cont = "exit" /\ Exit("interrupted")

\* pkill -9 neard: matches processes that have become neard, not numactl; one it
\* may not signal it passes over, with the exit code of no match.
PkillHits ==
  /\ proc' = [p \in Proc |-> IF proc[p] = "neard" /\ p \notin refused
                             THEN "none" ELSE proc[p]]
  /\ UNCHANGED pkillFailed

PkillFails ==
  /\ PkillMayFail
  /\ pkillFailed' = TRUE
  /\ UNCHANGED proc

-----------------------------------------------------------------------------
(* Up to the launch.                                                       *)

StartRun(m) ==
  /\ pc = "idle" /\ run < MaxRuns
  /\ pc' = "preflight" /\ mode' = m /\ run' = run + 1
  /\ launch' = 0 /\ next' = 0 /\ polls' = 0
  /\ cont' = "exit" /\ outcome' = "running" /\ tps' = "none"
  /\ recorded' = {} /\ answered' = {} /\ stale' = {} /\ art' = {}
  /\ pkillFailed' = FALSE
  /\ UNCHANGED <<proc, data, dir, interrupts, refused>>

\* preflight_checks and the required-path checks, before the try block.
Preflight ==
  /\ pc = "preflight"
  /\ \/ Goto("setup") /\ UNCHANGED recorded
     \/ Exit("failed")
  /\ UNCHANGED <<tps, harness, proc, answered, stale, disk, env>>

\* ensure_accounts .. generate_node_configs.  With --dry-run the rest of the
\* try block and the cleanup only print, but the node homes are created.
Setup ==
  /\ pc = "setup"
  /\ dir' = IF mode # "dry_run" THEN "ready"
            ELSE IF dir = "absent" THEN "partial" ELSE dir
  /\ \/ mode = "full" /\ Goto("prekill") /\ UNCHANGED recorded
     \/ mode = "setup_only" /\ Goto("fkill") /\ UNCHANGED recorded
     \/ mode = "dry_run" /\ Exit("skipped")
  /\ UNCHANGED <<tps, harness, proc, answered, stale, data, art, env>>

SetupFails ==
  /\ pc = "setup"
  /\ dir' \in {dir, "partial"}
  /\ IF mode = "dry_run" THEN Exit("failed") ELSE Raise /\ UNCHANGED recorded
  /\ UNCHANGED <<tps, harness, proc, answered, stale, data, art, env>>

\* Fault: survivors of an earlier invocation are left alone.
PreLaunchKill_Skipped ==
  /\ pc = "prekill" /\ Settled /\ Goto("wipe")
  /\ UNCHANGED <<tps, harness, fleet, disk, env>>

\* "Pre-launch cleanup".
PreLaunchKill ==
  /\ pc = "prekill" /\ Settled
  /\ \/ PkillHits /\ Goto("wipe")
     \/ PkillFails /\ Raise
  /\ UNCHANGED <<tps, harness, recorded, answered, stale, disk, interrupts, refused>>

\* Fault: the last node's directory is missed.
Wipe_LastMissed ==
  /\ pc = "wipe"
  /\ data' = [n \in Node |-> IF n # N - 1 THEN "clean" ELSE data[n]]
  /\ Goto("launch") /\ launch' = 1 /\ next' = 0
  /\ UNCHANGED <<tps, mode, run, polls, fleet, dir, art, env>>

\* wipe_node_data_dirs and assert_node_keys_exist.
Wipe ==
  /\ pc = "wipe"
  /\ \E wiped \in SUBSET Node :
       /\ data' = [n \in Node |-> IF n \in wiped THEN "clean" ELSE data[n]]
       /\ \/ /\ wiped = Node
             /\ Goto("launch") /\ launch' = 1 /\ next' = 0
          \/ Raise /\ UNCHANGED <<launch, next>>
  /\ UNCHANGED <<tps, mode, run, polls, fleet, dir, art, env>>

-----------------------------------------------------------------------------
(* launch_neard_processes: Popen returns once the child has exec'ed         *)
(* numactl; only then is the child appended to neard_processes.             *)

Fork ==
  /\ pc = "launch"
  /\ proc' = [proc EXCEPT ![<<next, run, launch>>] = "numactl"]
  /\ Goto("spawn")
  /\ UNCHANGED <<tps, harness, recorded, answered, stale, disk, env>>

LaunchFails ==
  /\ pc = "launch" /\ Raise
  /\ UNCHANGED <<tps, harness, fleet, disk, env>>

Record ==
  /\ pc = "spawn"
  /\ recorded' = recorded \union {<<next, run, launch>>}
  /\ IF next + 1 < N
     THEN Goto("launch") /\ next' = next + 1 /\ UNCHANGED <<polls, answered>>
     ELSE Goto("gate") /\ polls' = 0 /\ answered' = {} /\ UNCHANGED next
  /\ UNCHANGED <<tps, mode, run, launch, proc, stale, disk, env>>

-----------------------------------------------------------------------------
(* readiness_gate: one poll scrapes every node, sleeps, then decides on     *)
(* what it scraped.                                                         *)

\* A set of processes that may have answered: one per port at most.
Answers(A) == /\ \A p \in A : proc[p] = "neard"
              /\ \A p, q \in A : p[1] = q[1] => p = q

GateScrape ==
  /\ pc = "gate" /\ polls < MaxPolls
  /\ \E A \in SUBSET {p \in Proc : proc[p] = "neard"} : Answers(A) /\ answered' = A
  /\ polls' = polls + 1
  /\ Goto("decide")
  /\ UNCHANGED <<tps, mode, run, launch, next, proc, recorded, stale, disk, env>>

\* Fault: the deadline is renewed instead of enforced.
GateTimeout_Renewed ==
  /\ pc = "gate" /\ polls = MaxPolls
  /\ polls' = 0 /\ Goto("gate")
  /\ UNCHANGED <<tps, mode, run, launch, next, fleet, disk, env>>

GateTimeout ==
  /\ pc = "gate" /\ polls = MaxPolls
  /\ Raise
  /\ UNCHANGED <<tps, harness, fleet, disk, env>>

\* Fault: one live shard opens the gate.
GatePass_AnyShard ==
  /\ pc = "decide" /\ answered # {}
  /\ Goto(IF launch = 1 THEN "assign" ELSE "measure")
  /\ UNCHANGED <<tps, harness, fleet, disk, env>>

GatePass ==
  /\ pc = "decide"
  /\ \A n \in Node : \E p \in answered : p[1] = n
  /\ Goto(IF launch = 1 THEN "assign" ELSE "measure")
  /\ UNCHANGED <<tps, harness, fleet, disk, env>>

\* Still syncing, too low, too far apart, or silent.
GateRetry ==
  /\ pc = "decide"
  /\ Goto("gate")
  /\ UNCHANGED <<tps, harness, fleet, disk, env>>

-----------------------------------------------------------------------------
(* verify_chunk_producer_shard_assignment, fix_accounts_path_for_assignment *)
(* and restart_neard_instances.                                             *)

\* Fault: configs are rewritten but neard is not restarted.
Assign_NoRestart ==
  /\ pc = "assign"
  /\ \E changed \in SUBSET Node :
       stale' = {p \in Proc : Executing(p) /\ p[1] \in changed}
  /\ Goto("measure")
  /\ UNCHANGED <<tps, harness, proc, recorded, answered, disk, env>>

Assign ==
  /\ pc = "assign"
  /\ \E changed \in SUBSET Node :
       /\ stale' = {p \in Proc : Executing(p) /\ p[1] \in changed}
       /\ \/ changed = {} /\ Goto("measure")
          \/ changed # {} /\ Goto("rkill")
          \/ Raise
  /\ UNCHANGED <<tps, harness, proc, recorded, answered, disk, env>>

\* kill_process_group on one recorded process, in any of the three loops.
KillGroup(p) ==
  /\ pc \in {"rkill", "hkill", "fkill"}
  /\ p \in recorded /\ Live(p)
  /\ proc' = [proc EXCEPT ![p] = "none"]
  /\ UNCHANGED <<pc, cont, outcome, tps, harness, recorded, answered, stale,
                 disk, env>>

\* Fault: only ProcessLookupError is ignored.
KillRefused_Raises(p) ==
  /\ p \in recorded /\ Live(p) /\ Cardinality(refused) < MaxRefusals
  /\ refused' = refused \union {p}
  /\ \/ pc = "rkill" /\ Raise /\ UNCHANGED recorded
     \/ pc = "hkill" /\ LeaveHandler
     \/ pc = "fkill" /\ Exit("failed")
  /\ UNCHANGED <<tps, harness, proc, answered, stale, disk, pkillFailed, interrupts>>

\* killpg may not signal the group: the PermissionError is swallowed.
KillRefused(p) ==
  /\ pc \in {"rkill", "hkill", "fkill"}
  /\ p \in recorded /\ Live(p) /\ Cardinality(refused) < MaxRefusals
  /\ refused' = refused \union {p}
  /\ UNCHANGED <<pc, cont, outcome, tps, harness, fleet, disk, pkillFailed,
                 interrupts>>

GroupsKilled == \A p \in recorded : ~ Live(p)

RestartKilled ==
  /\ pc = "rkill" /\ GroupsKilled
  /\ recorded' = {}
  /\ Goto("rpkill")
  /\ UNCHANGED <<tps, harness, proc, answered, stale, disk, env>>

RestartPkill ==
  /\ pc = "rpkill"
  /\ \/ PkillHits /\ Goto("rwait")
     \/ PkillFails /\ Raise
  /\ UNCHANGED <<tps, harness, recorded, answered, stale, disk, interrupts, refused>>

\* wait_for_lock_release returns when the locks are free or after 30 s.
RestartWait ==
  /\ pc = "rwait"
  /\ Goto("launch") /\ launch' = 2 /\ next' = 0
  /\ UNCHANGED <<tps, mode, run, polls, fleet, disk, env>>

\* Fault: results are written before the processes are cleaned up.
Measure_PublishesFirst ==
  /\ pc = "measure"
  /\ tps' \in {"zero", "positive"} /\ Goto("csv")
  /\ UNCHANGED <<harness, fleet, disk, env>>

Measure ==
  /\ pc = "measure"
  /\ \/ tps' \in {"zero", "positive"} /\ Goto("fkill")
     \/ Raise /\ UNCHANGED tps
  /\ UNCHANGED <<harness, fleet, disk, env>>

-----------------------------------------------------------------------------
(* except, finally and the SIGINT handler.                                  *)

\* write_failure_artifacts, which may itself raise; finally runs anyway.
ReportFailure ==
  /\ pc = "report"
  /\ art' \in {art, art \union {"failure"}}
  /\ Goto("fkill")
  /\ UNCHANGED <<tps, harness, fleet, data, dir, env>>

CleanupKilled ==
  /\ GroupsKilled
  /\ \/ pc = "hkill" /\ Goto("hpkill")
     \/ pc = "fkill" /\ Goto("fpkill")
  /\ UNCHANGED <<tps, harness, fleet, disk, env>>

HandlerPkill ==
  /\ pc = "hpkill"
  /\ \/ PkillHits /\ Goto("hsleep") /\ UNCHANGED recorded
     \/ PkillFails /\ LeaveHandler
  /\ UNCHANGED <<tps, harness, answered, stale, disk, interrupts, refused>>

\* Fault: the handler does not sleep after its pkill.
HandlerSlept_NoSleep ==
  /\ pc = "hsleep"
  /\ LeaveHandler
  /\ UNCHANGED <<tps, harness, proc, answered, stale, disk, env>>

HandlerSlept ==
  /\ pc = "hsleep" /\ Settled
  /\ LeaveHandler
  /\ UNCHANGED <<tps, harness, proc, answered, stale, disk, env>>

FinallyPkill ==
  /\ pc = "fpkill"
  /\ \/ PkillHits /\ Goto("fsleep") /\ UNCHANGED recorded
     \/ PkillFails /\ Exit("failed")
  /\ UNCHANGED <<tps, harness, answered, stale, disk, interrupts, refused>>

FinallySlept ==
  /\ pc = "fsleep" /\ Settled
  /\ \/ outcome = "running" /\ tps # "none" /\ Goto("csv") /\ UNCHANGED recorded
     \/ outcome = "running" /\ tps = "none" /\ Exit("skipped")
     \/ outcome # "running" /\ Exit(outcome)
  /\ UNCHANGED <<tps, harness, proc, answered, stale, disk, env>>

-----------------------------------------------------------------------------
(* append_results and the removal of the run directory.                     *)

PublishStep(from, to) ==
  /\ pc = from
  /\ \/ art' = art \union {from} /\ Goto(to) /\ UNCHANGED recorded
     \/ UNCHANGED art /\ Exit("failed")
  /\ UNCHANGED <<tps, harness, proc, answered, stale, data, dir, env>>

WriteCsv == PublishStep("csv", "detail")
WriteDetail == PublishStep("detail", "summary")
WriteSummary == PublishStep("summary", "wiperun")

\* Fault: the directory is removed whatever was measured.
WipeRunDir_Always ==
  /\ pc = "wiperun" /\ Exit("done")
  /\ dir' = "absent" /\ data' = [n \in Node |-> "absent"]
  /\ UNCHANGED <<tps, harness, proc, answered, stale, art, env>>

WipeRunDir ==
  /\ pc = "wiperun"
  /\ \/ tps = "zero" /\ Exit("done") /\ UNCHANGED <<dir, data>>
     \/ /\ tps = "positive" /\ Exit("done")
        /\ dir' = "absent" /\ data' = [n \in Node |-> "absent"]
     \/ tps = "positive" /\ Exit("failed") /\ dir' = "partial" /\ UNCHANGED data
  /\ UNCHANGED <<tps, harness, proc, answered, stale, art, env>>

-----------------------------------------------------------------------------
(* Signals to the harness.                                                  *)

HandlerInstalled == pc \notin {"idle", "preflight"}

\* SIGINT: KeyboardInterrupt before the handler is installed; the handler,
\* possibly on top of itself, afterwards.
Interrupt ==
  /\ pc # "idle" /\ interrupts < MaxInterrupts
  /\ interrupts' = interrupts + 1
  /\ IF HandlerInstalled /\ mode # "dry_run"
     THEN /\ pc' = "hkill" /\ outcome' = "interrupted"
          /\ cont' = CASE pc \in TryPhase \union {"report"} -> "finally"
                       [] pc \in HandlerPhase -> cont
                       [] OTHER -> "exit"
          /\ UNCHANGED recorded
     ELSE Exit("interrupted")
  /\ UNCHANGED <<tps, harness, proc, answered, stale, disk, pkillFailed, refused>>

\* SIGTERM, SIGKILL or the OOM killer: no Python code runs.
Crash ==
  /\ pc # "idle"
  /\ Exit("crashed")
  /\ UNCHANGED <<tps, harness, proc, answered, stale, disk, env>>

-----------------------------------------------------------------------------
(* The neard processes.                                                     *)

ProcUnchanged == UNCHANGED <<pc, cont, outcome, tps, harness, recorded,
                             answered, stale, dir, art, env>>

\* numactl execs neard.
Exec(p) ==
  /\ proc[p] = "numactl"
  /\ proc' = [proc EXCEPT ![p] = "neard"]
  /\ ProcUnchanged /\ UNCHANGED data

\* neard writes its RocksDB directory.
Store(p) ==
  /\ proc[p] = "neard" /\ data[p[1]] # "used"
  /\ data' = [data EXCEPT ![p[1]] = "used"]
  /\ ProcUnchanged /\ UNCHANGED proc

\* A process panics or exits by itself.
Die(p) ==
  /\ proc[p] # "none"
  /\ proc' = [proc EXCEPT ![p] = "none"]
  /\ ProcUnchanged /\ UNCHANGED data

-----------------------------------------------------------------------------
HarnessStep ==
  \/ Preflight \/ Setup \/ SetupFails \/ PreLaunchKill \/ Wipe
  \/ Fork \/ LaunchFails \/ Record
  \/ GateScrape \/ GateTimeout \/ GatePass \/ GateRetry
  \/ Assign \/ RestartKilled \/ RestartPkill \/ RestartWait \/ Measure
  \/ ReportFailure \/ CleanupKilled \/ HandlerPkill \/ HandlerSlept
  \/ FinallyPkill \/ FinallySlept
  \/ WriteCsv \/ WriteDetail \/ WriteSummary \/ WipeRunDir
  \/ \E p \in Proc : KillGroup(p) \/ KillRefused(p)

ProcStep == \E p \in Proc : Exec(p) \/ Store(p) \/ Die(p)

Next == \/ \E m \in Mode : StartRun(m)
        \/ HarnessStep
        \/ Interrupt
        \/ Crash
        \/ ProcStep

Spec == Init /\ [][Next]_vars

\* The operating system schedules the harness and ends every exec; SIGKILL,
\* signals to the harness and new invocations are not promised.
Fairness == /\ WF_vars(HarnessStep)
            /\ \A p \in Proc : WF_vars(Exec(p))

FairSpec == Spec /\ Fairness

-----------------------------------------------------------------------------
(* Correctness.                                                            *)

\* Every variable stays in its type; the gate polls at most MaxPolls times and
\* the launch loop never indexes a node that does not exist.
TypeOK ==
  /\ pc \in Phase /\ mode \in Mode /\ run \in 0 .. MaxRuns
  /\ launch \in 0 .. 2 /\ next \in Node /\ polls \in 0 .. MaxPolls
  /\ cont \in {"finally", "exit"} /\ outcome \in Outcome
  /\ tps \in {"none", "zero", "positive"}
  /\ proc \in [Proc -> ProcState]
  /\ recorded \subseteq Proc /\ answered \subseteq Proc /\ stale \subseteq Proc
  /\ data \in [Node -> {"absent", "clean", "used"}]
  /\ dir \in {"absent", "partial", "ready"} /\ art \subseteq Artifact
  /\ pkillFailed \in BOOLEAN /\ interrupts \in 0 .. MaxInterrupts
  /\ refused \subseteq Proc

\* Two processes never run on one node home: neither the survivors of a crashed
\* invocation nor the first launch overlap with what the harness launches
\* (pre-launch pkill, restart_neard_instances), but for a process that nobody was
\* permitted to kill.
SingleInstance ==
  \A p, q \in Proc : Live(p) /\ Live(q) /\ p[1] = q[1] => p = q

\* ProcessState is there "to guarantee cleanup on success/failure/interrupt":
\* when an invocation ends other than by a crash, no process it forked and was
\* permitted to kill is left running, not even one whose Popen was interrupted
\* before it was recorded - unless a pkill of the invocation failed.
NoOrphans ==
  pc = "idle" /\ outcome # "crashed" /\ ~ pkillFailed =>
    \A p \in Proc : Mine(p) => ~ Live(p)

\* Whatever pkill does, and whichever kill is refused on the way: an invocation
\* that does not crash ends with every process of its own killed, of both its
\* launches, but the ones it may not signal and the one child that was still in
\* Popen when SIGINT came (cleanup_processes, kill_process_group).
RecordedAreKilled ==
  [][pc # "idle" /\ pc' = "idle" /\ outcome' # "crashed" =>
       \A p \in Proc : Mine(p) /\ Live(p) =>
         p \notin recorded /\ p = <<next, run, launch>>]_vars

\* The first launch of an invocation finds every data directory it has yet to
\* use wiped, and no survivor of an earlier invocation writes into one after
\* wipe_node_data_dirs ("clean chain startup"), if it could be killed.
CleanStart ==
  pc \in {"launch", "spawn"} /\ launch = 1 =>
    \A n \in Node : n > next \/ (n = next /\ pc = "launch") =>
      data[n] = "clean" \/ Barred(n)

\* A measurement is taken only when the last poll of the last readiness gate
\* was answered, for every shard, by the very process of the latest launch:
\* never by a survivor or by the instance the restart replaced, if they could
\* be killed.
GateAnsweredByOwn ==
  pc = "measure" => \A n \in Node : <<n, run, launch>> \in answered \/ Barred(n)

\* While a measurement is taken no running neard still uses a config.json that
\* fix_accounts_path_for_assignment has rewritten since it started, but for one
\* that the restart was not permitted to kill.
MeasuresFreshConfig ==
  pc = "measure" => \A p \in stale : ~ Live(p)

\* scaling_results: one invocation never leaves both a failure record and a
\* result; it ends "done" only with CSV row, detail record and summary written;
\* nothing is published while a process it forked and may kill is still running.
ArtifactsAgree ==
  /\ "failure" \in art => "csv" \notin art
  /\ outcome = "done" => {"csv", "detail", "summary"} \subseteq art
  /\ pc \in PublishPhase /\ ~ pkillFailed =>
       \A p \in Proc : Mine(p) => ~ Live(p)

\* The run directory (logs, keys, chain data) is removed only by an invocation
\* that has published all of its results.
RemovedOnlyWhenPublished ==
  [][dir' = "absent" /\ dir # "absent" =>
       {"csv", "detail", "summary"} \subseteq art /\ tps = "positive"]_vars

\* Every invocation comes to an end, whatever fails and however often it is
\* interrupted: the gate times out, the handler and the finally block finish.
EveryRunEnds == pc # "idle" ~> pc = "idle"

\* write_failure_artifacts exists to "satisfy the requirement that partial
\* results should still be written on failures": an invocation that completed
\* its measurement and then failed leaves a record of it, or of the failure.
FailureLeavesRecord ==
  pc = "idle" /\ outcome = "failed" /\ tps # "none" =>
    art \intersect {"csv", "detail", "failure"} # {}

=============================================================================
