# Verification of the NEAR shard-scaling benchmark harness

TLA+ models of the programs in this repository that run the benchmark, checked
with TLC on small instances and, where stated, proved with TLAPS for every
value of the constants. Line numbers are those of `scripts/run_benchmark.py`
unless another file is named.

## 1. The system

One Python process, `run_benchmark.py`, prepares a local NEAR network of N
shards (N in {1,2,4,8,16,24}), launches N `neard` processes through `numactl`,
waits until they are ready, corrects their configuration, measures, cleans up
and publishes. Around it are a resource monitor, an external load generator, an
observer variant of the experiment, a program that bakes accounts into the
genesis of a bench directory, and shell scripts that start several of these.

| component | state it keeps | operations | interacts with | hard behaviour | what makes it correct |
|---|---|---|---|---|---|
| invocation lifecycle (`run_experiment`, 1904-2110) | `ProcessState` (68-72), results so far, run directory | setup, kill, wipe, launch, gate, assign, restart, measure, clean up, publish | neard (signals, HTTP), file system, SIGINT handler | SIGINT between any two steps, crash, pkill failing, survivors | one process per node home, nothing left running, nothing measured that is stale, published only when quiet |
| readiness gate (1186-1316) | heights, counters, history | scrape, sleep, decide | /status, /metrics | answers are stale when used | opens only for the launched processes, always ends |
| chunk-producer assignment (465-567, 756-969) | `config.json`, map node -> shard | predict, query, correct, restart | validators RPC, neard's generator | partial or silent answers, epoch change | every generator feeds the shard its node produces for |
| measurement (`measure_run`, 1393-1595) | two snapshots per shard | start snapshot, sleep, end snapshot, decide, retry | /status, /metrics by N threads | fetches fail or are delayed, the chain stalls | reported deltas agree with what was produced in the window |
| lock hand-over (972-1018) | RocksDB `LOCK` files | test flock, unlink | neard being killed | unlinks a lock still held | one database, one process |
| setup (193-567) | keys, genesis, node homes | generate, reuse (`--skip-setup`) | neard, genesis template | artifacts of another run | keys, genesis and homes belong together |
| results store (1598-1823) | CSV, detail JSON, summaries | append, rewrite | earlier and later invocations | failure between files, crash in a rewrite | history is kept, files agree |
| submitter (`external_tx_submitter.py`) | nonces, cursor | sign, submit, resync | RPC of the validators | timeouts, stale nonces | every shard is fed, no nonce used twice |
| observer experiment (`observer_scaling.py`) | as the lifecycle, and submitters | as the lifecycle | submitters, 8 observers | as the lifecycle | as the lifecycle |
| monitor (`monitor.py`) | samples | wait, sample, stop, write | pgrep, /metrics | restart of neard, being killed | covers the run it was started for |
| gated scripts (`orchestration/run_*_gated*.sh`) | background jobs, exit codes | start, wait, exit | benchmark, monitor | exit code overwritten | a failed benchmark is reported |
| genesis bake (`genesis_bake.py`) | account files, genesis of node0, its copies, databases | bake | load generator, nodes | killed between files, run again on its own output | keys left for the generator are known to every node |
| sweep and netem scripts | nodes, qdisc on `lo` | apply, run, remove | cluster nodes | failure half way | no delay left behind |
| analyzer (`analyze_block_pipeline.py`) | none | differences of counters | monitor output | counter resets, gaps | differences are those of the counters |

`PROJECT.json` lists under `hazards` what in this code is hard to test, each at
its line, with the properties that cover it or the reason why none does.

## 2. Modules

| module | role |
|---|---|
| `BenchmarkRun` | the lifecycle: harness, signals and processes |
| `BenchmarkContract` | what an invocation promises, without saying how |
| `BenchmarkRefinement` | `BenchmarkRun` with the contract instantiated under a refinement mapping |
| `ReadinessGate` | `readiness_gate` in detail: one poll, one node after the other, with a clock |
| `ShardAssignment` | prediction, query, correction, restart |
| `MCShardAssignment` | sixteen shards and six assignments for TLC |
| `Measurement` | the measurement window |
| `LockHandover` | dying processes, zombies, LOCK inodes between two launches |
| `MonitorGate` | extends `LockHandover` by the gated script, the monitor and the analyzer's window |
| `SetupFiles` | keys, genesis, homes and configs over successive invocations |
| `ResultsStore` | the result files over successive invocations |
| `GenesisBake` | account files, genesis and databases over successive bakes |
| `HarnessFiles` | composes the three file stores |
| `Submitter` | the external transaction submitter against the chain |
| `ObserverRun` | the observer experiment: files, nodes, submitters, signals |
| `BenchmarkRun_proofs` (with the refinement), `ReadinessGate_proofs`, `ShardAssignment_proofs`, `Measurement_proofs`, `MonitorGate_proofs` (with the hand-over), `HarnessFiles_proofs` (all three stores), `Submitter_proofs`, `ObserverRun_proofs` | inductive invariants and theorems (section 4) |

`BenchmarkRun` is the whole in coarse steps. The lock wait, the gate's
conditions, the setup, the correction of configs, the measurement and the
contents of the result files are single steps of it, and each has a module that
takes it apart.

Operators whose comment begins with "Fault:" stand before the operator they
are a broken version of. Nothing uses them; replacing the operator by its fault
shows that a property can fail.

### BenchmarkRun

`pc` is the statement of `run_experiment` that runs next, grouped as the code's
own `try`, `except`, `finally` and interrupt handler (`TryPhase`, `report`,
`FinallyPhase`, `HandlerPhase`, `PublishPhase`). One action is one call that
changes something others can see:

| actions | code |
|---|---|
| `StartRun`, `Preflight` | up to the `try` (1904-1954, 146-190) |
| `Setup`, `SetupFails` | `ensure_accounts` .. `generate_node_configs`, `--setup-only`, `--dry-run` (1955-1999) |
| `PreLaunchKill`, `Wipe` | 2001-2009 |
| `Fork`, `Record`, `LaunchFails` | `Popen` and the append after it (1112-1119): two steps, because SIGINT may come between them |
| `GateScrape`, `GatePass`, `GateRetry`, `GateTimeout` | `readiness_gate`: what is decided on was read before a sleep |
| `Assign` | 2028-2036: which nodes' configs change is left open here |
| `KillGroup`, `KillRefused` | `kill_process_group` (1164-1169), one process of the list at a time, here and in every cleanup; a `PermissionError` is swallowed |
| `RestartKilled`, `RestartPkill`, `RestartWait` | `restart_neard_instances` (1127-1161) |
| `Measure` | `measure_run`, as a whole |
| `ReportFailure`, `CleanupKilled`, `FinallyPkill`, `FinallySlept` | `except` and `finally` (2069-2081, 1172-1183) |
| `WriteCsv`, `WriteDetail`, `WriteSummary`, `WipeRunDir` | 2083-2110, each of which may raise |
| `Interrupt`, `HandlerPkill`, `HandlerSlept` | the SIGINT handler (1863-1873); `cont` is where its `SystemExit` goes |
| `Crash` | SIGTERM, SIGKILL, out of memory: no Python code runs |
| `Exec`, `Store`, `Die` | numactl becomes neard, neard writes its database, a process ends (external) |

A process is a triple (node, invocation, launch). `recorded` is
`ProcessState.neard_processes`; it is lost when the interpreter exits. A process
is "numactl" until it execs: `pkill -9 neard` (119-130) does not match it then,
but `killpg` on the recorded pid does. `refused` holds the processes that the
harness was not permitted to signal, which takes a child with other
credentials; pkill passes over them too. The properties are about the others
(`Live`), and a home with a process that cannot be killed is `Barred`.

Timing. The sleeps of 3 and 5 seconds around `pkill` are there because exec and
kill are not instantaneous. The model does not count seconds; it assumes that a
child of `Popen` has become neard, or has exited, when such a sleep is over
(guards `Settled`). A SIGKILL ends its process in the same step; how long its
locks outlive it is the subject of `LockHandover`. Without the assumption `NoOrphans` fails, as its mutant
`HandlerSlept_NoSleep` shows.

### BenchmarkContract and BenchmarkRefinement

The contract knows whether an invocation is active, which invocations own a
running neard, whether complete results are published and how the invocation
ended. neard is brought up only on a machine that no other invocation occupies;
results appear only when the machine is quiet; "done" needs results; only a
crash leaves neard running. `KeepsContract` is the contract's specification
under the mapping of `BenchmarkRefinement`, for a pkill that works and kills that are
permitted.

### Measurement

Every thread of a snapshot (`fetch_shard_snapshot`, 688-725) fetches /status
and then /metrics, and either may fail; the threads and the chain interleave.
Failed fetches leave the code's defaults: counter 0, H1 = 0, H2 = H1.
`startHead`, `produced` and `asleep` are history variables: the heights at t1,
and the transactions an instance has included since t1 and during the sleep.
`near_chunk_transactions_total` has a series per shard label, and
`metrics_chunk_tx_total` (592-611) returns the first positive one. One seat per
shard gives an instance one series, but the mapping of nodes to shards may be
reshuffled after an epoch (`README.md:134-137`): then an instance in `Moved` has
several, and the snapshots may read different ones. The delta cannot become
too large by that (`NeverOverstates`), but too small; `WindowCounted` is about
an instance that has produced for one shard only, whichever it is. Elapsed time is left out: all rates divide by the same
positive number, so the properties compare differences.

### ShardAssignment

`cp_shard` is the prediction of `generate_node_configs` (480-489). Names are not
spelled out: `NameKey` orders indices as Python orders `node{j}`, and
`PredictionIsSorted` compares it with the digit-by-digit order. `Resolved` is
what the RPC answer resolves to (this epoch's shards, else the next one's, the
lowest of several, ids out of range ignored); each `Poll` overwrites the map.
`Considered` keeps the code's `actual == i` exception (943).

### ReadinessGate

`StartPoll` looks at the deadline and nowhere else is it looked at (1212-1219);
`Scrape` is one iteration of the loop over the nodes (1221-1252); `Decide` is the
sleep, the advisory questions and the decision on what was read before them
(1254-1316). Meanwhile nodes become silent, synchronise and produce blocks. One
unit of `now` is `HTTP_TIMEOUT_S`, so a request costs nothing or one. The
transaction counters (conditions 5 and 6) and the slow warning decide nothing
and are left out; the time their requests take is kept. `began` and `steady` are
history: the heights when the poll began, and whether all nodes have been ready
since.

### LockHandover and MonitorGate

A process is a pair (node, launch), 0 for a leftover. SIGKILL makes it *dying*,
still holding its lock, then a *zombie* that `pgrep` still lists until its parent
looks (CPython's `Popen` reaps the dead when the next one is created), then
nothing. A LOCK is an inode named by the launch that created it: unlinking the
path (1010-1018) leaves the old inode locked, and the next neard locks another.
That the LOCK is held with flock is what the code says of it (972-980). `slow` records
that a process outlived the sleep that was to cover its death. A pkill may fail:
before the launch and in the restart that leads to the `finally` block, in the
`finally` block to the end.

`MonitorGate` adds `run_S24_gated_monitor.sh` (`tee` on the log, the loop that
greps it, the two waits), `monitor.py` (wait for a process, sample while pgrep
finds one, write once) and the window of `analyze_block_pipeline.py` (`steady`). A
sample is the launch that answered: the counters of one launch form one series
and those of the next begin at 0 again. SIGINT to the monitor is left out since a
script's background jobs ignore it; SIGKILL is `MonitorKilled`. `get_neard_pids`
(`monitor.py:123-134`) answers with an empty list when pgrep fails, which ends the
loop at 376-379 whatever runs: `PgrepFails`, after which `mon` is "erred". The file
is written at the step that leaves the loop, and that may be any step
(`PgrepFails`), so `DeltasOfOneLaunch` is stated of the samples held at any time. `seen`
records the launches of which the monitor has found a process while it works. A monitor may
stop during the measurement (`MonitorCoversMeasurement` says when), but with a
working pgrep it has then seen no process of the launch that is measured.

### SetupFiles, ResultsStore, GenesisBake and HarnessFiles

All three are about what an invocation that was stopped anywhere leaves to the
next one. Contents are named by their origin: a validator key by the invocation
whose `neard init` made it, an account file by the change that wrote it, a genesis
by what it was built from, an account of a bake by the bake. A file that was
being rewritten when its writer stopped is torn.

`SetupFiles` follows `run_experiment` from `ensure_accounts` to the launch (one
action per node and file) and the removal of the run directory entry by entry.
The directory is that of one shard count, as in the code (`S{shards:02d}`); the
accounts, which somebody else maintains, change in `AccountsChange`.
`ResultsStore` has the three writes of `append_results` and
`write_failure_artifacts`, with the detail file read back, and one invocation at
a time. `GenesisBake` represents a genesis as the sequence of the bakes that
appended to it; nodes that are run in between make databases.

`HarnessFiles` composes them. They share no file, and no property is about two
of them, so `FilesNext` moves one store while the other two are as on a new
machine: any behaviour of the three together shows each store one of the
behaviours explored this way.

### Submitter

`LoopStep` is one turn of `submitter_loop` (289-371): fetch a block hash
(`FetchHash`, `Refresh`), send (`Sending`), and go on by the answer (`Acknowledge`, `NonceRejected`,
`InvalidRejected`, `OtherRejected`, `Unanswered`), or read the nonce back
(`Resync`), which changes nothing if the query is answered with an error. A turn
is over only when acknowledged. `loaded` is how many accounts a shard's directory
had (fewer than asked for is a warning, 226-232, and none is a division by zero at
322, `NoAccount`), `known` which of them the chain has: the first files by name
are not always the accounts 0 .. n-1 of the genesis. The turn of an account that
is not known is never over, and since turns are taken in order it stops all
shards: `KeepsFeeding` says that the turns go on to the first such account and no
further. A node checks account, nonce and block hash before it acknowledges; an answer may be lost although the
request arrives, and a transaction included is final only later; another
submitter may use the accounts (`Foreign`). Signing and pacing are left out.

### ObserverRun

As `BenchmarkRun`, with validators, observers and submitters as members, with the
files of their homes, and with the second list of `ObsProcessState`: submitters
are reached by that list only, never by `pkill neard`. `GatePass` and
`GateTimeout` are the outcomes of its gate, whose conditions are those of
`ReadinessGate`. `InitReplaces` says whether `neard init` replaces a key that is
already there, which this repository does not determine. `--skip-setup` reuses
the keys and nothing else (see the findings).

## 3. Runs

| run | instance | shows |
|---|---|---|
| `benchmark_run` | 2 nodes, 2 invocations, 1 gate poll, 2 SIGINTs, crash anywhere, pkill may fail, 1 refused kill; 1.5 million states | ownership, cleanup, fresh evidence, no removal before publication |
| `benchmark_contract` | 2 nodes, 2 invocations, 2 polls, 2 SIGINTs; with fairness; 104,000 states | the contract, and every invocation ends |
| `readiness_gate` | 2 nodes, timeout 2, 3 blocks per node; with fairness; 1.1 million states | what an open gate guarantees, what a refusal means, when it ends |
| `shard_assignment` | 16 nodes, 6 assignments, 2 polls, 2 epoch ends | prediction, matching generators |
| `measurement` | 2 instances, one of which may be moved, 2 labels, 1 retry, 1 block per instance and 1 transaction per series; with fairness; 1.6 million states | the reported deltas, acceptance, termination |
| `monitor_gate` | 1 node, 3 launches, 4 samples; with fairness; 670,000 states | one holder per database, panics, what the monitor covers, whose counters it compares, the script ends |
| `harness_files` | setup: 2 nodes, 2 accounts, 3 invocations, 1 change; results: 2 shard counts, 4 invocations; bakes: 2 shards, 2 accounts, 1 other home, 3 bakes; 1.7 million states | what survives an invocation that is cut short |
| `submitter` | 2 shards of 2 accounts, of which 1 may be missing or unknown to the chain, 5 turns, 1 unknown outcome; with fairness; 597,000 states | no nonce used twice, even load, how far the turns go on |
| `observer_run` | 2 validators, 2 observers and submitters, 2 invocations, 1 death, pkill may fail; with fairness; 376,000 states | nothing left running, no foreign load, files that agree, every invocation ends |
| `finding_no_failure_record` | 1 node, 1 invocation, pkill may fail | violation, see below |
| `finding_stalled_chain_accepted` | 1 instance, 2 labels, 2 retries | violation, see below |
| `finding_no_realignment` | as `shard_assignment` | violation, see below |

Type invariants are proved (section 4) and need no run; that of `ObserverRun` is
checked by its run as well.

Bounds. *`BenchmarkRun`.* Two invocations are needed for a survivor to meet a
launch, and two are enough because an invocation sees of all earlier ones only
processes with an older name. Two nodes are needed for a launch loop that is
interrupted half way. Two launches per invocation is not a bound: the code
restarts at most once. One poll is enough for a stale scrape because the gate
keeps only the last one; the contract run has two, so that a retry happens. Two interrupts, so that the handler interrupts itself. One refused kill may come
anywhere in a list of two. *`ReadinessGate`.* With a height of 1 asked for, a spread of 1
and heights up to 3, a node may be below, equal, ahead by what is allowed and by
more; a poll costs from 1 to 7 units, so that the deadline of 2 falls before and
after its end. *`Measurement`.* One block per instance and one transaction per series suffice
for each snapshot to fall before, between or after the production, and the chain
may stall at any point; two labels for two snapshots to read different series.
One retry instead of the code's two, since each attempt begins with new
snapshots; the theorems are for any number. *`ShardAssignment`.*
Sixteen is the smallest allowed count whose names do not sort by number.
*`MonitorGate`.* Of four samples the analyzer keeps two, the fewest between which
a counter may start again; the nodes do not interact, and the theorems about the
databases are for any number of them. *`HarnessFiles`.* Three setups: one that is
complete, one that is cut short or removes part of it, and one that reuses what
is left; likewise three bakes. Four runs of two shard counts: a summary and a
history that are torn, rebuilt and extended again. *`Submitter`.* Five turns pass over all four accounts and come back to the first; one account
that is missing or unknown is enough to stop them, at any of the turns. *`ObserverRun`.* Two
submitters, so that one may be recorded and the other not; one SIGINT and one
killed invocation in a behaviour, in either invocation and at any step.

Deadlock is not checked in `benchmark_run`, `benchmark_contract` and
`harness_files`, where it is the bound on invocations that ends a behaviour. The
other models have a step for the regular end (`Over`, `Finished`, `Returned`,
`BoundReached`), so that TLC would report a program that is stuck.

Fairness. `BenchmarkRun` and `ObserverRun`: weak fairness of the harness as a
whole and of every exec. Every HTTP request has a timeout and every sleep and
loop a bound, so the harness can always take a step and the operating system
schedules it; SIGINTs, crashes, deaths and new invocations are not promised.
`ReadinessGate` and `Measurement`: weak fairness of the harness and its threads,
for the same reason; none for the nodes, which may stall. `MonitorGate`: weak
fairness of the benchmark, the script and the monitor, three programs the
operating system schedules, and of the processes (a kill takes effect, numactl
execs). Each of them takes three steps at most, so one condition for all says as
much as one for each. `Submitter`: weak fairness of its loop and of finality on a chain that
runs, and strong fairness of `Refresh`, a timer that is due again and again while
the loop goes on; none for answers, which may all be lost.

### Findings

* `finding_no_failure_record`: `cleanup_processes` in the `finally` block
  (2081) calls pkill; if pkill fails with a code above 1 it raises there, after
  the measurement is complete: neither `append_results` nor
  `write_failure_artifacts` runs. The latter's docstring (1777-1781) wants
  "partial results" to "still be written on failures".
* `finding_stalled_chain_accepted`: with a failed start snapshot the deltas are
  the totals since genesis, so `measurement_is_valid` (1380-1390) accepts a
  window in which nothing happened. Its docstring: "Checks whether a measurement
  window captured live chain activity."
* `finding_no_realignment`: the validators RPC is asked once, before the
  measurement (2028). `README.md:134-137` says the harness re-queries it to
  realign with the post-epoch assignment.

More places where code and text part were met without a run of their own; the
models show the code's behaviour.

* `observer_scaling.py:804-805`, the help of `--skip-setup`: "Reuse existing
  keys/genesis/configs when present". Only the keys are reused (147, 165); genesis
  and configs are built and written anew in every invocation (877-879), unlike in
  `run_benchmark.py`, where the same option does skip the genesis (1972-1973).
  `FilesAgree` holds because of what the code does: reusing the genesis as the
  help says would break it as soon as one key was missing and made anew.
* `README.md:134-137` expects nodes to change shards, after which
  `metrics_chunk_tx_total` (592-611) may read the series of another shard at the
  end of the window than at its start and a delta miss transactions; the comment
  at 1409-1413 counts on one series per instance (`WindowCounted` states the
  premise).
* `get_neard_pids` (`monitor.py:123-134`) does not distinguish a pgrep that fails
  from one that finds nothing, so that a failure ends the monitor while the nodes
  run.
* The restart may fall into the window that `analyze_block_pipeline.py:4-6` calls
  steady (`DeltasOfOneLaunch` says when it cannot).
* The slow warning (1232) names a node that had reached the height in time when
  another one keeps the gate waiting.
* `active_shards` (1364) counts a shard whose delta is negative, although the
  docstring (1325-1332) wants stalled validators caught.
* `actual == i` (943) exempts a node whose config holds another shard from the
  correction (`Matches` in `ShardAssignment` states the exemption).
* `scaling_results.csv`: an invocation cut short between creating the file and
  writing its buffer leaves an empty file that never gets a header (1613).

## 4. Proofs

`BenchmarkRun_proofs`, for any N > 0, any number of invocations, polls and
interrupts, pkill failing or not:

* `TypeCorrect`. `TypeOK` is not inductive: which triple `Record` adds depends
  on `run` and `launch` being counted, hence `LaunchCounts`.
* The inductive invariant `IInv` has three groups. *Ownership*: processes carry
  no name the harness has yet to give out (`FreshNames`), and from the
  pre-launch pkill on only the latest launch executes (`OnlyLatestLaunch`); from
  these follows `SingleInstance`. *Cleanup*: whatever executes is recorded,
  except a child still inside `Popen` (`Tracked`), and what is left when the
  last pkill comes is recorded or has become neard (`CleanupReaches`); from these follow `NoOrphans` and, since a refused kill
neither raises nor ends the loop over the list, `RecordedAreKilled`. All three
groups speak of the processes that can be killed. *Bookkeeping*: what the gate has read came from the
  latest launch (`Evidence`), only first launches are outdated (`Outdated`), and
  artifacts appear in order (`Written`).
* `OwnershipStep`, `CleanupStep` and `BookkeepingStep` each take the actions one by one (`PkillEffect` and `ProcEffects` say once what a pkill, an exec, a
  kill and the recording of a PID do to `proc`), `InvStep` joins the three, and
  `Invariance` makes it a temporal fact; the theorems `OneProcessPerHome`, `CleanupGuaranteed`, `RecordedReached`,
  `WipedBeforeLaunch`, `GateSound`, `ConfigFresh`, `ArtifactsConsistent` and
  `RemovalAfterPublication` read the properties off it.

The same module proves the refinement, for a pkill that never fails and kills
that are permitted (`ContractKept`): `RInv` adds to `IInv` how far an invocation can be with
which outcome and which artifacts (`Verdicts`). To the contract most steps only
stop processes or do nothing (`Quiet`), make the invocation fail (`Fails`) or
end it (`Ends`), and each of the three is mapped once (`QuietMaps`, `FailsMaps`,
`EndsMaps`); the start of an invocation, a fork, the publication and a crash are
mapped on their own, and `StepsMap` goes through all actions. That the last pkill
reaches everything (`CleanupReaches`) is what lets the contract end with nothing
left running.

`Measurement_proofs`, for any finite set of instances, any labels and any bounds:
`MInv` says that a height of the start snapshot was read after t1
(`FirstIsRecent`) and a value of the end snapshot after the sleep (`LastIsLate`),
or is a default; that what the series read at the start has gained since, and all
there is in the series before it, was produced since t1 (`GainIsProduced`), so that
it does not matter which of them is read at the end; and that an only series has
kept what was read of it and what the sleep added (`SleepIsKept`); the theorems
`MeasurementTypes`, `MeasurementNeverOverstates`, `MeasurementWindowCounted` and
`MeasurementAcceptedMeansLive` follow. The last one also needs that the
cardinality of a subset is no larger (`EnoughMonotone`).

`ReadinessGate_proofs`, for any number of nodes, thresholds and limits: `GInv`
says that what was read lies between the height when the poll began and the
height now (`Between`), that an open gate saw what it asks for (`Opened`), that
while all nodes have been ready every row read says so (`Steady`), and how late
each phase of a poll can be (`Clock`). From these `NoLaggard`, `RefusalExplained`
and `GateKeepsDeadline`.

`ShardAssignment_proofs`, for up to a hundred nodes and any assignments: the
predicted shards are the ranks of the names (`PredictionSorted`), because the sets
of smaller names are nested; and `AInv` relates the answer, the configs, what is
loaded and the reason for a restart (`Answered`, `Corrections`, `Reason`);
`RestartsHaveReason` and `MatchingGenerators` follow.

`MonitorGate_proofs`, for any number of nodes and samples. *The hand-over*: `HInv`
says which launches can be in which state in which phase (`Phases`, `Fleet`),
which inodes there may be (`Inodes`), that a lock of the first launch is on the
file the restart looks at (`Linked`), and that after the wait nobody of the first
launch has a lock (`Handed`). From these `OneHolder` and `PanicIsExplained`, and
by `GateKeepsHandover` both hold beside the script and the monitor too. *What the
monitor sees*: the line comes with the first launch (`Told`), when the leftovers are gone unless
one was still dying at the wipe (`Cleaned`), and a process of the current launch
that pgrep lists stays listed, dead or alive, while the benchmark runs, until a
restart makes another launch the current one (`VisibleStays`, `Watching`): a
monitor that has seen one does not stop; hence `MonitorCovers`. *The series*: only nodes of the
current launch answer (`AnswersOfNow`), so that samples never go back (`Rising`); a
first value of the window that is not the last one's then has nothing of the last
launch before it, and it stands behind the 40 % discarded (`SteadyWindow`), which
is `DeltasStayInALaunch`.

`HarnessFiles_proofs`, for any numbers of nodes, accounts, shard counts, homes
and invocations. `FilesKeepTheirSpecs` splits the composition into its stores.
*The run directory*: `SInv` follows a setup that is not reused from phase to phase
(`Keyed`, `Copying`, `Configured`) and says what a disk on which nothing was cut
short holds (`Settled`); from these `FreshSetups` and `ReusedSetups`. *The
results*: `StoreInv` says that runs are in the files in their order, the present
one last (`Numbered`), where a run that measured is (`NoneLost`), and which record
the summary of a shard count follows (`Summarized`); the last one names the record
by its position, since the maximum in `SummaryIsOfLastRecord` is a CHOOSE. From
these `HistoryIsKept` and `SummariesFollow`. *The bakes*: `BakeInv` follows the
loops of a bake over shards (`Filled`), homes (`Spread`) and databases (`Clean`);
from these `KeysAreKnown` and `DatabasesFollow`, whatever earlier bakes that were
cut short have left.

`Submitter_proofs`, for any number of shards and accounts and any loss of
answers: every acknowledged nonce is behind the submitter's own count or behind
the chain (`AckedBehind`), what waits in the pool is ahead of the chain
(`PoolAhead`), and so the turns have distinct nonces (`TurnsAreDistinct`). The
number of turns is `(q * accounts + c) * shards + s`, where the accounts before
(s, c) have had q + 1 turns and the others q (`Rounds`, for each shard with as many
accounts as it has loaded); that the code's quotient
and remainder find (s, c) again is the lemma `Division`, and `LoadIsEven` follows.

`ObserverRun_proofs`, for any number of observers, a multiple of it of validators,
and any number of invocations and deaths. Three invariants rest on the types.
*Processes* (`PInv`): an invocation that has not come to its launch has none
(`Fresh`); what executes of earlier ones is excused, and from the launch on is no
node (`Past`); what executes of the present one is in the list, is the child
between `Popen` and append, or was lost there to the SIGINT (`Tracked`); and after
each step of a cleanup what it was to reach is gone (`Cleared`). The subtle part is
a node that was lost: the handler's pkill need not reach it, if it is numactl
still; but then the SIGINT came in the `try` block, the `finally` block runs
another pkill after the handler's sleep, and that finds it by name. From these
`GoneAfterwards` and `ForeignLoadIsExplained`. *Files* (`FInv`): each loop of the
setup has brought its property to the homes it has done, and none takes it away;
hence `LaunchesAgree` and `ObserversObserve`. *Load* (`EInv`): the shards of the
submitters started so far are fed, the others not; every shard belongs to one of
the submitters because their number divides that of the validators (`Slots`);
hence `ShardsAreFed`.

Type correctness is proved for each detailed module (`TypeCorrect`,
`MeasurementTypes`, `GateTypes`, `AssignmentTypes`, `LockTypes`, `SetupTypes`,
`SubmitterTypes`, `ObserverTypes`; for the other two stores it is part of
`FilesInvariant`, and for the monitor the types of its samples are part of
`SeriesInvariant`), and for `BenchmarkRun` also that its artifacts agree
(`ArtifactsConsistent`). The assumptions are those the modules declare on their
constants, none stronger than what the runs instantiate; only `ContractKept` adds some, that pkill does not fail and no kill is refused.

Every invariant and action property of a passing run is thus a theorem.
Model-checked only is liveness (`EveryRunEnds`, `MeasurementEnds`, `GateEnds`,
`ScriptEnds`, `KeepsFeeding`), which the prover does not reach.

## 5. Not modelled, and the plan

Not modelled: the text of logs, CSV and JSON; the statistics and plots derived
from the results; provisioning of the cluster; the patches to other
repositories; neard itself, which appears only as the harness sees it (processes,
ports, counters, locks, the epoch manager's answers). Of the harness:
`wait_for_flat_storage_ready` (1021-1068), which nothing calls; the parsing of
metrics, but for the choice among the series of a counter; the balance check, which only warns; signing and pacing of the
submitter. The gated scripts other than `run_S24_gated_monitor.sh` chain the same
programs. The sweep and netem scripts are sequences of commands without state except the queueing discipline on `lo`, which no modelled program
looks at.

Next, in this order:

1. The pure functions: the counter differences of the analyzer in full.
2. A contract of the observer experiment, as `BenchmarkContract` is of the
   benchmark.
