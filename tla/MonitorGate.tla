----------------------------- MODULE MonitorGate -----------------------------
(***************************************************************************)
(* orchestration/run_S24_gated_monitor.sh: the benchmark in the background,*)
(* a loop that greps its log, and scripts/monitor.py, started when the log *)
(* holds the line, which samples all neard processes until pgrep finds     *)
(* none and then writes its file.  scripts/analyze_block_pipeline.py reads *)
(* that file.                                                              *)
(*                                                                         *)
(* The processes are those of LockHandover.  A sample is the launch of the *)
(* node of shard 0 that answered /metrics, or None: all counters of one    *)
(* launch form one series that never decreases, and the next one starts at *)
(* 0 again.                                                                *)
(*                                                                         *)
(* History variables: onStale says that the monitor was started on the     *)
(* line of an earlier run, seen of which launches of this one it has found *)
(* a process, while it works.                                              *)
(***************************************************************************)
EXTENDS LockHandover, Sequences

CONSTANTS MaxSamples  \* bound: samples kept

ASSUME SamplesAssumption == MaxSamples \in Nat

VARIABLES
  log,      \* the log file: absent, stale, empty or line
  tee,      \* the process $BENCH_JOB names: starting, open or gone
  script,   \* grep, started, waitmon, done or failed
  mon,      \* off, wait, loop, ended, erred, absent or killed
  samples,  \* samples the monitor holds and has yet to write
  onStale, seen

gate == <<log, tee, script>>
monitor == <<mon, samples, seen>>
vars == <<lockVars, gate, monitor, onStale>>

Init ==
  /\ LockInit
  /\ log \in {"absent", "stale"} /\ tee = "starting" /\ script = "grep"
  /\ mon = "off" /\ samples = <<>> /\ seen = {}
  /\ onStale = FALSE

Pids == {p \in Proc : Visible(p)}
OwnLaunches == {p[2] : p \in {q \in Pids : Mine(q)}}

-----------------------------------------------------------------------------
(* The script.                                                             *)

\* tee truncates the log of the last run.
TeeOpens ==
  /\ tee = "starting"
  /\ tee' = "open" /\ log' = "empty"
  /\ UNCHANGED <<lockVars, script, monitor, onStale>>

\* What the benchmark prints reaches the log, and tee ends with it.
TeeCopies ==
  /\ tee = "open"
  /\ \/ printed /\ log = "empty" /\ log' = "line" /\ UNCHANGED tee
     \/ ~ Running /\ (printed => log = "line") /\ tee' = "gone" /\ UNCHANGED log
  /\ UNCHANGED <<lockVars, script, monitor, onStale>>

LineFound == log \in {"stale", "line"}

GrepFinds ==
  /\ script = "grep" /\ LineFound
  /\ script' = "started" /\ mon' = "wait"
  /\ onStale' = (log = "stale")
  /\ UNCHANGED <<lockVars, log, tee, samples, seen>>

\* The benchmark has exited, or WAIT_MAX_S are over.
GrepGivesUp ==
  /\ script = "grep" /\ ~ LineFound
  /\ script' = "failed"
  /\ UNCHANGED <<lockVars, log, tee, monitor, onStale>>

\* wait $BENCH_JOB, then wait $MON_JOB.
WaitBench ==
  /\ script = "started" /\ tee = "gone"
  /\ script' = "waitmon"
  /\ UNCHANGED <<lockVars, log, tee, monitor, onStale>>

WaitMonitor ==
  /\ script = "waitmon" /\ mon \in {"ended", "erred", "absent", "killed"}
  /\ script' = "done"
  /\ UNCHANGED <<lockVars, log, tee, monitor, onStale>>

-----------------------------------------------------------------------------
(* The monitor.                                                            *)

\* wait_for_neard finds a process, or its time is over.
MonitorFinds ==
  /\ mon = "wait" /\ Pids # {}
  /\ mon' = "loop" /\ seen' = seen \cup OwnLaunches
  /\ UNCHANGED <<lockVars, gate, samples, onStale>>

\* Fault: without a process it waits forever.
MonitorAbsent_Never ==
  /\ mon = "wait" /\ Pids = {}
  /\ UNCHANGED vars

MonitorAbsent ==
  /\ mon = "wait" /\ Pids = {}
  /\ mon' = "absent"
  /\ UNCHANGED <<lockVars, gate, samples, seen, onStale>>

\* The node of shard 0 answers once its database is open, unless it times out.
Answering == {p[2] : p \in {q \in Proc : q[1] = 0 /\ proc[q] = "neard" /\ holds[q] # None}}

\* One round of the loop that finds a process.  What changes between pgrep and
\* the scrape shows as a timeout, or as a pgrep that came later.
Sample ==
  /\ mon = "loop" /\ Pids # {}
  /\ \E s \in Answering \cup {None} :
       samples' = IF Len(samples) < MaxSamples THEN Append(samples, s) ELSE samples
  /\ seen' = seen \cup OwnLaunches
  /\ UNCHANGED <<lockVars, gate, mon, onStale>>

\* pgrep finds none: the monitor writes its samples to its file and ends.
WriteFile ==
  /\ mon = "loop" /\ Pids = {}
  /\ mon' = "ended" /\ samples' = <<>>
  /\ UNCHANGED <<lockVars, gate, seen, onStale>>

\* pgrep fails, with any status but 0 or an exception, and get_neard_pids finds
\* nothing whatever runs: the wait is over, if it fails every time, and the loop
\* ends, with the samples so far in its file.
PgrepFails ==
  /\ Pids # {}
  /\ \/ mon = "wait" /\ mon' = "absent" /\ UNCHANGED samples
     \/ mon = "loop" /\ mon' = "erred" /\ samples' = <<>>
  /\ seen' = {}
  /\ UNCHANGED <<lockVars, gate, onStale>>

\* A monitor that is killed leaves no file; SIGINT, on which it would write what
\* it has, is ignored by what a script runs in the background.
MonitorKilled ==
  /\ mon \in {"wait", "loop"}
  /\ mon' = "killed" /\ samples' = <<>> /\ seen' = {}
  /\ UNCHANGED <<lockVars, gate, onStale>>

ScriptStep == TeeOpens \/ TeeCopies \/ GrepFinds \/ GrepGivesUp \/ WaitBench \/ WaitMonitor
MonitorStep == MonitorFinds \/ MonitorAbsent \/ Sample \/ WriteFile

Over == /\ ~ Running /\ script \in {"done", "failed"} /\ tee = "gone"
        /\ mon \notin {"wait", "loop"}
        /\ UNCHANGED vars

Next ==
  \/ LockNext /\ UNCHANGED <<gate, monitor, onStale>>
  \/ ScriptStep \/ MonitorStep \/ PgrepFails \/ MonitorKilled
  \/ Over

Spec == Init /\ [][Next]_vars

\* Timeouts and sleeps of the three programs end; SIGKILL takes effect.  A process
\* takes three steps at most, and the script five: one condition does for all.
FairSpec == /\ Spec
            /\ WF_bench(BenchStep /\ UNCHANGED <<gate, monitor, onStale>>)
            /\ WF_<<proc, holds>>(/\ \E p \in Proc : ProcessStep(p)
                                 /\ UNCHANGED <<gate, monitor, onStale>>)
            /\ WF_gate(ScriptStep) /\ WF_monitor(MonitorStep)

-----------------------------------------------------------------------------
(* The analyzer.                                                           *)

\* Fault: the share to discard is rounded down.
steady_RoundsDown(s) ==
  SubSeq(s, (2 * Len(s)) \div 5 + 1, Len(s))

\* STEADY_FRACTION: the first 40 % of the samples, rounded up, are discarded.
steady(s) == SubSeq(s, (2 * Len(s) + 4) \div 5 + 1, Len(s))

\* The samples with a value of shard 0; the deltas of a window are the last of
\* them minus the first.
Known(w) == {i \in DOMAIN w : w[i] # None}
CrossesReset(w) ==
  \E i, j \in Known(w) : /\ \A k \in Known(w) : i <= k /\ k <= j
                         /\ w[i] # w[j]

-----------------------------------------------------------------------------
(* Correctness.                                                            *)

\* A monitor that stops because it finds no process, while the measurement goes
\* on, has never seen a process of the launch that is measured: the loop is never
\* left between two looks at it.  What it took for its run was the first launch,
\* and it fell into the gap before the restart; or only leftovers, because it was
\* started on a stale line or because they outlived their SIGKILL by the three
\* seconds before the wipe.
MonitorCoversMeasurement ==
  pc = "measure" /\ mon = "ended" =>
    /\ launch \notin seen
    /\ (launch = 2 /\ 1 \in seen) \/ onStale \/ slow

\* Samples that come before any of the last launch.
Before == {i \in DOMAIN samples : \A j \in 1 .. i : samples[j] # launch}

\* The deltas of a file, which may be written at any moment of the loop, cross
\* the reset of the counters only if more samples than the analyzer discards come
\* before the first of the last launch.
DeltasOfOneLaunch ==
  CrossesReset(steady(samples)) =>
    5 * (Cardinality(Before) - 1) >= 2 * Len(samples)

\* The script ends, unless nodes that no invocation kills keep the monitor
\* going: those of a benchmark that was killed, or the leftovers that a failing
\* preflight leaves to a monitor started on a stale line.
ScriptEnds ==
  <>(script \in {"done", "failed"})
    \/ <>[](\E p \in Pids : pc = "crashed" \/ (~ Mine(p) /\ onStale))

=============================================================================
