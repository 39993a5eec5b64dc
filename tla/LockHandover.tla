---------------------------- MODULE LockHandover ----------------------------
(***************************************************************************)
(* How one invocation of scripts/run_benchmark.py hands the databases of   *)
(* its nodes from one neard to the next: the pre-launch kill, the launch,  *)
(* the restart that reloads the configs, and the final cleanup, with what  *)
(* SIGKILL, flock and the process table do in between.                     *)
(*                                                                         *)
(* A process is named by its node and its launch: 0 for one left over from *)
(* an earlier invocation, 1 for the first launch, 2 for the restart.  It   *)
(* is numactl before it is neard; after SIGKILL it is dying, still holding *)
(* its lock, then a zombie until its parent looks at it.                   *)
(*                                                                         *)
(* LOCK is an inode: unlinking the path leaves the lock on the old inode   *)
(* with its holder, and the next neard creates another one.  An inode is   *)
(* named by the launch of the neard that created it.                       *)
(*                                                                         *)
(* timedOut, unlinkFailed, panicked and slow are history variables.        *)
(***************************************************************************)
EXTENDS Integers, FiniteSets

CONSTANTS N  \* --shards

ASSUME NodesAssumption == N \in Nat \ {0}

Node == 0 .. N - 1
Launch == 0 .. 2
Proc == Node \X Launch
None == -1
BenchPhase == {"prekill", "wipe", "line", "launch", "gate", "rkill", "rpkill",
               "rwait", "measure", "cleanup", "pkill", "exit", "crashed"}

VARIABLES
  pc,        \* what the benchmark is about to do
  launch,    \* launches begun
  next,      \* loop index of launch_neard_processes
  printed,   \* whether the "Run: ... monitor.py" line has been printed
  proc,      \* none, numactl, neard, dying or zombie
  holds,     \* the inode a process has locked
  lockFile,  \* the inode of data/LOCK of every node
  timedOut, unlinkFailed, panicked, slow

bench == <<pc, launch, next, printed>>
locks == <<holds, lockFile>>
witness == <<timedOut, unlinkFailed, panicked, slow>>
lockVars == <<bench, proc, locks, witness>>

Running == pc \notin {"exit", "crashed"}
\* A process that is killed or waits to be reaped can still be found by name.
Visible(p) == proc[p] \in {"neard", "dying", "zombie"}
Mine(p) == p[2] # 0
Here(p) == p[2] = launch /\ launch # 0
\* The database of the leftovers is wiped before the first launch.
SameDatabase(p, q) == p[1] = q[1] /\ Mine(p) = Mine(q)

LockInit ==
  /\ pc = "prekill" /\ launch = 0 /\ next = 0 /\ printed = FALSE
  /\ \E left \in {"none", "neard"} :
       /\ proc = [p \in Proc |-> IF p[2] = 0 THEN left ELSE "none"]
       /\ lockFile = [n \in Node |-> IF left = "neard" THEN 0 ELSE None]
       /\ holds = [p \in Proc |-> IF p[2] = 0 THEN lockFile[p[1]] ELSE None]
  /\ timedOut = FALSE /\ unlinkFailed = FALSE /\ panicked = FALSE /\ slow = FALSE

-----------------------------------------------------------------------------
(* Effects on the processes.                                               *)

\* SIGKILL; pkill finds neard only, the list of the harness numactl as well.
Killed(f, S) == [p \in Proc |-> IF p \in S /\ f[p] \in {"numactl", "neard"}
                                THEN "dying" ELSE f[p]]
ByName == {p \in Proc : proc[p] = "neard"}
\* Popen looks at the children whose Popen objects are gone: after a restart
\* those of the first launch.
Reaped(f) == [p \in Proc |-> IF f[p] = "zombie" /\ p[2] < launch THEN "none" ELSE f[p]]

\* Nobody but the harness waits for its children: they stay zombies until it
\* is gone.  Leftovers belong to init.
Gone(p) == IF Mine(p) /\ Running THEN "zombie" ELSE "none"

-----------------------------------------------------------------------------
(* The benchmark.                                                          *)

\* safe_pkill_neard raises when pkill fails otherwise than for want of a match.
PreLaunchKill ==
  /\ pc = "prekill"
  /\ \/ pc' = "wipe" /\ proc' = Killed(proc, ByName)
     \/ pc' = "cleanup" /\ UNCHANGED proc
  /\ UNCHANGED <<launch, next, printed, locks, witness>>

\* The preflight fails, or the setup does and the finally block cleans up.
SetupFails ==
  /\ pc = "prekill" /\ pc' \in {"exit", "cleanup"}
  /\ UNCHANGED <<launch, next, printed, proc, locks, witness>>

\* Three seconds later the data directories go, with the LOCK files in them.
Wipe ==
  /\ pc = "wipe"
  /\ pc' = "line"
  /\ lockFile' = [n \in Node |-> None]
  /\ slow' = \E p \in Proc : proc[p] = "dying"
  /\ UNCHANGED <<launch, next, printed, proc, holds, timedOut, unlinkFailed, panicked>>

\* Fault: the line is printed before the leftovers are killed.
PrintLine_Early ==
  /\ \/ pc = "prekill" /\ ~ printed /\ UNCHANGED pc /\ printed' = TRUE
        /\ UNCHANGED launch
     \/ pc = "line" /\ pc' = "launch" /\ launch' = 1 /\ UNCHANGED printed
  /\ UNCHANGED <<next, proc, locks, witness>>

\* "Run: python3 scripts/monitor.py ...", then the launch.
PrintLine ==
  /\ pc = "line"
  /\ pc' = "launch" /\ launch' = 1 /\ printed' = TRUE
  /\ UNCHANGED <<next, proc, locks, witness>>

\* LOCK is unlinked immediately before the launch, if that succeeds.
Fork ==
  /\ pc = "launch"
  /\ \E ok \in BOOLEAN :
       /\ lockFile' = IF ok THEN [lockFile EXCEPT ![next] = None] ELSE lockFile
       /\ unlinkFailed' = (unlinkFailed \/ (~ ok /\ lockFile[next] # None))
  /\ proc' = [Reaped(proc) EXCEPT ![<<next, launch>>] = "numactl"]
  /\ next' = IF next + 1 < N THEN next + 1 ELSE 0
  /\ pc' = IF next + 1 < N THEN "launch" ELSE "gate"
  /\ UNCHANGED <<launch, printed, holds, timedOut, panicked, slow>>

\* The readiness gate: all nodes answer, and the configs may need a restart.
GatePass ==
  /\ pc = "gate"
  /\ \A n \in Node : LET p == <<n, launch>> IN proc[p] = "neard" /\ holds[p] # None
  /\ pc' \in IF launch = 1 THEN {"rkill", "measure"} ELSE {"measure"}
  /\ UNCHANGED <<launch, next, printed, proc, locks, witness>>

\* The launch, the gate or the assignment fails, or the measurement is over.
Finish ==
  /\ pc \in {"launch", "gate", "measure"}
  /\ pc' = "cleanup"
  /\ UNCHANGED <<launch, next, printed, proc, locks, witness>>

\* restart_neard_instances: SIGKILL to every process group, and the list is
\* cleared.
RestartKill ==
  /\ pc = "rkill"
  /\ pc' = "rpkill" /\ launch' = 2
  /\ proc' = Killed(proc, {p \in Proc : Here(p)})
  /\ UNCHANGED <<next, printed, locks, witness>>

\* It reaps what it may even if it fails.
RestartPkill ==
  /\ pc = "rpkill"
  /\ \/ pc' = "rwait" /\ proc' = Killed(Reaped(proc), ByName)
     \/ pc' = "cleanup" /\ proc' = Reaped(proc)
  /\ UNCHANGED <<launch, next, printed, locks, witness>>

\* lock_is_free: no file, or nobody has its inode locked.
Free(n) == \A p \in Proc : p[1] = n => holds[p] = None \/ holds[p] # lockFile[n]

\* Fault: the LOCK files are not tested.
LockReleased_Untested ==
  /\ pc = "rwait"
  /\ pc' = "launch"
  /\ UNCHANGED <<launch, next, printed, proc, locks, witness>>

\* Fault: they are removed without waiting for their release.
LockReleased_Removes ==
  /\ pc = "rwait"
  /\ pc' = "launch" /\ lockFile' = [n \in Node |-> None]
  /\ UNCHANGED <<launch, next, printed, proc, holds, witness>>

LockReleased ==
  /\ pc = "rwait"
  /\ \A n \in Node : Free(n)
  /\ pc' = "launch"
  /\ UNCHANGED <<launch, next, printed, proc, locks, witness>>

\* Thirty seconds later the LOCK files are unlinked, held or not.
LockTimeout ==
  /\ pc = "rwait" /\ \E n \in Node : ~ Free(n)
  /\ pc' = "launch" /\ timedOut' = TRUE
  /\ \E S \in SUBSET Node :
       /\ lockFile' = [n \in Node |-> IF n \in S THEN lockFile[n] ELSE None]
       /\ unlinkFailed' = (unlinkFailed \/ \E n \in S : lockFile[n] # None)
  /\ UNCHANGED <<launch, next, printed, proc, holds, panicked, slow>>

Cleanup ==
  /\ pc = "cleanup"
  /\ pc' = "pkill"
  /\ proc' = Killed(proc, {p \in Proc : Here(p)})
  /\ UNCHANGED <<launch, next, printed, locks, witness>>

\* The children of a harness that has exited belong to init.
Orphaned(f) == [p \in Proc |-> IF f[p] = "zombie" THEN "none" ELSE f[p]]

ExitBench ==
  /\ pc = "pkill"
  /\ pc' = "exit"
  /\ proc' \in {Orphaned(Killed(proc, ByName)), Orphaned(proc)}
  /\ UNCHANGED <<launch, next, printed, locks, witness>>

\* The harness is killed; its nodes are not.
Crash ==
  /\ Running
  /\ pc' = "crashed"
  /\ proc' = Orphaned(proc)
  /\ UNCHANGED <<launch, next, printed, locks, witness>>

-----------------------------------------------------------------------------
(* The processes.                                                          *)

Exec(p) ==
  /\ proc[p] = "numactl"
  /\ proc' = [proc EXCEPT ![p] = "neard"]
  /\ UNCHANGED <<bench, locks, witness>>

\* neard opens its database: creates LOCK if there is none, and panics with
\* EAGAIN if another process has it locked.
Open(p) ==
  /\ proc[p] = "neard" /\ holds[p] = None
  /\ LET inode == IF lockFile[p[1]] = None THEN p[2] ELSE lockFile[p[1]]
     IN /\ lockFile' = [lockFile EXCEPT ![p[1]] = inode]
        /\ IF \E q \in Proc : q[1] = p[1] /\ holds[q] = inode
           THEN proc' = [proc EXCEPT ![p] = Gone(p)] /\ panicked' = TRUE
                /\ UNCHANGED holds
           ELSE holds' = [holds EXCEPT ![p] = inode] /\ UNCHANGED <<proc, panicked>>
  /\ UNCHANGED <<bench, timedOut, unlinkFailed, slow>>

\* A killed process is gone at last, and its lock with it.
Terminate(p) ==
  /\ proc[p] = "dying"
  /\ proc' = [proc EXCEPT ![p] = Gone(p)]
  /\ holds' = [holds EXCEPT ![p] = None]
  /\ UNCHANGED <<bench, lockFile, witness>>

BenchStep ==
  \/ PreLaunchKill \/ SetupFails \/ Wipe \/ PrintLine \/ Fork \/ GatePass
  \/ Finish \/ RestartKill \/ RestartPkill \/ LockReleased \/ LockTimeout
  \/ Cleanup \/ ExitBench
ProcessStep(p) == Exec(p) \/ Open(p) \/ Terminate(p)

LockNext == BenchStep \/ Crash \/ \E p \in Proc : ProcessStep(p)

LockSpec == LockInit /\ [][LockNext]_lockVars

-----------------------------------------------------------------------------
(* Correctness.                                                            *)

\* Every variable stays in its type.
LockTypeOK ==
  /\ pc \in BenchPhase /\ launch \in Launch /\ next \in Node /\ printed \in BOOLEAN
  /\ proc \in [Proc -> {"none", "numactl", "neard", "dying", "zombie"}]
  /\ holds \in [Proc -> Launch \cup {None}]
  /\ lockFile \in [Node -> Launch \cup {None}]
  /\ <<timedOut, unlinkFailed, panicked, slow>> \in BOOLEAN \X BOOLEAN \X BOOLEAN \X BOOLEAN

\* Two processes never have the database of a node open together, on whatever
\* inodes their locks are, unless the restart gave up waiting for the lock.
OneDatabaseHolder ==
  \A p, q \in Proc : SameDatabase(p, q) /\ holds[p] # None /\ holds[q] # None =>
    p = q \/ timedOut

\* A neard panics at a held LOCK only if the restart gave up waiting and the
\* file could not be unlinked either.
PanicExplained == panicked => timedOut /\ unlinkFailed

=============================================================================
