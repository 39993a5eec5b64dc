-------------------------- MODULE MonitorGate_proofs --------------------------
(***************************************************************************)
(* Proofs about LockHandover and about its composition with the script     *)
(* and the monitor in MonitorGate, for every number of nodes and samples.  *)
(*                                                                         *)
(* The hand-over: nobody of the first launch can open a database any more  *)
(* when the restart begins (Fleet), and until the wait for the locks is    *)
(* over every lock of the first launch is on the inode that the path names *)
(* (Linked), so that finding all LOCK files free means that no process of  *)
(* the first launch has a lock at all (Handed).                            *)
(*                                                                         *)
(* The composition: the leftovers are gone when the line is printed        *)
(* (Cleaned), and what can be seen of a launch stays to be seen until the  *)
(* next one (Watching); only nodes of the current launch answer, so that   *)
(* the samples of a monitor never go back to an earlier launch (Rising).   *)
(***************************************************************************)
EXTENDS MonitorGate, SequenceTheorems, FiniteSetTheorems, TLAPS

\* What the phase of the harness says about its counters.
Phases ==
  /\ pc \in {"prekill", "wipe", "line"} => launch = 0
  /\ pc \in {"launch", "gate", "measure"} => launch # 0
  /\ pc = "rkill" => launch = 1
  /\ pc \in {"rpkill", "rwait"} => launch = 2
  /\ pc \in {"prekill", "wipe", "line", "gate", "rkill", "rpkill", "rwait"} => next = 0

\* Which processes there may be.
Fleet(n) ==
  /\ \A i \in Launch : i > launch => proc[<<n, i>>] = "none"
  /\ pc = "launch" /\ n >= next => proc[<<n, launch>>] = "none"
  /\ pc \in {"rpkill", "rwait"} => proc[<<n, 2>>] = "none"
  /\ launch = 2 => proc[<<n, 1>>] \notin {"numactl", "neard"}
  /\ proc[<<n, 0>>] # "numactl"
  /\ proc[<<n, 0>>] = "neard" => holds[<<n, 0>>] # None /\ launch = 0
  /\ pc \in {"wipe", "line"} => proc[<<n, 0>>] # "neard"

\* Which inodes there may be.
Inodes(n) ==
  /\ \A i \in Launch : holds[<<n, i>>] # None => proc[<<n, i>>] \in {"neard", "dying"}
  /\ holds[<<n, 0>>] \in {None, 0} /\ holds[<<n, 1>>] \in {None, 1}
  /\ pc = "line" => lockFile[n] = None
  /\ launch # 0 => lockFile[n] # 0
  /\ launch = 1 => lockFile[n] # 2

\* A lock of the first launch is on the file that the restart looks at.
Linked(n) ==
  (launch = 1 \/ pc \in {"rpkill", "rwait"}) /\ holds[<<n, 1>>] # None => lockFile[n] = 1

\* The restart has waited for all locks, and has unlinked the files.
Handed(n) ==
  /\ ~ timedOut /\ pc = "launch" /\ launch = 2 => holds[<<n, 1>>] = None
  /\ \A m \in Node : ~ timedOut /\ proc[<<m, 2>>] # "none" => holds[<<n, 1>>] = None
  /\ ~ unlinkFailed /\ proc[<<n, 2>>] # "none" => lockFile[n] # 1

HInv ==
  /\ LockTypeOK /\ Phases /\ PanicExplained
  /\ \A n \in Node : Fleet(n) /\ Inodes(n) /\ Linked(n) /\ Handed(n)

LEMMA HInit == LockInit => HInv
<1> SUFFICES ASSUME LockInit PROVE HInv
  OBVIOUS
<1>0. PICK left \in {"none", "neard"} :
      /\ proc = [p \in Proc |-> IF p[2] = 0 THEN left ELSE "none"]
      /\ lockFile = [n \in Node |-> IF left = "neard" THEN 0 ELSE None]
      /\ holds = [p \in Proc |-> IF p[2] = 0 THEN lockFile[p[1]] ELSE None]
  BY DEF LockInit
<1>1. \A p \in Proc : p[1] \in Node
  BY DEF Proc
<1>2. LockTypeOK
  <2>1. lockFile \in [Node -> Launch \cup {None}]
    BY <1>0 DEF Launch
  <2>2. \A p \in Proc : lockFile[p[1]] \in Launch \cup {None}
    BY <1>1, <2>1
  <2>3. holds \in [Proc -> Launch \cup {None}]
    BY <1>0, <2>2
  <2>4. next \in Node /\ launch \in Launch
    BY NodesAssumption DEF LockInit, Node, Launch
  <2> QED
    BY <1>0, <2>1, <2>3, <2>4 DEF LockInit, LockTypeOK, BenchPhase
<1>3. Phases /\ PanicExplained
  BY DEF LockInit, Phases, PanicExplained
<1>4. \A n \in Node, i \in Launch :
        /\ <<n, i>> \in Proc
        /\ proc[<<n, i>>] = (IF i = 0 THEN left ELSE "none")
        /\ holds[<<n, i>>] = (IF i = 0 THEN lockFile[n] ELSE None)
  BY <1>0 DEF Proc
<1>5. 0 \in Launch /\ 1 \in Launch /\ 2 \in Launch
  BY DEF Launch
<1>6. ASSUME NEW n \in Node PROVE lockFile[n] = (IF left = "neard" THEN 0 ELSE None)
  BY <1>0
<1>10. pc = "prekill" /\ launch = 0 /\ next = 0
  BY DEF LockInit
<1>7. ASSUME NEW n \in Node PROVE Fleet(n) /\ Inodes(n) /\ Linked(n) /\ Handed(n)
  <2>1. /\ proc[<<n, 0>>] = left /\ proc[<<n, 1>>] = "none" /\ proc[<<n, 2>>] = "none"
        /\ holds[<<n, 0>>] = lockFile[n]
        /\ holds[<<n, 1>>] = None /\ holds[<<n, 2>>] = None
    BY <1>4, <1>5
  <2>2. Fleet(n)
    BY <1>6, <1>10, <2>1 DEF Fleet, Launch, None
  <2>3. Inodes(n)
    BY <1>6, <1>10, <2>1 DEF Inodes, Launch, None
  <2>4. Linked(n) /\ Handed(n)
    BY <1>4, <1>5, <1>10, <2>1 DEF Linked, Handed
  <2> QED
    BY <2>2, <2>3, <2>4
<1> QED
  BY <1>2, <1>3, <1>7 DEF HInv

-----------------------------------------------------------------------------
(* Effects on the processes, process by process.                           *)

ProcState == {"none", "numactl", "neard", "dying", "zombie"}

LEMMA ProcIsPair ==
  /\ \A n \in Node, i \in Launch : <<n, i>> \in Proc
  /\ \A p \in Proc : p[1] \in Node /\ p[2] \in Launch /\ p = <<p[1], p[2]>>
  /\ 0 \in Launch /\ 1 \in Launch /\ 2 \in Launch
BY DEF Proc, Launch

\* A kill or the end of the harness makes processes die and zombies vanish.
Calmer(f, g) ==
  /\ g \in [Proc -> ProcState]
  /\ \A p \in Proc :
       \/ g[p] = f[p]
       \/ f[p] \in {"numactl", "neard"} /\ g[p] = "dying"
       \/ f[p] = "zombie" /\ g[p] = "none"

LEMMA KilledIsCalmer ==
  ASSUME NEW f \in [Proc -> ProcState], NEW S
  PROVE  /\ Calmer(f, Killed(f, S))
         /\ \A p \in Proc : p \in S => Killed(f, S)[p] \notin {"numactl", "neard"}
BY DEF Calmer, Killed, ProcState

LEMMA ReapedIsCalmer ==
  ASSUME NEW f \in [Proc -> ProcState]
  PROVE  /\ Calmer(f, Reaped(f))
         /\ \A p \in Proc : \/ Reaped(f)[p] = f[p]
                            \/ f[p] = "zombie" /\ Reaped(f)[p] = "none"
BY DEF Calmer, Reaped, ProcState

LEMMA OrphanedIsCalmer ==
  ASSUME NEW f \in [Proc -> ProcState] PROVE Calmer(f, Orphaned(f))
BY DEF Calmer, Orphaned, ProcState

LEMMA CalmerTwice ==
  ASSUME NEW f \in [Proc -> ProcState], NEW g, NEW h, Calmer(f, g), Calmer(g, h)
  PROVE  h \in [Proc -> ProcState] /\ g \in [Proc -> ProcState]
         /\ \A p \in Proc :
              \/ h[p] = f[p]
              \/ f[p] \in {"numactl", "neard"} /\ h[p] = "dying"
              \/ f[p] = "zombie" /\ h[p] = "none"
BY DEF Calmer

\* A step that leaves locks and counters alone and only calms processes keeps
\* what is said about every node, if it enters no phase that says more.
LEMMA CalmStep ==
  ASSUME HInv, Calmer(proc, proc'), UNCHANGED <<locks, witness, launch, next>>,
         pc' \in BenchPhase,
         pc' \in {"launch", "line"} => pc' = pc,
         pc' \in {"rpkill", "rwait"} => pc \in {"rpkill", "rwait"},
         pc' = "wipe" => \A p \in Proc : proc'[p] # "neard"
  PROVE  \A n \in Node : (Fleet(n) /\ Inodes(n) /\ Linked(n) /\ Handed(n))'
<1> SUFFICES ASSUME NEW n \in Node PROVE (Fleet(n) /\ Inodes(n) /\ Linked(n) /\ Handed(n))'
  OBVIOUS
<1>0. Fleet(n) /\ Inodes(n) /\ Linked(n) /\ Handed(n) /\ launch \in Launch
  BY DEF HInv, LockTypeOK
<1>1. \A m \in Node, i \in Launch :
        \/ proc'[<<m, i>>] = proc[<<m, i>>]
        \/ proc[<<m, i>>] \in {"numactl", "neard"} /\ proc'[<<m, i>>] = "dying"
        \/ proc[<<m, i>>] = "zombie" /\ proc'[<<m, i>>] = "none"
  BY ProcIsPair DEF Calmer
<1>2. UNCHANGED <<holds, lockFile, timedOut, unlinkFailed, launch, next>>
  BY DEF locks, witness
<1>3. pc' = "wipe" => proc'[<<n, 0>>] # "neard"
  BY ProcIsPair
<1>4. Fleet(n)'
  BY <1>0, <1>1, <1>2, <1>3, ProcIsPair DEF Fleet
<1>5. Inodes(n)'
  BY <1>0, <1>1, <1>2, ProcIsPair DEF Inodes
<1>6. Linked(n)'
  BY <1>0, <1>2 DEF Linked
<1>7. Handed(n)'
  BY <1>0, <1>1, <1>2, ProcIsPair DEF Handed
<1> QED
  BY <1>4, <1>5, <1>6, <1>7

-----------------------------------------------------------------------------
(* The steps.                                                              *)

LEMMA PreLaunchKillStep == HInv /\ PreLaunchKill => HInv'
<1> SUFFICES ASSUME HInv, PreLaunchKill PROVE HInv'
  OBVIOUS
<1>1. proc \in [Proc -> ProcState]
  BY DEF HInv, LockTypeOK, ProcState
<1>2. Calmer(proc, proc') /\ (pc' = "wipe" => \A p \in Proc : proc'[p] # "neard")
  <2>1. CASE proc' = Killed(proc, ByName)
    <3>1. \A p \in Proc : proc'[p] = "neard" => proc[p] = "neard" /\ p \notin ByName
      BY <1>1, <2>1, KilledIsCalmer DEF Calmer, Killed
    <3> QED
      BY <1>1, <2>1, <3>1, KilledIsCalmer DEF ByName
  <2>2. CASE pc' = "cleanup" /\ proc' = proc
    BY <1>1, <2>2 DEF Calmer
  <2> QED
    BY <2>1, <2>2 DEF PreLaunchKill
<1>3. \A n \in Node : (Fleet(n) /\ Inodes(n) /\ Linked(n) /\ Handed(n))'
  BY <1>2, CalmStep DEF PreLaunchKill, BenchPhase
<1>4. (LockTypeOK /\ Phases /\ PanicExplained)'
  BY <1>2 DEF PreLaunchKill, HInv, LockTypeOK, Phases, PanicExplained, Calmer, ProcState,
              BenchPhase, locks, witness
<1> QED
  BY <1>3, <1>4 DEF HInv

\* The steps that only move the harness on.
LEMMA QuietStep == HInv /\ (SetupFails \/ GatePass \/ Finish) => HInv'
<1> SUFFICES ASSUME HInv, SetupFails \/ GatePass \/ Finish PROVE HInv'
  OBVIOUS
<1>1. /\ UNCHANGED <<launch, next, printed, proc, locks, witness>>
      /\ pc' \in {"exit", "cleanup", "rkill", "measure"}
      /\ pc' = "rkill" => launch = 1 /\ pc = "gate"
      /\ pc' = "measure" => pc = "gate"
  BY DEF SetupFails, GatePass, Finish
<1>2. Calmer(proc, proc')
  BY <1>1 DEF HInv, LockTypeOK, Calmer, ProcState
<1>3. \A n \in Node : (Fleet(n) /\ Inodes(n) /\ Linked(n) /\ Handed(n))'
  BY <1>1, <1>2, CalmStep DEF BenchPhase
<1>4. (LockTypeOK /\ Phases /\ PanicExplained)'
  BY <1>1 DEF HInv, LockTypeOK, Phases, PanicExplained, BenchPhase, locks, witness
<1> QED
  BY <1>3, <1>4 DEF HInv

LEMMA KillStep == HInv /\ (RestartPkill \/ Cleanup \/ ExitBench \/ Crash) => HInv'
<1> SUFFICES ASSUME HInv, RestartPkill \/ Cleanup \/ ExitBench \/ Crash PROVE HInv'
  OBVIOUS
<1>1. proc \in [Proc -> ProcState]
  BY DEF HInv, LockTypeOK, ProcState
<1>2. Calmer(proc, proc')
  <2>1. CASE RestartPkill
    <3>1. Calmer(proc, Reaped(proc)) /\ Reaped(proc) \in [Proc -> ProcState]
      BY <1>1, ReapedIsCalmer DEF Calmer
    <3>2. Calmer(Reaped(proc), proc')
      BY <2>1, <3>1, KilledIsCalmer DEF RestartPkill, Calmer
    <3> QED
      BY <1>1, <3>1, <3>2, CalmerTwice DEF Calmer
  <2>2. CASE Cleanup
    BY <1>1, <2>2, KilledIsCalmer DEF Cleanup
  <2>3. CASE ExitBench
    <3>1. Calmer(proc, Killed(proc, ByName)) /\ Killed(proc, ByName) \in [Proc -> ProcState]
      BY <1>1, KilledIsCalmer DEF Calmer
    <3>2. CASE proc' = Orphaned(Killed(proc, ByName))
      <4>1. Calmer(Killed(proc, ByName), proc')
        BY <3>1, <3>2, OrphanedIsCalmer
      <4> QED
        BY <1>1, <3>1, <4>1, CalmerTwice DEF Calmer
    <3>3. CASE proc' = Orphaned(proc)
      BY <1>1, <3>3, OrphanedIsCalmer
    <3> QED
      BY <2>3, <3>2, <3>3 DEF ExitBench
  <2>4. CASE Crash
    BY <1>1, <2>4, OrphanedIsCalmer DEF Crash
  <2> QED
    BY <2>1, <2>2, <2>3, <2>4
<1>3. /\ UNCHANGED <<launch, next, printed, locks, witness>>
      /\ pc' \in {"rwait", "cleanup", "pkill", "exit", "crashed"}
      /\ pc' = "rwait" => pc = "rpkill"
  BY DEF RestartPkill, Cleanup, ExitBench, Crash
<1>4. \A n \in Node : (Fleet(n) /\ Inodes(n) /\ Linked(n) /\ Handed(n))'
  BY <1>2, <1>3, CalmStep DEF BenchPhase
<1>5. (LockTypeOK /\ Phases /\ PanicExplained)'
  BY <1>2, <1>3 DEF HInv, LockTypeOK, Phases, PanicExplained, BenchPhase, locks, witness,
                    Calmer, ProcState
<1> QED
  BY <1>4, <1>5 DEF HInv

\* The wipe and the line before the first launch: there is no neard.
LEMMA WipeStep == HInv /\ (Wipe \/ PrintLine) => HInv'
<1> SUFFICES ASSUME HInv, Wipe \/ PrintLine PROVE HInv'
  OBVIOUS
<1>1. /\ UNCHANGED <<next, proc, holds, timedOut, unlinkFailed, panicked>>
      /\ pc \in {"wipe", "line"} /\ launch = 0 /\ next = 0
      /\ \/ pc' = "line" /\ launch' = 0
         \/ pc' = "launch" /\ launch' = 1
  BY DEF Wipe, PrintLine, locks, witness, HInv, Phases
<1>2. \A n \in Node : lockFile'[n] = None
  BY DEF Wipe, PrintLine, locks, HInv, Inodes
<1>3. (LockTypeOK /\ Phases /\ PanicExplained)'
  <2>1. lockFile' \in [Node -> Launch \cup {None}] /\ slow' \in BOOLEAN
    BY DEF Wipe, PrintLine, locks, witness, HInv, LockTypeOK
  <2>2. printed' \in BOOLEAN
    BY DEF Wipe, PrintLine, HInv, LockTypeOK
  <2> QED
    BY <1>1, <2>1, <2>2 DEF HInv, LockTypeOK, Phases, PanicExplained, BenchPhase, Launch
<1>4. ASSUME NEW n \in Node PROVE (Fleet(n) /\ Inodes(n) /\ Linked(n) /\ Handed(n))'
  <2>1. Fleet(n) /\ Inodes(n)
    BY DEF HInv
  <2>2. /\ proc[<<n, 1>>] = "none" /\ proc[<<n, 2>>] = "none"
        /\ holds[<<n, 1>>] = None /\ holds[<<n, 2>>] = None
    BY <1>1, <2>1, ProcIsPair DEF Fleet, Inodes
  <2>3. ASSUME NEW m \in Node PROVE proc[<<m, 2>>] = "none"
    <3>1. Fleet(m)
      BY DEF HInv
    <3> QED
      BY <1>1, <3>1, ProcIsPair DEF Fleet
  <2>4. Fleet(n)'
    BY <1>1, <2>1, <2>2 DEF Fleet, Launch
  <2>5. Inodes(n)'
    BY <1>1, <1>2, <2>1, <2>2 DEF Inodes, None
  <2>6. (Linked(n) /\ Handed(n))'
    BY <1>1, <2>2, <2>3 DEF Linked, Handed
  <2> QED
    BY <2>4, <2>5, <2>6
<1> QED
  BY <1>3, <1>4 DEF HInv

\* The restart begins: what the first launch has started dies.
LEMMA RestartKillStep == HInv /\ RestartKill => HInv'
<1> SUFFICES ASSUME HInv, RestartKill PROVE HInv'
  OBVIOUS
<1>1. /\ UNCHANGED <<next, printed, holds, lockFile, timedOut, unlinkFailed, panicked, slow>>
      /\ pc' = "rpkill" /\ launch' = 2 /\ pc = "rkill" /\ launch = 1 /\ next = 0
  BY DEF RestartKill, locks, witness, HInv, Phases
<1>2. proc \in [Proc -> ProcState]
  BY DEF HInv, LockTypeOK, ProcState
<1>3. /\ Calmer(proc, proc')
      /\ \A p \in Proc : Here(p) => proc'[p] \notin {"numactl", "neard"}
  BY <1>2, KilledIsCalmer DEF RestartKill
<1>4. (LockTypeOK /\ Phases /\ PanicExplained)'
  BY <1>1, <1>3 DEF HInv, LockTypeOK, Phases, PanicExplained, BenchPhase, Launch, Calmer, ProcState
<1>5. ASSUME NEW n \in Node PROVE (Fleet(n) /\ Inodes(n) /\ Linked(n) /\ Handed(n))'
  <2>1. Fleet(n) /\ Inodes(n) /\ Linked(n) /\ Handed(n)
    BY DEF HInv
  <2>2. \A m \in Node, i \in Launch :
          \/ proc'[<<m, i>>] = proc[<<m, i>>]
          \/ proc[<<m, i>>] \in {"numactl", "neard"} /\ proc'[<<m, i>>] = "dying"
          \/ proc[<<m, i>>] = "zombie" /\ proc'[<<m, i>>] = "none"
    BY <1>3, ProcIsPair DEF Calmer
  <2>3. proc'[<<n, 1>>] \notin {"numactl", "neard"}
    <3>1. <<n, 1>> \in Proc /\ Here(<<n, 1>>)
      BY <1>1, ProcIsPair DEF Here
    <3> QED
      BY <1>3, <3>1
  <2>4. \A m \in Node : proc'[<<m, 2>>] = "none"
    <3>1. ASSUME NEW m \in Node PROVE proc[<<m, 2>>] = "none"
      <4>1. Fleet(m)
        BY DEF HInv
      <4> QED
        BY <1>1, <4>1, ProcIsPair DEF Fleet
    <3> QED
      BY <2>2, <3>1, ProcIsPair
  <2>5. proc'[<<n, 0>>] \notin {"numactl", "neard"}
    BY <1>1, <2>1, <2>2, ProcIsPair DEF Fleet
  <2>6. Fleet(n)'
    BY <1>1, <2>3, <2>4, <2>5 DEF Fleet, Launch
  <2>7. Inodes(n)'
    BY <1>1, <2>1, <2>2 DEF Inodes
  <2>8. (Linked(n) /\ Handed(n))'
    BY <1>1, <2>1, <2>4 DEF Linked, Handed
  <2> QED
    BY <2>6, <2>7, <2>8
<1> QED
  BY <1>4, <1>5 DEF HInv

\* The wait for the locks is over: no process of the first launch has one, or
\* the harness has given up.
LEMMA WaitStep == HInv /\ (LockReleased \/ LockTimeout) => HInv'
<1> SUFFICES ASSUME HInv, LockReleased \/ LockTimeout PROVE HInv'
  OBVIOUS
<1>1. /\ UNCHANGED <<launch, next, printed, proc, holds, panicked, slow>>
      /\ pc = "rwait" /\ pc' = "launch" /\ launch = 2 /\ next = 0
      /\ timedOut => timedOut'
      /\ unlinkFailed => unlinkFailed'
      /\ \A n \in Node : lockFile'[n] \in {lockFile[n], None}
      /\ lockFile' \in [Node -> Launch \cup {None}]
      /\ timedOut' \in BOOLEAN /\ unlinkFailed' \in BOOLEAN
  <2>0. lockFile \in [Node -> Launch \cup {None}] /\ timedOut \in BOOLEAN
        /\ unlinkFailed \in BOOLEAN /\ pc = "rwait" /\ launch = 2 /\ next = 0
    BY DEF HInv, LockTypeOK, Phases, LockReleased, LockTimeout
  <2>1. CASE LockReleased
    BY <2>0, <2>1 DEF LockReleased, locks, witness
  <2>2. CASE LockTimeout
    BY <2>0, <2>2 DEF LockTimeout
  <2> QED
    BY <2>1, <2>2
<1>2. ASSUME NEW n \in Node, ~ timedOut' PROVE holds[<<n, 1>>] = None
  <2>1. LockReleased
    BY <1>2 DEF LockTimeout
  <2>2. holds[<<n, 1>>] = None \/ holds[<<n, 1>>] # lockFile[n]
    <3>1. <<n, 1>> \in Proc /\ <<n, 1>>[1] = n
      BY ProcIsPair
    <3> QED
      BY <2>1, <3>1 DEF LockReleased, Free
  <2>3. Linked(n) /\ Inodes(n)
    BY DEF HInv
  <2> QED
    BY <1>1, <2>2, <2>3 DEF Linked, Inodes
<1>3. (LockTypeOK /\ Phases /\ PanicExplained)'
  BY <1>1 DEF HInv, LockTypeOK, Phases, PanicExplained, BenchPhase
<1>4. ASSUME NEW n \in Node PROVE (Fleet(n) /\ Inodes(n) /\ Linked(n) /\ Handed(n))'
  <2>1. Fleet(n) /\ Inodes(n) /\ Handed(n)
    BY DEF HInv
  <2>2. Fleet(n)'
    BY <1>1, <2>1 DEF Fleet
  <2>3. Inodes(n)'
    BY <1>1, <2>1 DEF Inodes, None
  <2>4. Linked(n)'
    BY <1>1 DEF Linked
  <2>5. Handed(n)'
    BY <1>1, <1>2, <2>1 DEF Handed, Fleet
  <2> QED
    BY <2>2, <2>3, <2>4, <2>5
<1> QED
  BY <1>3, <1>4 DEF HInv

LEMMA ForkStep == HInv /\ Fork => HInv'
<1> SUFFICES ASSUME HInv, Fork PROVE HInv'
  OBVIOUS
<1>1. /\ UNCHANGED <<launch, printed, holds, timedOut, panicked, slow>>
      /\ pc = "launch" /\ launch \in {1, 2} /\ next \in Node
      /\ pc' = (IF next + 1 < N THEN "launch" ELSE "gate")
      /\ next' = (IF next + 1 < N THEN next + 1 ELSE 0)
      /\ lockFile \in [Node -> Launch \cup {None}] /\ unlinkFailed \in BOOLEAN
      /\ proc \in [Proc -> ProcState]
  BY DEF Fork, HInv, LockTypeOK, Phases, Launch, ProcState
<1>2. PICK ok \in BOOLEAN :
        /\ lockFile' = IF ok THEN [lockFile EXCEPT ![next] = None] ELSE lockFile
        /\ unlinkFailed' = (unlinkFailed \/ (~ ok /\ lockFile[next] # None))
  BY DEF Fork
<1>3. /\ lockFile' \in [Node -> Launch \cup {None}] /\ unlinkFailed' \in BOOLEAN
      /\ \A n \in Node : lockFile'[n] \in {lockFile[n], None}
      /\ unlinkFailed' \/ lockFile'[next] = None
      /\ unlinkFailed => unlinkFailed'
  BY <1>1, <1>2
<1>4. next' \in Node
  BY <1>1, NodesAssumption DEF Node
<1>5. /\ proc' \in [Proc -> ProcState]
      /\ \A m \in Node, i \in Launch :
           IF m = next /\ i = launch THEN proc'[<<m, i>>] = "numactl"
           ELSE \/ proc'[<<m, i>>] = proc[<<m, i>>]
                \/ proc[<<m, i>>] = "zombie" /\ proc'[<<m, i>>] = "none"
  <2>1. Reaped(proc) \in [Proc -> ProcState]
    BY <1>1, ReapedIsCalmer DEF Calmer
  <2>2. \A p \in Proc : \/ Reaped(proc)[p] = proc[p]
                        \/ proc[p] = "zombie" /\ Reaped(proc)[p] = "none"
    BY <1>1, ReapedIsCalmer
  <2>3. proc' = [Reaped(proc) EXCEPT ![<<next, launch>>] = "numactl"]
    BY DEF Fork
  <2>4. <<next, launch>> \in Proc
    BY <1>1, ProcIsPair
  <2> QED
    BY <2>1, <2>2, <2>3, <2>4, ProcIsPair DEF ProcState
<1>6. (LockTypeOK /\ Phases /\ PanicExplained)'
  BY <1>1, <1>3, <1>4, <1>5 DEF HInv, LockTypeOK, Phases, PanicExplained, BenchPhase, ProcState
<1>7. ASSUME NEW n \in Node PROVE (Fleet(n) /\ Inodes(n) /\ Linked(n) /\ Handed(n))'
  <2>1. Fleet(n) /\ Inodes(n) /\ Linked(n) /\ Handed(n)
    BY DEF HInv
  <2>2. Fleet(n)'
    <3>1. pc' = "launch" /\ n >= next' => n # next /\ n >= next
      BY <1>1 DEF Node
    <3> QED
      BY <1>1, <1>5, <2>1, <3>1, ProcIsPair DEF Fleet
  <2>3. n = next => holds[<<n, launch>>] = None
    <3>1. n = next => proc[<<n, launch>>] = "none"
      BY <1>1, <2>1 DEF Fleet, Node
    <3>2. <<n, launch>> \in Proc /\ launch \in Launch
      BY <1>1, ProcIsPair
    <3> QED
      BY <2>1, <3>1, <3>2 DEF Inodes
  <2>4. Inodes(n)'
    BY <1>1, <1>3, <1>5, <2>1, <2>3, ProcIsPair DEF Inodes, None
  <2>5. Linked(n)'
    BY <1>1, <1>2, <2>1, <2>3 DEF Linked
  <2>6. Handed(n)'
    BY <1>1, <1>3, <1>5, <2>1, ProcIsPair DEF Handed, None
  <2> QED
    BY <2>2, <2>4, <2>5, <2>6
<1> QED
  BY <1>6, <1>7 DEF HInv

LEMMA ExecStep == ASSUME NEW p \in Proc, HInv, Exec(p) PROVE HInv'
<1>1. /\ UNCHANGED <<pc, launch, next, printed, holds, lockFile>>
      /\ UNCHANGED <<timedOut, unlinkFailed, panicked, slow>>
      /\ proc[p] = "numactl" /\ proc' = [proc EXCEPT ![p] = "neard"]
  BY DEF Exec, bench, locks, witness
<1>2. PICK n0 \in Node, i0 \in Launch : p = <<n0, i0>>
  BY ProcIsPair
<1>3. /\ proc' \in [Proc -> ProcState]
      /\ \A n \in Node, i \in Launch :
           proc'[<<n, i>>] = IF n = n0 /\ i = i0 THEN "neard" ELSE proc[<<n, i>>]
  BY <1>1, <1>2, ProcIsPair DEF HInv, LockTypeOK, ProcState
<1>4. (LockTypeOK /\ Phases /\ PanicExplained)'
  BY <1>1, <1>3 DEF HInv, LockTypeOK, Phases, PanicExplained, ProcState
<1>5. ASSUME NEW n \in Node PROVE (Fleet(n) /\ Inodes(n) /\ Linked(n) /\ Handed(n))'
  <2>1. Fleet(n) /\ Inodes(n) /\ Linked(n) /\ Handed(n) /\ launch \in Launch
    BY DEF HInv, LockTypeOK
  <2>2. Fleet(n)'
    BY <1>1, <1>2, <1>3, <2>1, ProcIsPair DEF Fleet
  <2>3. Inodes(n)'
    BY <1>1, <1>2, <1>3, <2>1, ProcIsPair DEF Inodes
  <2>4. (Linked(n) /\ Handed(n))'
    BY <1>1, <1>2, <1>3, <2>1, ProcIsPair DEF Linked, Handed
  <2> QED
    BY <2>2, <2>3, <2>4
<1> QED
  BY <1>4, <1>5 DEF HInv

\* A process gone leaves no lock behind.
LEMMA TerminateStep == ASSUME NEW p \in Proc, HInv, Terminate(p) PROVE HInv'
<1>1. /\ UNCHANGED <<pc, launch, next, printed, lockFile>>
      /\ UNCHANGED <<timedOut, unlinkFailed, panicked, slow>>
      /\ proc[p] = "dying" /\ proc' = [proc EXCEPT ![p] = Gone(p)]
      /\ holds' = [holds EXCEPT ![p] = None]
  BY DEF Terminate, bench, witness
<1>2. PICK n0 \in Node, i0 \in Launch : p = <<n0, i0>>
  BY ProcIsPair
<1>3. Gone(p) \in {"zombie", "none"}
  BY DEF Gone
<1>4. /\ proc' \in [Proc -> ProcState] /\ holds' \in [Proc -> Launch \cup {None}]
      /\ \A n \in Node, i \in Launch :
           IF n = n0 /\ i = i0
           THEN holds'[<<n, i>>] = None /\ proc'[<<n, i>>] \in {"zombie", "none"}
           ELSE holds'[<<n, i>>] = holds[<<n, i>>] /\ proc'[<<n, i>>] = proc[<<n, i>>]
  BY <1>1, <1>2, <1>3, ProcIsPair DEF HInv, LockTypeOK, ProcState
<1>5. (LockTypeOK /\ Phases /\ PanicExplained)'
  BY <1>1, <1>4 DEF HInv, LockTypeOK, Phases, PanicExplained, ProcState
<1>6. ASSUME NEW n \in Node PROVE (Fleet(n) /\ Inodes(n) /\ Linked(n) /\ Handed(n))'
  <2>1. Fleet(n) /\ Inodes(n) /\ Linked(n) /\ Handed(n) /\ launch \in Launch
    BY DEF HInv, LockTypeOK
  <2>2. Fleet(n)'
    BY <1>1, <1>2, <1>4, <2>1, ProcIsPair DEF Fleet
  <2>3. Inodes(n)'
    BY <1>1, <1>2, <1>4, <2>1, ProcIsPair DEF Inodes
  <2>4. Linked(n)'
    BY <1>1, <1>4, <2>1, ProcIsPair DEF Linked
  <2>5. Handed(n)'
    BY <1>1, <1>2, <1>4, <2>1, ProcIsPair DEF Handed
  <2> QED
    BY <2>2, <2>3, <2>4, <2>5
<1> QED
  BY <1>5, <1>6 DEF HInv

\* The opener is of the launch under way.  It finds a lock held only if it is
\* the second neard of its node on the file of the first.
LEMMA OpenStep == ASSUME NEW p \in Proc, HInv, Open(p) PROVE HInv'
<1>1. PICK n0 \in Node, i0 \in Launch : p = <<n0, i0>>
  BY ProcIsPair
<1> DEFINE inode == IF lockFile[n0] = None THEN i0 ELSE lockFile[n0]
           held == \E q \in Proc : q[1] = n0 /\ holds[q] = inode
<1>2. /\ UNCHANGED <<pc, launch, next, printed, timedOut, unlinkFailed, slow>>
      /\ proc[<<n0, i0>>] = "neard" /\ holds[<<n0, i0>>] = None
      /\ lockFile' = [lockFile EXCEPT ![n0] = inode]
      /\ \/ /\ held /\ panicked' = TRUE /\ UNCHANGED holds
            /\ proc' = [proc EXCEPT ![<<n0, i0>>] = Gone(<<n0, i0>>)]
         \/ /\ ~ held /\ UNCHANGED <<proc, panicked>>
            /\ holds' = [holds EXCEPT ![<<n0, i0>>] = inode]
  BY <1>1 DEF Open, bench
<1> HIDE DEF inode, held
<1>3. Fleet(n0) /\ Inodes(n0) /\ Linked(n0) /\ Handed(n0) /\ LockTypeOK /\ PanicExplained
  BY DEF HInv
<1>4. i0 \in {1, 2} /\ launch = i0
  <2>1. i0 # 0
    BY <1>2, <1>3 DEF Fleet
  <2>2. ~ (i0 > launch)
    BY <1>2, <1>3 DEF Fleet
  <2>3. ~ (launch = 2 /\ i0 = 1)
    BY <1>2, <1>3 DEF Fleet
  <2> QED
    BY <1>3, <2>1, <2>2, <2>3 DEF Launch, LockTypeOK
<1>5. /\ inode \in Launch /\ inode # 0 /\ inode # None /\ (i0 = 1 => inode = 1)
      /\ lockFile[n0] # None => inode = lockFile[n0]
      /\ lockFile[n0] = None => inode = i0
  BY <1>3, <1>4 DEF inode, Inodes, LockTypeOK, Launch, None
<1>6. held => holds[<<n0, 1>>] = inode /\ i0 = 2
  <2>1. ASSUME held PROVE holds[<<n0, 1>>] = inode /\ i0 = 2
    <3>1. PICK q \in Proc : q[1] = n0 /\ holds[q] = inode
      BY <2>1 DEF held
    <3>2. q = <<n0, q[2]>> /\ q[2] \in {0, 1, 2}
      BY <3>1, ProcIsPair DEF Launch
    <3>3. q[2] # 0
      BY <1>3, <1>5, <3>1, <3>2 DEF Inodes, None
    <3>4. q[2] # 2
      <4>1. CASE i0 = 2
        BY <1>2, <1>5, <3>1, <3>2, <4>1
      <4>2. CASE i0 = 1
        BY <1>3, <1>4, <1>5, <3>1, <3>2, <4>2, ProcIsPair DEF Fleet, Inodes, None
      <4> QED
        BY <1>4, <4>1, <4>2
    <3>5. q[2] # i0
      BY <1>2, <1>5, <3>1, <3>2
    <3> QED
      BY <1>4, <3>1, <3>2, <3>3, <3>4, <3>5
  <2> QED
    BY <2>1
<1>7. held => timedOut /\ unlinkFailed
  <2>1. ASSUME held PROVE timedOut /\ unlinkFailed
    <3>1. holds[<<n0, 1>>] = inode /\ i0 = 2 /\ holds[<<n0, 1>>] # None
      BY <1>5, <1>6, <2>1
    <3>2. inode = 1
      BY <1>3, <1>5, <3>1 DEF Inodes
    <3>3. lockFile[n0] = 1
      BY <1>5, <3>1, <3>2
    <3>4. proc[<<n0, 2>>] # "none"
      BY <1>2, <3>1
    <3>5. timedOut
      BY <1>3, <3>1, <3>4 DEF Handed
    <3>6. unlinkFailed
      BY <1>3, <3>3, <3>4 DEF Handed
    <3> QED
      BY <3>5, <3>6
  <2> QED
    BY <2>1
<1>8. /\ lockFile' \in [Node -> Launch \cup {None}] /\ lockFile'[n0] = inode
      /\ \A n \in Node : n # n0 => lockFile'[n] = lockFile[n]
  BY <1>2, <1>3, <1>5 DEF LockTypeOK
<1>9. /\ proc' \in [Proc -> ProcState]
      /\ \A n \in Node, i \in Launch :
           \/ proc'[<<n, i>>] = proc[<<n, i>>]
           \/ /\ n = n0 /\ i = i0 /\ i0 = 2
              /\ proc'[<<n, i>>] \in {"zombie", "none"}
  <2>1. Gone(<<n0, i0>>) \in {"zombie", "none"}
    BY DEF Gone
  <2>2. proc \in [Proc -> ProcState]
    BY <1>3 DEF LockTypeOK, ProcState
  <2>3. CASE ~ held
    BY <1>2, <2>2, <2>3
  <2>4. CASE held
    BY <1>2, <1>6, <2>1, <2>2, <2>4, ProcIsPair DEF ProcState
  <2> QED
    BY <2>3, <2>4
<1>10. /\ holds' \in [Proc -> Launch \cup {None}]
       /\ \A n \in Node, i \in Launch :
            \/ holds'[<<n, i>>] = holds[<<n, i>>]
            \/ /\ n = n0 /\ i = i0 /\ holds'[<<n, i>>] = inode
               /\ proc'[<<n, i>>] = "neard"
  <2>1. holds \in [Proc -> Launch \cup {None}]
    BY <1>3 DEF LockTypeOK
  <2>2. CASE held
    BY <1>2, <2>1, <2>2
  <2>3. CASE ~ held
    BY <1>2, <1>5, <2>1, <2>3, ProcIsPair
  <2> QED
    BY <2>2, <2>3
<1>11. (LockTypeOK /\ Phases /\ PanicExplained)'
  <2>1. panicked' = panicked \/ (panicked' = TRUE /\ timedOut /\ unlinkFailed)
    BY <1>2, <1>7
  <2>2. /\ panicked \in BOOLEAN /\ timedOut \in BOOLEAN /\ unlinkFailed \in BOOLEAN
        /\ slow \in BOOLEAN
    BY <1>3 DEF LockTypeOK
  <2>3. panicked' \in BOOLEAN
    BY <2>1, <2>2
  <2>4. PanicExplained'
    BY <1>2, <1>3, <2>1 DEF PanicExplained
  <2> QED
    BY <1>2, <1>3, <1>8, <1>9, <1>10, <2>2, <2>3, <2>4 DEF HInv, LockTypeOK, Phases, ProcState
<1>12. ASSUME NEW n \in Node PROVE (Fleet(n) /\ Inodes(n) /\ Linked(n) /\ Handed(n))'
  <2>1. Fleet(n) /\ Inodes(n) /\ Linked(n) /\ Handed(n)
    BY DEF HInv
  <2>2. pc \notin {"wipe", "line"} /\ (i0 = 2 => pc \notin {"rpkill", "rwait"})
    BY <1>2, <1>3, <1>4 DEF HInv, Phases, Fleet
  <2>3. i0 = 2 => /\ holds'[<<n, 1>>] = holds[<<n, 1>>]
                  /\ launch = 2
    BY <1>4, <1>10, ProcIsPair
  <2>4. Fleet(n)'
    <3>1. \A i \in Launch : i > launch => proc'[<<n, i>>] = "none"
      BY <1>4, <1>9, <2>1 DEF Fleet, Launch
    <3>2. pc = "launch" /\ n >= next => proc'[<<n, launch>>] = "none"
      BY <1>2, <1>3, <1>4, <1>9, <2>1, ProcIsPair DEF Fleet
    <3>3. proc'[<<n, 0>>] = proc[<<n, 0>>] /\ proc'[<<n, 1>>] = proc[<<n, 1>>]
      BY <1>9, ProcIsPair
    <3>4. holds'[<<n, 0>>] = holds[<<n, 0>>]
      BY <1>4, <1>10, ProcIsPair
    <3>5. pc \in {"rpkill", "rwait"} => proc'[<<n, 2>>] = "none"
      BY <1>9, <2>1, <2>2, ProcIsPair DEF Fleet
    <3> QED
      BY <1>2, <1>4, <2>1, <2>2, <3>1, <3>2, <3>3, <3>4, <3>5 DEF Fleet
  <2>5. Inodes(n)'
    <3>1. \A i \in Launch : holds'[<<n, i>>] # None => proc'[<<n, i>>] \in {"neard", "dying"}
      <4>1. ASSUME NEW i \in Launch, holds'[<<n, i>>] # None
            PROVE  proc'[<<n, i>>] \in {"neard", "dying"}
        <5>1. CASE holds'[<<n, i>>] = holds[<<n, i>>]
          BY <1>2, <1>9, <2>1, <4>1, <5>1 DEF Inodes
        <5>2. CASE holds'[<<n, i>>] # holds[<<n, i>>]
          BY <1>10, <4>1, <5>2
        <5> QED
          BY <5>1, <5>2
      <4> QED
        BY <4>1
    <3>2. holds'[<<n, 0>>] \in {None, 0} /\ holds'[<<n, 1>>] \in {None, 1}
      BY <1>4, <1>5, <1>10, <2>1, ProcIsPair DEF Inodes
    <3>3. launch # 0 => lockFile'[n] # 0
      BY <1>5, <1>8, <2>1 DEF Inodes
    <3>4. launch = 1 => lockFile'[n] # 2
      BY <1>4, <1>5, <1>8, <2>1 DEF Inodes
    <3> QED
      BY <1>2, <2>2, <3>1, <3>2, <3>3, <3>4 DEF Inodes
  <2>6. Linked(n)'
    BY <1>2, <1>4, <1>5, <1>8, <1>10, <2>1, <2>2, ProcIsPair DEF Linked
  <2>7. Handed(n)'
    <3>1. \A m \in Node : proc'[<<m, 2>>] # "none" => proc[<<m, 2>>] # "none"
      BY <1>2, <1>9, ProcIsPair
    <3>2. CASE i0 = 2
      <4>1. ~ unlinkFailed /\ proc[<<n, 2>>] # "none" => lockFile'[n] # 1
        BY <1>5, <1>8, <2>1, <3>2 DEF Handed, None
      <4> QED
        BY <1>2, <2>1, <2>3, <3>1, <3>2, <4>1 DEF Handed
    <3>3. CASE i0 = 1
      <4>1. \A m \in Node : proc[<<m, 2>>] = "none"
        <5>1. ASSUME NEW m \in Node PROVE proc[<<m, 2>>] = "none"
          <6>1. Fleet(m)
            BY DEF HInv
          <6> QED
            BY <1>4, <3>3, <6>1, ProcIsPair DEF Fleet
        <5> QED
          BY <5>1
      <4> QED
        BY <1>2, <1>4, <3>1, <3>3, <4>1 DEF Handed
    <3> QED
      BY <1>4, <3>2, <3>3
  <2> QED
    BY <2>4, <2>5, <2>6, <2>7
<1> QED
  BY <1>11, <1>12 DEF HInv

LEMMA HStep == HInv /\ [LockNext]_lockVars => HInv'
<1> SUFFICES ASSUME HInv, [LockNext]_lockVars PROVE HInv'
  OBVIOUS
<1>1. CASE PreLaunchKill
  BY <1>1, PreLaunchKillStep
<1>2. CASE SetupFails \/ GatePass \/ Finish
  BY <1>2, QuietStep
<1>3. CASE RestartPkill \/ Cleanup \/ ExitBench \/ Crash
  BY <1>3, KillStep
<1>4. CASE Wipe \/ PrintLine
  BY <1>4, WipeStep
<1>5. CASE Fork
  BY <1>5, ForkStep
<1>6. CASE RestartKill
  BY <1>6, RestartKillStep
<1>7. CASE LockReleased \/ LockTimeout
  BY <1>7, WaitStep
<1>8. ASSUME NEW p \in Proc, ProcessStep(p) PROVE HInv'
  <2>1. CASE Exec(p)
    BY <2>1, ExecStep
  <2>2. CASE Open(p)
    BY <2>2, OpenStep
  <2>3. CASE Terminate(p)
    BY <2>3, TerminateStep
  <2> QED
    BY <1>8, <2>1, <2>2, <2>3 DEF ProcessStep
<1>9. CASE UNCHANGED lockVars
  <2>1. /\ UNCHANGED <<pc, launch, next, printed, proc, holds, lockFile>>
        /\ UNCHANGED <<timedOut, unlinkFailed, panicked, slow>>
    BY <1>9 DEF lockVars, bench, locks, witness
  <2>2. (LockTypeOK /\ Phases /\ PanicExplained)'
    BY <2>1 DEF HInv, LockTypeOK, Phases, PanicExplained
  <2>3. ASSUME NEW n \in Node PROVE (Fleet(n) /\ Inodes(n) /\ Linked(n) /\ Handed(n))'
    BY <2>1 DEF HInv, Fleet, Inodes, Linked, Handed
  <2> QED
    BY <2>2, <2>3 DEF HInv
<1> QED
  BY <1>1, <1>2, <1>3, <1>4, <1>5, <1>6, <1>7, <1>8, <1>9 DEF LockNext, BenchStep

-----------------------------------------------------------------------------
(* The theorems about the hand-over.                                       *)

\* The invariant of the hand-over: which processes, locks and LOCK files there
\* may be in every phase of run_benchmark.py's launch and restart.
THEOREM HandoverInvariant == LockSpec => []HInv
BY HInit, HStep, PTL DEF LockSpec

\* Every variable stays in its type, whatever the number of nodes.
THEOREM LockTypes == LockSpec => []LockTypeOK
<1>1. HInv => LockTypeOK
  BY DEF HInv
<1> QED
  BY <1>1, HandoverInvariant, PTL

\* Two processes have the database of a node open together only after
\* wait_for_lock_release has run into its time-out.
THEOREM OneHolder == LockSpec => []OneDatabaseHolder
<1>1. HInv => OneDatabaseHolder
  <2> SUFFICES ASSUME HInv, NEW p \in Proc, NEW q \in Proc, SameDatabase(p, q),
                      holds[p] # None, holds[q] # None, p # q, ~ timedOut
               PROVE  FALSE
    BY DEF OneDatabaseHolder
  <2>1. /\ p[1] \in Node /\ p = <<p[1], p[2]>> /\ q = <<p[1], q[2]>>
        /\ p[2] \in Launch /\ q[2] \in Launch /\ p[2] # q[2]
        /\ (p[2] = 0 <=> q[2] = 0)
    BY ProcIsPair DEF SameDatabase, Mine
  <2>2. holds[<<p[1], 1>>] # None /\ holds[<<p[1], 2>>] # None
    BY <2>1 DEF Launch
  <2>3. Inodes(p[1]) /\ Handed(p[1])
    BY <2>1 DEF HInv
  <2>4. proc[<<p[1], 2>>] # "none"
    BY <2>2, <2>3, ProcIsPair DEF Inodes
  <2> QED
    BY <2>1, <2>2, <2>3, <2>4 DEF Handed
<1> QED
  BY <1>1, HandoverInvariant, PTL

\* A neard panics at a held LOCK only if the restart gave up waiting for it and
\* could not unlink the file.
THEOREM PanicIsExplained == LockSpec => []PanicExplained
<1>1. HInv => PanicExplained
  BY DEF HInv
<1> QED
  BY <1>1, HandoverInvariant, PTL

-----------------------------------------------------------------------------
(* The composition does not disturb the hand-over.                         *)

\* A step of the script or of the monitor.
GateStep ==
  ScriptStep \/ MonitorStep \/ PgrepFails \/ MonitorKilled \/ Over

LEMMA GateLeavesLocks == GateStep => UNCHANGED lockVars
  BY DEF GateStep, ScriptStep, TeeOpens, TeeCopies, GrepFinds, WaitBench, WaitMonitor, GrepGivesUp,
     MonitorStep, MonitorFinds, MonitorAbsent, Sample, WriteFile, PgrepFails, MonitorKilled, Over, vars

LEMMA TwoKinds ==
  [Next]_vars => \/ LockNext /\ UNCHANGED <<gate, monitor, onStale>>
                 \/ GateStep
                 \/ UNCHANGED vars
  BY DEF Next, GateStep

\* Beside the script and the monitor the benchmark and its nodes do what they do
\* alone, so that every theorem about the hand-over holds of the composition.
THEOREM GateKeepsHandover == Spec => LockSpec
<1>1. Init => LockInit
  BY DEF Init
<1>2. [Next]_vars => [LockNext]_lockVars
  BY TwoKinds, GateLeavesLocks DEF vars
<1> QED
  BY <1>1, <1>2, PTL DEF Spec, LockSpec

-----------------------------------------------------------------------------
(* What the monitor can see.                                               *)

\* The line comes with the first launch, and nobody but a stale log starts the
\* monitor before it.
Told ==
  /\ printed => launch # 0
  /\ log = "line" => printed
  /\ mon # "off" => onStale \/ printed
  /\ script = "grep" => mon = "off"

\* The leftovers are gone when the databases have been wiped, unless one was
\* still dying then.
Cleaned ==
  \A n \in Node : /\ proc[<<n, 0>>] # "zombie"
                  /\ (pc = "line" \/ launch # 0) /\ ~ slow => proc[<<n, 0>>] = "none"

\* A monitor that has seen a process of the current launch goes on seeing one, and
\* the first it has ever seen was one of the run unless there were leftovers.
Watching ==
  /\ seen \subseteq 1 .. launch
  /\ mon \in {"off", "wait"} => seen = {}
  /\ mon \in {"loop", "ended"} => seen # {} \/ onStale \/ slow
  /\ Running /\ launch \in seen =>
       /\ mon = "loop" => \E p \in Proc : Visible(p) /\ p[2] = launch
       /\ mon # "ended"

MInv == Told /\ Cleaned /\ Watching

LEMMA MInit == Init => MInv
<1> SUFFICES ASSUME Init PROVE MInv
  OBVIOUS
<1>1. pc = "prekill" /\ launch = 0 /\ printed = FALSE
  BY DEF Init, LockInit
<1>2. \A p \in Proc : proc[p] \in {"none", "neard"}
  BY DEF Init, LockInit
<1> QED
  BY <1>1, <1>2, ProcIsPair DEF Init, MInv, Told, Cleaned, Watching

\* The harness counts launches up and prints the line with the first.
LEMMA Counters ==
  ASSUME HInv, LockNext
  PROVE  /\ \/ launch' = launch
            \/ launch = 0 /\ launch' = 1 /\ pc = "line" /\ printed'
            \/ launch = 1 /\ launch' = 2
         /\ printed' => printed \/ launch' # 0
         /\ printed => printed'
         /\ Wipe \/ (slow' = slow /\ (pc' = "line" => pc = "line"))
         /\ Running' => Running
<1> USE DEF HInv, Phases, bench, witness, Running
<1>1. CASE PreLaunchKill \/ SetupFails \/ Finish \/ GatePass
  BY <1>1 DEF PreLaunchKill, SetupFails, Finish, GatePass
<1>2. CASE Wipe
  <2>1. pc = "wipe" /\ launch' = launch /\ printed' = printed
    BY <1>2 DEF Wipe
  <2> QED
    BY <1>2, <2>1
<1>3. CASE PrintLine
  <2>1. /\ pc = "line" /\ pc' = "launch" /\ launch = 0 /\ launch' = 1 /\ printed' = TRUE
        /\ slow' = slow
    BY <1>3 DEF PrintLine
  <2> QED
    BY <2>1
<1>4. CASE Fork
  <2>1. UNCHANGED <<launch, printed, slow>> /\ pc = "launch" /\ pc' # "line"
    BY <1>4 DEF Fork
  <2> QED
    BY <2>1
<1>5. CASE RestartKill \/ RestartPkill \/ LockReleased \/ LockTimeout \/ Cleanup
             \/ ExitBench \/ Crash
  BY <1>5 DEF RestartKill, RestartPkill, LockReleased, LockTimeout, Cleanup, ExitBench, Crash
<1>6. CASE \E p \in Proc : ProcessStep(p)
  BY <1>6 DEF ProcessStep, Exec, Open, Terminate
<1> QED
  BY <1>1, <1>2, <1>3, <1>4, <1>5, <1>6 DEF LockNext, BenchStep

\* What a step may do to a process: exec, kill, end, reap or fork it.
Moved(p) ==
  \/ proc'[p] = proc[p]
  \/ proc[p] = "numactl" /\ proc'[p] = "neard" /\ Mine(p)
  \/ proc[p] \in {"numactl", "neard"} /\ proc'[p] = "dying"
  \/ proc[p] \in {"neard", "dying"} /\ proc'[p] = Gone(p) /\ (Running' <=> Running)
  \/ proc[p] = "zombie" /\ proc'[p] = "none" /\ (p[2] < launch \/ ~ Running')
  \/ proc[p] = "none" /\ proc'[p] = "numactl" /\ p[2] = launch /\ launch # 0

LEMMA Moves == ASSUME HInv, LockNext, NEW p \in Proc PROVE Moved(p)
<1>0. /\ proc \in [Proc -> ProcState] /\ p = <<p[1], p[2]>> /\ p[1] \in Node /\ p[2] \in Launch
      /\ launch \in Launch /\ next \in Node
  BY ProcIsPair DEF HInv, LockTypeOK, ProcState
<1>1. CASE PreLaunchKill \/ RestartKill \/ Cleanup
  BY <1>0, <1>1 DEF PreLaunchKill, RestartKill, Cleanup, Killed, Moved
<1>2. CASE SetupFails \/ Wipe \/ PrintLine \/ GatePass \/ Finish \/ LockReleased \/ LockTimeout
  <2>1. proc' = proc
    BY <1>2 DEF SetupFails, Wipe, PrintLine, GatePass, Finish, LockReleased, LockTimeout
  <2> QED
    BY <2>1 DEF Moved
<1>3. CASE Fork
  <2>1. /\ proc' = [Reaped(proc) EXCEPT ![<<next, launch>>] = "numactl"] /\ pc = "launch"
        /\ launch # 0 /\ proc[<<next, launch>>] = "none"
    <3>1. Fleet(next) /\ next >= next
      BY <1>0, NodesAssumption DEF HInv, Node
    <3> QED
      BY <1>3, <3>1 DEF Fork, HInv, Phases, Fleet
  <2>2. CASE p = <<next, launch>>
    BY <1>0, <2>1, <2>2 DEF Moved, Reaped
  <2>3. CASE p # <<next, launch>>
    BY <1>0, <2>1, <2>3 DEF Moved, Reaped
  <2> QED
    BY <2>2, <2>3
<1>4. CASE RestartPkill
  BY <1>0, <1>4 DEF RestartPkill, Killed, Reaped, Moved
<1>5. CASE ExitBench \/ Crash
  BY <1>0, <1>5 DEF ExitBench, Crash, Killed, Orphaned, Moved, Running
<1>6. ASSUME NEW q \in Proc, ProcessStep(q) PROVE Moved(p)
  <2>1. pc' = pc
    BY <1>6 DEF ProcessStep, Exec, Open, Terminate, bench
  <2>2. CASE p # q
    BY <1>0, <1>6, <2>2 DEF ProcessStep, Exec, Open, Terminate, Moved
  <2>3. CASE p = q /\ Exec(q)
    BY <1>0, <2>3 DEF Exec, Moved, Mine, HInv, Fleet
  <2>4. CASE p = q /\ (Open(q) \/ Terminate(q))
    BY <1>0, <2>1, <2>4 DEF Open, Terminate, Moved, Running
  <2> QED
    BY <1>6, <2>2, <2>3, <2>4 DEF ProcessStep
<1> QED
  BY <1>1, <1>2, <1>3, <1>4, <1>5, <1>6 DEF LockNext, BenchStep

LEMMA CleanedStep == ASSUME HInv, Cleaned, LockNext PROVE Cleaned'
<1> SUFFICES ASSUME NEW n \in Node
             PROVE  /\ proc'[<<n, 0>>] # "zombie"
                    /\ (pc' = "line" \/ launch' # 0) /\ ~ slow' => proc'[<<n, 0>>] = "none"
  BY DEF Cleaned
<1> DEFINE p == <<n, 0>>
<1>1. /\ p \in Proc /\ p[2] = 0 /\ ~ Mine(p) /\ launch \in Launch
      /\ proc[p] # "zombie" /\ ((pc = "line" \/ launch # 0) /\ ~ slow => proc[p] = "none")
  BY ProcIsPair DEF Mine, Cleaned, HInv, LockTypeOK
<1>2. /\ proc'[p] # "zombie" /\ (proc[p] = "none" => proc'[p] = "none")
  BY <1>1, Moves DEF Moved, Gone
<1>3. CASE Wipe
  <2>1. /\ pc = "wipe" /\ proc' = proc /\ (~ slow' => proc[p] # "dying")
    BY <1>1, <1>3 DEF Wipe
  <2>2. proc[p] \notin {"neard", "numactl"} /\ proc[p] \in ProcState
    BY <1>1, <2>1 DEF HInv, Fleet, LockTypeOK, ProcState
  <2> QED
    BY <1>1, <2>1, <2>2 DEF ProcState
<1>4. CASE slow' = slow /\ (pc' = "line" => pc = "line")
  BY <1>1, <1>2, <1>4, Counters
<1> QED
  BY <1>2, <1>3, <1>4, Counters

\* A process of the current launch that can be seen stays to be seen until the
\* next launch or the end of the harness.
LEMMA VisibleStays ==
  ASSUME HInv, LockNext, launch' = launch, launch # 0, Running',
         NEW p \in Proc, Visible(p), p[2] = launch
  PROVE  Visible(p)'
<1>1. Running /\ Mine(p) /\ launch \in Launch
  BY Counters DEF Mine, HInv, LockTypeOK
<1>2. proc'[p] \in {"neard", "dying", "zombie"}
  BY <1>1, Moves DEF Moved, Gone, Visible, Launch
<1> QED
  BY <1>2 DEF Visible

\* What the monitor finds has been launched by this run, unless it is a leftover.
LEMMA Found ==
  ASSUME HInv
  PROVE  /\ OwnLaunches \subseteq 1 .. launch /\ launch \in Launch
         /\ launch \in OwnLaunches => \E p \in Proc : Visible(p) /\ p[2] = launch
         /\ Told /\ Cleaned /\ ~ slow /\ ~ onStale /\ mon # "off" /\ Pids # {} => OwnLaunches # {}
<1>1. launch \in Launch
  BY DEF HInv, LockTypeOK
<1>2. ASSUME NEW p \in Pids, Mine(p) PROVE p[2] \in 1 .. launch
  <2>1. p[2] \in Launch /\ p[1] \in Node /\ p = <<p[1], p[2]>> /\ proc[p] # "none"
    BY <1>2, ProcIsPair DEF Pids, Visible
  <2>2. ~ (p[2] > launch)
    BY <2>1 DEF HInv, Fleet
  <2> QED
    BY <1>1, <1>2, <2>1, <2>2 DEF Mine, Launch
<1>3. ASSUME launch \in OwnLaunches PROVE \E p \in Proc : Visible(p) /\ p[2] = launch
  BY <1>3 DEF OwnLaunches, Pids
<1>4. ASSUME Told, Cleaned, ~ slow, ~ onStale, mon # "off", NEW p \in Pids PROVE Mine(p)
  <2>1. launch # 0 /\ p[2] \in Launch /\ p[1] \in Node /\ p = <<p[1], p[2]>>
        /\ proc[p] # "none"
    BY <1>4, ProcIsPair DEF Told, Pids, Visible
  <2> QED
    BY <1>4, <2>1 DEF Cleaned, Mine
<1> QED
  BY <1>1, <1>2, <1>3, <1>4 DEF OwnLaunches

LEMMA WatchingStep == ASSUME HInv, MInv, LockNext, UNCHANGED monitor, UNCHANGED onStale
                      PROVE  Watching'
<1>1. UNCHANGED <<mon, seen, onStale>> /\ Watching /\ Told /\ launch \in Launch
  BY DEF monitor, MInv, HInv, LockTypeOK
<1>2. launch' \in {launch, launch + 1} /\ launch' \in Launch /\ (Running' => Running)
  BY <1>1, Counters DEF Launch
<1>3. seen' \subseteq 1 .. launch'
  BY <1>1, <1>2 DEF Watching, Launch
<1>4. slow' = slow \/ (mon # "off" => onStale)
  <2>1. CASE Wipe
    <3>1. launch = 0
      BY <2>1 DEF Wipe, HInv, Phases
    <3> QED
      BY <1>1, <3>1 DEF Told
  <2> QED
    BY <2>1, Counters
<1>5. ASSUME Running', launch' \in seen'
      PROVE  (mon = "loop" => \E p \in Proc : Visible(p)' /\ p[2] = launch') /\ mon # "ended"
  <2>1. launch' = launch /\ launch # 0
    BY <1>1, <1>2, <1>5 DEF Watching, Launch
  <2>2. Running /\ launch \in seen
    BY <1>1, <1>2, <1>5, <2>1
  <2>3. mon # "ended" /\ (mon = "loop" => \E p \in Proc : Visible(p) /\ p[2] = launch)
    BY <1>1, <2>2 DEF Watching
  <2> QED
    BY <1>5, <2>1, <2>3, VisibleStays
<1> QED
  BY <1>1, <1>3, <1>4, <1>5 DEF Watching

LEMMA LookingStep == ASSUME HInv, MInv, GateStep PROVE Watching'
<1>1. UNCHANGED <<pc, launch, proc, slow>>
  BY GateLeavesLocks DEF lockVars, bench, witness
<1>2. (Running' <=> Running) /\ \A p \in Proc : Visible(p)' <=> Visible(p)
  BY <1>1 DEF Running, Visible
<1> USE DEF MInv
<1>3. CASE ScriptStep \/ Over
  <2>1. /\ seen' = seen
        /\ \/ mon' = mon /\ onStale' = onStale
           \/ mon = "off" /\ mon' = "wait"
    BY <1>3 DEF ScriptStep, TeeOpens, TeeCopies, GrepFinds, WaitBench, WaitMonitor,
       GrepGivesUp, Over, vars, gate, monitor, Told, LineFound
  <2> QED
    BY <1>1, <1>2, <2>1 DEF Watching
<1>4. CASE MonitorFinds \/ Sample
  <2>1. /\ mon' = "loop" /\ mon \in {"wait", "loop"} /\ seen' = seen \cup OwnLaunches
        /\ Pids # {} /\ onStale' = onStale
    BY <1>4 DEF MonitorFinds, Sample
  <2>2. seen' # {} \/ onStale \/ slow
    BY <2>1, Found
  <2>3. Running /\ launch \in seen' => \E p \in Proc : Visible(p) /\ p[2] = launch
    BY <2>1, Found DEF Watching
  <2>4. seen' \subseteq 1 .. launch
    BY <2>1, Found DEF Watching
  <2> QED
    BY <1>1, <1>2, <2>1, <2>2, <2>3, <2>4 DEF Watching
<1>5. CASE WriteFile
  <2>1. mon = "loop" /\ mon' = "ended" /\ UNCHANGED <<seen, onStale>> /\ Pids = {}
    BY <1>5 DEF WriteFile
  <2>2. \A p \in Proc : ~ Visible(p)
    BY <2>1 DEF Pids
  <2> QED
    BY <1>1, <1>2, <2>1, <2>2 DEF Watching
<1>6. CASE MonitorAbsent \/ PgrepFails \/ MonitorKilled
  <2>1. mon' \in {"absent", "erred", "killed"} /\ seen' \in {seen, {}}
    BY <1>6 DEF MonitorAbsent, PgrepFails, MonitorKilled
  <2> QED
    BY <1>1, <1>2, <2>1 DEF Watching
<1> QED
  BY <1>3, <1>4, <1>5, <1>6 DEF GateStep, MonitorStep

LEMMA MStep == ASSUME HInv, MInv, [Next]_vars PROVE MInv'
<1> USE DEF MInv
<1>1. CASE LockNext /\ UNCHANGED <<gate, monitor, onStale>>
  <2>1. UNCHANGED <<log, script, mon, onStale>>
    BY <1>1 DEF gate, monitor
  <2>2. Told'
    BY <1>1, <2>1, Counters DEF Told, HInv, LockTypeOK, Launch
  <2> QED
    BY <1>1, <2>2, CleanedStep, WatchingStep
<1>2. CASE GateStep
  <2>1. UNCHANGED <<pc, launch, printed, proc, slow>>
    BY <1>2, GateLeavesLocks DEF lockVars, bench, witness
  <2>2. Told'
    <3> USE DEF Told, gate, monitor
    <3>1. CASE ScriptStep
      BY <2>1, <3>1 DEF ScriptStep, TeeOpens, TeeCopies, GrepFinds, WaitBench, WaitMonitor,
         GrepGivesUp, LineFound
    <3>2. CASE MonitorStep \/ PgrepFails \/ MonitorKilled \/ Over
      BY <2>1, <3>2 DEF MonitorStep, MonitorFinds, MonitorAbsent, Sample, WriteFile,
         PgrepFails, MonitorKilled, Over, vars
    <3> QED
      BY <1>2, <3>1, <3>2 DEF GateStep
  <2> QED
    BY <1>2, <2>1, <2>2, LookingStep DEF Cleaned
<1>3. CASE UNCHANGED vars
  BY <1>3 DEF vars, lockVars, bench, witness, gate, monitor, Told, Cleaned, Watching,
     Visible, Running
<1> QED
  BY <1>1, <1>2, <1>3, TwoKinds

\* The invariants of the hand-over and of what the monitor can see.
THEOREM MonitorInvariant == Spec => [](HInv /\ MInv)
<1>1. Init => MInv
  BY MInit
<1>2. HInv /\ MInv /\ [Next]_vars => MInv'
  BY MStep
<1> QED
  BY <1>1, <1>2, GateKeepsHandover, HandoverInvariant, PTL DEF Spec

\* A monitor that finds no process while a measurement goes on has never seen one
\* of the launch that is measured, however many nodes there are: it fell into the
\* gap before the restart, was started on a stale line, or had only leftovers to
\* look at.
THEOREM MonitorCovers == Spec => []MonitorCoversMeasurement
<1>1. HInv /\ MInv => MonitorCoversMeasurement
  <2> SUFFICES ASSUME HInv, MInv, pc = "measure", mon = "ended"
               PROVE  launch \notin seen /\ ((launch = 2 /\ 1 \in seen) \/ onStale \/ slow)
    BY DEF MonitorCoversMeasurement
  <2>1. launch \notin seen /\ seen \subseteq 1 .. launch /\ launch \in {1, 2}
    BY DEF MInv, Watching, Running, HInv, Phases, LockTypeOK, Launch
  <2>2. seen # {} => launch = 2 /\ 1 \in seen
    <3>1. ASSUME NEW i \in seen PROVE launch = 2 /\ i = 1
      BY <2>1, <3>1
    <3> QED
      BY <3>1
  <2> QED
    BY <2>1, <2>2 DEF MInv, Watching
<1> QED
  BY <1>1, MonitorInvariant, PTL

-----------------------------------------------------------------------------
(* The series of a monitor.                                                *)

\* Samples never go back to an earlier launch, whatever answers in between.
Rising(s) ==
  /\ s \in Seq(Launch \cup {None})
  /\ \A i \in 1 .. Len(s) : s[i] <= launch
  /\ \A i, j \in 1 .. Len(s) : i <= j /\ s[j] # None => s[i] <= s[j]

SInv == Rising(samples)

\* Only nodes of the current launch answer.
LEMMA AnswersOfNow == HInv => Answering \subseteq {launch} /\ launch \in Launch
<1> SUFFICES ASSUME HInv, NEW q \in Proc, q[1] = 0, proc[q] = "neard" PROVE q[2] = launch
  BY DEF Answering, HInv, LockTypeOK
<1>1. /\ q[2] \in Launch /\ q = <<0, q[2]>> /\ 0 \in Node /\ launch \in Launch
  BY ProcIsPair DEF HInv, LockTypeOK
<1>2. Fleet(0)
  BY <1>1 DEF HInv
<1>3. ~ (q[2] > launch)
  BY <1>1, <1>2 DEF Fleet
<1> QED
  BY <1>1, <1>2, <1>3 DEF Fleet, Launch

LEMMA RisingAppend ==
  ASSUME NEW s, Rising(s), NEW v \in {launch, None}, launch \in Launch
  PROVE  Rising(Append(s, v))
<1>1. s \in Seq(Launch \cup {None}) /\ v \in Launch \cup {None}
  BY DEF Rising
<1>2. \A i \in 1 .. Len(s) : s[i] \in Launch \cup {None}
  BY <1>1
<1>3. /\ Append(s, v) \in Seq(Launch \cup {None}) /\ Len(Append(s, v)) = Len(s) + 1
      /\ \A i \in 1 .. Len(s) : Append(s, v)[i] = s[i]
      /\ Append(s, v)[Len(s) + 1] = v
      /\ \A i \in 1 .. Len(s) + 1 : i \in 1 .. Len(s) \/ i = Len(s) + 1
  BY <1>1
<1> HIDE <1>1
<1>4. \A i \in 1 .. Len(s) + 1 : Append(s, v)[i] <= launch
  BY <1>3 DEF Rising, Launch, None
<1>5. ASSUME NEW i \in 1 .. Len(s) + 1, NEW j \in 1 .. Len(s) + 1, i <= j,
             Append(s, v)[j] # None
      PROVE  Append(s, v)[i] <= Append(s, v)[j]
  <2>1. CASE j = Len(s) + 1
    BY <1>3, <1>4, <1>5, <2>1
  <2>2. CASE j \in 1 .. Len(s)
    BY <1>3, <1>5, <2>2 DEF Rising
  <2> QED
    BY <1>3, <2>1, <2>2
<1> QED
  BY <1>3, <1>4, <1>5 DEF Rising

LEMMA RisingStays ==
  ASSUME NEW s, Rising(s), launch \in Launch, launch' \in Launch, launch <= launch'
  PROVE  /\ s \in Seq(Launch \cup {None})
         /\ \A i \in 1 .. Len(s) : s[i] <= launch'
<1>1. \A i \in 1 .. Len(s) : s[i] \in Launch \cup {None}
  BY DEF Rising
<1> QED
  BY <1>1 DEF Rising, Launch, None

LEMMA RisingEmpty == Rising(<<>>)
  BY DEF Rising

LEMMA SStep == ASSUME HInv, HInv', SInv, [Next]_vars PROVE SInv'
<1>0. launch \in Launch /\ launch' \in Launch
  BY DEF HInv, LockTypeOK
<1>1. CASE LockNext /\ UNCHANGED <<gate, monitor, onStale>>
  <2>1. launch <= launch' /\ UNCHANGED samples
    BY <1>0, <1>1, Counters DEF Launch, monitor
  <2>2. \A s : Rising(s) => \A i \in 1 .. Len(s) : s[i] <= launch'
    BY <1>0, <2>1, RisingStays
  <2> QED
    BY <2>1, <2>2 DEF SInv, Rising
<1>2. CASE GateStep
  <2>1. launch' = launch
    BY <1>2, GateLeavesLocks DEF lockVars, bench
  <2>2. CASE Sample
    <3>1. PICK v \in Answering \cup {None} :
            samples' = IF Len(samples) < MaxSamples THEN Append(samples, v) ELSE samples
      BY <2>2 DEF Sample
    <3>2. v \in {launch, None}
      BY AnswersOfNow
    <3>3. Rising(samples')
      BY <1>0, <3>1, <3>2, RisingAppend DEF SInv
    <3> QED
      BY <2>1, <3>3 DEF SInv, Rising
  <2>3. CASE ~ Sample
    <3>1. samples' \in {samples, <<>>}
      BY <1>2, <2>3 DEF GateStep, ScriptStep, TeeOpens, TeeCopies, GrepFinds, WaitBench, WaitMonitor,
         GrepGivesUp, MonitorStep, MonitorFinds, MonitorAbsent, WriteFile, PgrepFails, MonitorKilled, Over,
         vars, monitor
    <3>2. Rising(samples')
      BY <3>1, RisingEmpty DEF SInv
    <3> QED
      BY <2>1, <3>2 DEF SInv, Rising
  <2> QED
    BY <2>2, <2>3
<1>3. CASE UNCHANGED vars
  BY <1>3 DEF vars, lockVars, bench, monitor, SInv, Rising
<1> QED
  BY <1>1, <1>2, <1>3, TwoKinds

\* The invariants of the hand-over and of the samples.
THEOREM SeriesInvariant == Spec => [](HInv /\ SInv)
<1>1. Init => SInv
  BY RisingEmpty DEF Init, SInv
<1>2. HInv /\ HInv' /\ SInv /\ [Next]_vars => SInv'
  BY SStep
<1> QED
  BY <1>1, <1>2, GateKeepsHandover, HandoverInvariant, PTL DEF Spec

\* The window starts where 40 % of the samples, rounded up, have been discarded.
LEMMA SteadyWindow ==
  ASSUME NEW S, NEW s \in Seq(S)
  PROVE  \E d \in Nat :
           /\ 5 * d >= 2 * Len(s)
           /\ \A i \in DOMAIN steady(s) : i \in Nat \ {0} /\ d + i \in 1 .. Len(s)
                                          /\ steady(s)[i] = s[d + i]
<1> DEFINE d == (2 * Len(s) + 4) \div 5
<1>1. Len(s) \in Nat /\ d \in Nat /\ 5 * d >= 2 * Len(s)
  OBVIOUS
<1> HIDE DEF d
<1>2. \A i \in d + 1 .. Len(s) : s[i] \in S
  BY <1>1
<1>3. /\ steady(s) \in Seq(S)
      /\ Len(steady(s)) = IF d + 1 <= Len(s) THEN Len(s) - (d + 1) + 1 ELSE 0
      /\ \A i \in 1 .. Len(s) - (d + 1) + 1 : steady(s)[i] = s[d + 1 + i - 1]
  <2>1. steady(s) = SubSeq(s, d + 1, Len(s))
    BY DEF steady, d
  <2> QED
    BY <1>1, <1>2, <2>1, SubSeqProperties
<1>4. DOMAIN steady(s) = 1 .. Len(steady(s))
  BY <1>3
<1>5. ASSUME NEW i \in DOMAIN steady(s)
      PROVE  i \in Nat \ {0} /\ d + i \in 1 .. Len(s) /\ steady(s)[i] = s[d + i]
  <2>1. Len(steady(s)) \in Nat /\ i \in 1 .. Len(steady(s))
    BY <1>3, <1>4
  <2> HIDE <1>4
  <2>2. d + 1 <= Len(s) /\ i \in 1 .. Len(s) - (d + 1) + 1
    BY <1>1, <1>3, <2>1
  <2>3. d + 1 + i - 1 = d + i /\ d + i \in 1 .. Len(s) /\ i \in Nat \ {0}
    BY <1>1, <2>2
  <2>4. steady(s)[i] = s[d + 1 + i - 1]
    BY <1>3, <2>2
  <2> QED
    BY <2>3, <2>4
<1> QED
  BY <1>1, <1>5

\* The deltas over the steady window mix two launches only if more samples than
\* the analyzer discards come before the first of the last launch, for files of
\* any length.
THEOREM DeltasStayInALaunch == Spec => []DeltasOfOneLaunch
<1>1. HInv /\ SInv => DeltasOfOneLaunch
  <2> SUFFICES ASSUME HInv, SInv, CrossesReset(steady(samples))
               PROVE  5 * (Cardinality(Before) - 1) >= 2 * Len(samples)
    BY DEF DeltasOfOneLaunch
  <2>1. /\ samples \in Seq(Launch \cup {None}) /\ launch \in Launch /\ Len(samples) \in Nat
        /\ \A k \in 1 .. Len(samples) : samples[k] \in Launch \cup {None}
    BY DEF SInv, Rising, HInv, LockTypeOK
  <2>2. PICK d \in Nat :
          /\ 5 * d >= 2 * Len(samples)
          /\ \A i \in DOMAIN steady(samples) :
               /\ i \in Nat \ {0} /\ d + i \in 1 .. Len(samples)
               /\ steady(samples)[i] = samples[d + i]
    BY <2>1, SteadyWindow
  <2>3. PICK i, j \in Known(steady(samples)) :
          i <= j /\ steady(samples)[i] # steady(samples)[j]
    BY DEF CrossesReset
  <2>4. /\ i \in Nat \ {0} /\ j \in Nat \ {0} /\ i <= j
        /\ d + i \in 1 .. Len(samples) /\ d + j \in 1 .. Len(samples)
        /\ samples[d + i] # None /\ samples[d + j] # None /\ samples[d + i] # samples[d + j]
    BY <2>2, <2>3 DEF Known
  <2>5. samples[d + i] <= samples[d + j] /\ samples[d + j] <= launch
    BY <2>4 DEF SInv, Rising
  <2>6. samples[d + i] # launch /\ samples[d + i] <= launch
    BY <2>1, <2>4, <2>5 DEF Launch, None
  <2>7. \A k \in 1 .. d + i : k \in 1 .. Len(samples) /\ samples[k] # launch
    <3> SUFFICES ASSUME NEW k \in 1 .. d + i
                 PROVE  k \in 1 .. Len(samples) /\ samples[k] # launch
      OBVIOUS
    <3>1. k \in 1 .. Len(samples) /\ k <= d + i
      BY <2>1, <2>4
    <3>2. samples[k] <= samples[d + i]
      BY <2>4, <3>1 DEF SInv, Rising
    <3> QED
      BY <2>1, <2>4, <2>6, <3>1, <3>2 DEF Launch, None
  <2>8. 1 .. d + i \subseteq Before /\ Before \subseteq 1 .. Len(samples)
    <3>1. DOMAIN samples = 1 .. Len(samples)
      BY <2>1
    <3>2. ASSUME NEW k \in 1 .. d + i, NEW l \in 1 .. k PROVE samples[l] # launch
      BY <2>4, <2>7
    <3> QED
      BY <2>7, <3>1, <3>2 DEF Before
  <2>9. Cardinality(1 .. d + i) = d + i /\ IsFiniteSet(1 .. Len(samples))
    BY <2>1, <2>4, FS_Interval
  <2>10. IsFiniteSet(Before) /\ Cardinality(1 .. d + i) <= Cardinality(Before)
    BY <2>8, <2>9, FS_Subset
  <2>11. Cardinality(Before) \in Nat
    BY <2>10, FS_CardinalityType
  <2> QED
    BY <2>1, <2>2, <2>4, <2>9, <2>10, <2>11
<1> QED
  BY <1>1, SeriesInvariant, PTL

=============================================================================
