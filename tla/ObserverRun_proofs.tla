------------------------ MODULE ObserverRun_proofs ------------------------
(***************************************************************************)
(* Proofs about ObserverRun: its types, the processes that an invocation   *)
(* may leave behind, the files that a launch finds in the homes, and the   *)
(* shards that the submitters drive.  The three invariants rest on the     *)
(* types only.                                                             *)
(***************************************************************************)
EXTENDS ObserverRun, TLAPS

(***************************************************************************)
(* Type correctness.                                                       *)
(***************************************************************************)

\* A phase after the start belongs to an invocation, and the loops over the
\* submitters stay among them.
Counted ==
  /\ pc # "idle" => run # 0
  /\ pc \in {"submit", "fork"} => next < NObservers

Typed == TypeOK /\ Counted

LEMMA Members ==
  /\ NValidators \in Nat \ {0} /\ NObservers \in Nat \ {0} /\ NHomes \in Nat \ {0}
  /\ NObservers < NHomes /\ 0 \in 0 .. NHomes - 1
  /\ \A i \in 0 .. NHomes - 1 : HomeAt(i) \in Home
  /\ \A h \in Home : \E i \in 0 .. NHomes - 1 : HomeAt(i) = h
  /\ \A i \in 0 .. NObservers - 1 : <<"submitter", i>> \in Submitter
<1> USE MembersAssumption
<1>1. NHomes = NValidators + NObservers
  BY DEF NHomes
<1>2. ASSUME NEW i \in 0 .. NHomes - 1 PROVE HomeAt(i) \in Home
  <2>1. CASE i < NValidators
    BY <2>1 DEF HomeAt, Home, Validator
  <2>2. CASE ~ (i < NValidators)
    <3>1. i - NValidators \in 0 .. NObservers - 1
      BY <1>1, <2>2
    <3> QED
      BY <2>2, <3>1 DEF HomeAt, Home
  <2> QED
    BY <2>1, <2>2
<1>3. ASSUME NEW h \in Home PROVE \E i \in 0 .. NHomes - 1 : HomeAt(i) = h
  <2>1. CASE h \in {"node"} \X Validator
    <3>1. h[2] \in 0 .. NHomes - 1 /\ h[2] < NValidators /\ h = <<"node", h[2]>>
      BY <1>1, <2>1 DEF Validator
    <3>2. HomeAt(h[2]) = h
      BY <3>1 DEF HomeAt
    <3> QED
      BY <3>1, <3>2
  <2>2. CASE h \in {"observer"} \X (0 .. NObservers - 1)
    <3>1. /\ h[2] + NValidators \in 0 .. NHomes - 1 /\ ~ (h[2] + NValidators < NValidators)
          /\ h = <<"observer", h[2]>> /\ (h[2] + NValidators) - NValidators = h[2]
      BY <1>1, <2>2
    <3>2. HomeAt(h[2] + NValidators) = h
      BY <3>1 DEF HomeAt
    <3> QED
      BY <3>1, <3>2
  <2> QED
    BY <2>1, <2>2 DEF Home
<1> QED
  BY <1>1, <1>2, <1>3 DEF Submitter

LEMMA ProcTypes ==
  /\ \A p \in Proc : /\ p[1] \in Home \cup Submitter /\ p[2] \in Run /\ p[2] \in Nat \ {0}
                     /\ p = <<p[1], p[2]>>
  /\ \A m \in Home \cup Submitter : run \in Run => Mine(m) \in Proc
  /\ Home \cap Submitter = {}
BY BoundsAssumption DEF Proc, Run, Mine, Home, Submitter

\* A loop stays within its bounds.
LEMMA AdvanceTypes ==
  ASSUME NEW n \in 1 .. NHomes, NEW again, NEW after, next \in 0 .. NHomes - 1,
         Advance(n, again, after)
  PROVE  /\ next' \in 0 .. NHomes - 1 /\ next' < n
         /\ pc' \in {again, after}
BY Members DEF Advance

LEMMA TypedInit == Init => Typed
<1> SUFFICES ASSUME Init PROVE Typed
  OBVIOUS
<1> USE Members, BoundsAssumption
<1>1. Nothing \in Content /\ [h \in Home |-> 0] \in Content
  BY DEF Nothing, Content, Absent
<1>2. [h \in Home |-> IF IsObserver(h) THEN Absent ELSE 0] \in Content
  BY DEF Content, Absent
<1>3. nkey \in Content /\ vkey \in Content /\ shared \in Content
  BY <1>1, <1>2 DEF Init
<1>4. genesis \in [Home -> Content] /\ boot \in [Home -> Content]
  BY <1>3 DEF Init
<1>5. 0 \in 0 .. MaxRuns /\ 0 \in 0 .. MaxDeaths
  OBVIOUS
<1> QED
  BY <1>3, <1>4, <1>5 DEF Init, Typed, TypeOK, Counted

LEMMA FileTypes ==
  ASSUME Typed, pc # "idle"
  PROVE  /\ \A h \in Home : [nkey EXCEPT ![h] = InitKey(nkey[h])] \in Content
         /\ \A h \in Home : [vkey EXCEPT ![h] = InitKey(vkey[h])] \in Content
         /\ \A h \in Home : [vkey EXCEPT ![h] = Absent] \in Content
         /\ AccountKeys \in Content
<1>1. run \in Absent .. MaxRuns /\ Absent \in Absent .. MaxRuns
  BY BoundsAssumption DEF Typed, TypeOK, Absent
<1>2. \A k \in Absent .. MaxRuns : InitKey(k) \in Absent .. MaxRuns
  BY <1>1 DEF InitKey
<1> QED
  BY <1>1, <1>2 DEF Typed, TypeOK, Content, AccountKeys

LEMMA TypedSetup ==
  ASSUME Typed, \/ \E s \in BOOLEAN : StartRun(s)
                \/ StartFails \/ AccountsMissing \/ SetupFails \/ EnsureKeys \/ DropValidatorKey
                \/ BuildGenesis \/ CopyGenesis \/ WriteConfig
  PROVE  Typed'
<1> USE Members, BoundsAssumption
    DEF Typed, TypeOK, Counted, harness, keys, files, load, history, TryPhase, SetupPhase,
        LaunchPhase, LoadPhase, HandlerPhase, FinallyPhase, Raise, Keep
<1>1. CASE (\E s \in BOOLEAN : StartRun(s)) \/ StartFails \/ AccountsMissing \/ SetupFails
  BY <1>1 DEF StartRun, StartFails, AccountsMissing, SetupFails
<1>2. CASE EnsureKeys
  <2>1. nkey' \in Content /\ vkey' \in Content
    BY <1>2, FileTypes DEF EnsureKeys
  <2>2. next' \in 0 .. NHomes - 1 /\ pc' \in {"keys", "unlink", "genesis"}
    BY <1>2, AdvanceTypes DEF EnsureKeys
  <2> QED
    BY <1>2, <2>1, <2>2 DEF EnsureKeys
<1>3. CASE DropValidatorKey
  <2>1. vkey' \in Content
    BY <1>3, FileTypes DEF DropValidatorKey
  <2>2. next' \in 0 .. NHomes - 1 /\ pc' \in {"keys", "genesis"}
    BY <1>3, AdvanceTypes DEF DropValidatorKey
  <2> QED
    BY <1>3, <2>1, <2>2 DEF DropValidatorKey
<1>4. CASE BuildGenesis
  <2>1. shared' \in Content
    BY <1>4, FileTypes DEF BuildGenesis
  <2> QED
    BY <1>4, <2>1 DEF BuildGenesis
<1>5. CASE CopyGenesis
  <2>1. genesis' \in [Home -> Content]
    BY <1>5 DEF CopyGenesis
  <2>2. next' \in 0 .. NHomes - 1 /\ pc' \in {"copy", "config"}
    BY <1>5, AdvanceTypes DEF CopyGenesis
  <2> QED
    BY <1>5, <2>1, <2>2 DEF CopyGenesis
<1>6. CASE WriteConfig
  <2>1. boot' \in [Home -> Content]
    BY <1>6 DEF WriteConfig
  <2>2. next' \in 0 .. NHomes - 1 /\ pc' \in {"config", "prekill"}
    BY <1>6, AdvanceTypes DEF WriteConfig
  <2> QED
    BY <1>6, <2>1, <2>2 DEF WriteConfig
<1> QED
  BY <1>1, <1>2, <1>3, <1>4, <1>5, <1>6

\* What a pkill and a cleanup do to the processes.
LEMMA KillTypes ==
  ASSUME Typed, pc # "idle"
  PROVE  /\ PkillHits \/ PkillFails =>
              proc' \in [Proc -> {"none", "numactl", "run"}] /\ unkilled' \subseteq Run
         /\ \A S : Kill(S) => proc' \in [Proc -> {"none", "numactl", "run"}]
<1>1. run \in Run
  BY BoundsAssumption DEF Typed, TypeOK, Counted, Run
<1> QED
  BY <1>1 DEF Typed, TypeOK, PkillHits, PkillFails, Kill

LEMMA TypedLaunch ==
  ASSUME Typed, \/ PreLaunchKill \/ Fork \/ LaunchFails \/ Record \/ GatePass \/ GateTimeout
                \/ Assign \/ Unresolved \/ ForkSubmitter \/ RecordSubmitter \/ Measure
  PROVE  Typed'
<1> USE Members, BoundsAssumption
    DEF Typed, TypeOK, Counted, harness, keys, files, load, history, TryPhase, SetupPhase,
        LaunchPhase, LoadPhase, HandlerPhase, FinallyPhase, Raise
<1>0. pc # "idle" /\ run \in Run
  BY DEF PreLaunchKill, Fork, LaunchFails, Record, GatePass, GateTimeout, Assign, Unresolved,
     ForkSubmitter, RecordSubmitter, Measure, Run
<1>1. CASE PreLaunchKill
  <2>1. proc' \in [Proc -> {"none", "numactl", "run"}] /\ unkilled' \subseteq Run
    BY <1>0, <1>1, KillTypes DEF PreLaunchKill
  <2> QED
    BY <1>1, <2>1 DEF PreLaunchKill
<1>2. CASE Fork
  BY <1>2 DEF Fork
<1>3. CASE LaunchFails \/ GatePass \/ GateTimeout \/ Unresolved \/ Measure
  BY <1>3 DEF LaunchFails, GatePass, GateTimeout, Unresolved, Measure
<1>4. CASE Record
  <2>1. next' \in 0 .. NHomes - 1 /\ pc' \in {"launch", "gate"}
    BY <1>4, AdvanceTypes DEF Record
  <2> QED
    BY <1>4, <2>1 DEF Record
<1>5. CASE Assign
  <2>1. ASSUME NEW known \in SUBSET Validator, NEW a \in [known -> Shard]
        PROVE  {<<i, a[i]>> : i \in known} \subseteq Validator \X Shard
    OBVIOUS
  <2>2. assignment' \subseteq Validator \X Shard /\ pc' \in {"submit", "fsub"} /\ next' = 0
    BY <1>5, <2>1 DEF Assign
  <2> QED
    BY <1>5, <2>2 DEF Assign
<1>6. CASE ForkSubmitter
  <2>1. \A s \in Shard : <<s, CHOOSE i \in Ports(s) : TRUE>> \in Shard \X Validator
    <3>1. \A s \in Shard : Ports(s) # {} /\ Ports(s) \subseteq Validator
      BY <1>6 DEF ForkSubmitter, Resolved, Ports
    <3>2. \A s \in Shard : (CHOOSE i \in Ports(s) : TRUE) \in Ports(s)
      BY <3>1
    <3> QED
      BY <3>1, <3>2
  <2>2. target' \subseteq Shard \X Validator
    BY <1>6, <2>1 DEF ForkSubmitter, ShardsOf
  <2> QED
    BY <1>6, <2>2 DEF ForkSubmitter
<1>7. CASE RecordSubmitter
  <2>1. next' \in 0 .. NHomes - 1 /\ next' < NObservers /\ pc' \in {"submit", "measure"}
    BY <1>7, AdvanceTypes DEF RecordSubmitter
  <2>2. <<"submitter", next>> \in Submitter
    BY <1>7 DEF RecordSubmitter
  <2> QED
    BY <1>7, <2>1, <2>2 DEF RecordSubmitter
<1> QED
  BY <1>1, <1>2, <1>3, <1>4, <1>5, <1>6, <1>7

LEMMA TypedRest ==
  ASSUME Typed, \/ CleanupSubmitters \/ KillGroups \/ HandlerPkill \/ HandlerSlept
                \/ FinallyPkill \/ FinallySlept \/ WriteResults \/ Interrupt \/ Crash
                \/ \E p \in Proc : Exec(p) \/ Die(p)
                \/ UNCHANGED vars
  PROVE  Typed'
<1> USE Members, BoundsAssumption
    DEF Typed, TypeOK, Counted, harness, keys, files, load, history, TryPhase, SetupPhase,
        LaunchPhase, LoadPhase, HandlerPhase, FinallyPhase, Exit, Keep, LeaveHandler
<1>0. pc # "idle" => run \in Run
  BY DEF Run
<1>1. CASE CleanupSubmitters \/ KillGroups
  <2>1. proc' \in [Proc -> {"none", "numactl", "run"}]
    BY <1>1, KillTypes DEF CleanupSubmitters, KillGroups, InCleanup
  <2> QED
    BY <1>1, <2>1 DEF CleanupSubmitters, KillGroups, InCleanup
<1>2. CASE HandlerPkill \/ FinallyPkill
  <2>1. proc' \in [Proc -> {"none", "numactl", "run"}] /\ unkilled' \subseteq Run
    BY <1>2, KillTypes DEF HandlerPkill, FinallyPkill
  <2> QED
    BY <1>2, <2>1 DEF HandlerPkill, FinallyPkill
<1>3. CASE HandlerSlept \/ FinallySlept \/ WriteResults \/ Crash
  BY <1>0, <1>3 DEF HandlerSlept, FinallySlept, WriteResults, Crash
<1>4. CASE Interrupt
  <2>1. lost' \subseteq Proc
    BY <1>0, <1>4, ProcTypes DEF Interrupt
  <2> QED
    BY <1>4, <2>1 DEF Interrupt
<1>5. ASSUME NEW p \in Proc, Exec(p) \/ Die(p) PROVE Typed'
  BY <1>5 DEF Exec, Die
<1>6. CASE UNCHANGED vars
  BY <1>6 DEF vars
<1> QED
  BY <1>1, <1>2, <1>3, <1>4, <1>5, <1>6

LEMMA TypedStep == Typed /\ [Next]_vars => Typed'
BY TypedSetup, TypedLaunch, TypedRest DEF Next, HarnessStep, BoundReached

\* Every variable of an observer experiment keeps its type, for any number of
\* validators, observers and invocations.
THEOREM ObserverTypes == Spec => []TypeOK
<1>1. Spec => []Typed
  BY TypedInit, TypedStep, PTL DEF Spec
<1>2. Typed => TypeOK
  BY DEF Typed
<1> QED
  BY <1>1, <1>2, PTL


(***************************************************************************)
(* The processes.                                                          *)
(***************************************************************************)

\* What may be left of an invocation that is over.
Excused(p) == p[2] \in crashed \/ (p \in lost /\ (p[1] \in Submitter \/ p[2] \in unkilled))

LoadedPhase == LaunchPhase \cup LoadPhase

\* Nothing exists of an invocation before it comes to its launch.
Fresh ==
  /\ \A p \in Proc : p[2] > run => proc[p] = "none"
  /\ \A p \in lost : p[2] <= run
  /\ pc \in SetupPhase => \A p \in Proc : p[2] = run => proc[p] = "none"

\* What executes of earlier invocations is excused, and no node from the launch on.
Past ==
  /\ \A p \in Proc : Executing(p) /\ (p[2] < run \/ pc = "idle") => Excused(p)
  /\ pc \in LoadedPhase => \A p \in Proc : Executing(p) /\ p[2] < run => p[1] \in Submitter

\* The child that Popen has made but append has not seen.
Child == CASE pc = "spawn" -> {Mine(HomeAt(next))}
           [] pc = "fork" -> {Mine(<<"submitter", next>>)}
           [] OTHER -> {}

\* A child is lost only to the SIGINT, after which the try block is over.
Tracked ==
  /\ pc # "idle" => \A p \in Proc : Executing(p) /\ p[2] = run =>
                      p[1] \in recorded \/ p \in lost \/ p \in Child
  /\ pc \in TryPhase \/ ~ interrupted => \A p \in lost : p[2] # run

\* How far a cleanup has got with the processes of its invocation.
Cleared ==
  \A p \in Proc : Executing(p) /\ p[2] = run =>
    /\ p[1] \in Submitter
         /\ pc \in {"hgroups", "hpkill", "hslept", "fgroups", "fpkill", "fslept", "write"}
         => p \in lost
    /\ p[1] \in Home /\ pc \in {"hpkill", "hslept", "fpkill", "fslept", "write"} => p \in lost
    /\ p[1] \in Home /\ p \in lost /\ run \notin unkilled =>
         /\ pc \in HandlerPhase => cont = "fsub"
         /\ pc \in {"fsub", "fgroups", "fpkill"} => proc[p] = "run"
         /\ pc \notin {"fslept", "write"}

PInv == Fresh /\ Past /\ Tracked /\ Cleared

LEMMA PInvInit == Init => PInv
  BY DEF Init, PInv, Fresh, Past, Tracked, Cleared, Executing, Excused, SetupPhase,
     LoadedPhase, LaunchPhase, LoadPhase, TryPhase

\* A step inside the try block, or out of it into the finally block, that
\* touches no process.
TryStep ==
  /\ pc \in TryPhase /\ pc' \in (TryPhase \cup {"fsub"}) \ {"spawn", "fork"}
  /\ pc' \in SetupPhase => pc \in SetupPhase
  /\ pc' \in LoadedPhase => pc \in LoadedPhase
  /\ \A p \in Child : p[1] \in recorded'
  /\ recorded \subseteq recorded'
  /\ UNCHANGED <<run, proc, crashed, lost, unkilled, interrupted>>

LEMMA TrySteps ==
  ASSUME Typed, \/ AccountsMissing \/ SetupFails \/ EnsureKeys \/ DropValidatorKey
                \/ BuildGenesis \/ CopyGenesis \/ WriteConfig
                \/ LaunchFails \/ Record \/ GatePass \/ GateTimeout
                \/ Assign \/ Unresolved \/ RecordSubmitter \/ Measure
  PROVE  TryStep
<1> USE DEF TryStep, Raise, Advance, harness, history, load, SetupPhase, LoadedPhase, LaunchPhase,
            LoadPhase, TryPhase, Child, Mine
<1>1. CASE AccountsMissing \/ SetupFails \/ EnsureKeys \/ DropValidatorKey
             \/ BuildGenesis \/ CopyGenesis \/ WriteConfig
  BY <1>1 DEF AccountsMissing, SetupFails, EnsureKeys, DropValidatorKey, BuildGenesis,
     CopyGenesis, WriteConfig
<1>2. CASE LaunchFails \/ GatePass \/ GateTimeout \/ Unresolved \/ Measure
  BY <1>2 DEF LaunchFails, GatePass, GateTimeout, Unresolved, Measure
<1>3. CASE Assign
  BY <1>3 DEF Assign
<1>4. CASE Record \/ RecordSubmitter
  BY <1>4 DEF Record, RecordSubmitter
<1> QED
  BY <1>1, <1>2, <1>3, <1>4

LEMMA PInvTry == ASSUME Typed, PInv, TryStep PROVE PInv'
<1> USE DEF TryStep, PInv
<1>1. \A p \in Proc : (Executing(p)' <=> Executing(p)) /\ (Excused(p)' <=> Excused(p))
  BY DEF Executing, Excused
<1>2. Child' = {}
  BY DEF Child
<1>3. pc # "idle" /\ pc' # "idle"
  BY DEF TryPhase, SetupPhase, LaunchPhase, LoadPhase
<1>4. Fresh'
  BY DEF Fresh
<1>5. Past'
  BY <1>1, <1>3 DEF Past
<1>6. Tracked'
  BY <1>1, <1>2, <1>3 DEF Tracked
<1>7. Cleared'
  <2>1. \A p \in lost : p[2] # run
    BY DEF Tracked
  <2>2. pc' \notin {"hgroups", "hpkill", "hslept", "fgroups", "fpkill", "fslept", "write"}
    BY DEF TryPhase, SetupPhase, LaunchPhase, LoadPhase
  <2> QED
    BY <2>1, <2>2 DEF Cleared
<1> QED
  BY <1>4, <1>5, <1>6, <1>7

LEMMA PInvStart ==
  ASSUME Typed, PInv, (\E s \in BOOLEAN : StartRun(s)) \/ StartFails
  PROVE  PInv'
<1> USE DEF PInv
<1>1. /\ pc = "idle" /\ pc' \in {"idle", "keys"} /\ run' = run + 1 /\ run \in Nat
      /\ UNCHANGED <<proc, crashed, lost, unkilled>>
  BY BoundsAssumption DEF StartRun, StartFails, history, Typed, TypeOK
<1>2. \A p \in Proc : /\ Executing(p)' <=> Executing(p)
                      /\ Excused(p)' <=> Excused(p)
                      /\ p[2] \in Nat
  BY <1>1, ProcTypes DEF Executing, Excused
<1>3. \A p \in lost : p \in Proc /\ p[2] <= run
  BY DEF Fresh, Typed, TypeOK
<1>4. \A p \in Proc : p[2] >= run' => proc[p] = "none"
  BY <1>1, <1>2 DEF Fresh
<1>5. \A p \in Proc : p[2] >= run' => ~ Executing(p)
  BY <1>4 DEF Executing
<1>6. Fresh'
  BY <1>1, <1>2, <1>3, <1>4 DEF Fresh
<1>7. Past'
  BY <1>1, <1>2 DEF Past, LoadedPhase, LaunchPhase, LoadPhase
<1>8. Tracked'
  BY <1>1, <1>2, <1>3, <1>5 DEF Tracked
<1>9. Cleared'
  BY <1>1, <1>2, <1>5 DEF Cleared
<1> QED
  BY <1>6, <1>7, <1>8, <1>9

\* The nodes of earlier invocations are found by name when they have settled.
LEMMA PInvPreLaunchKill == ASSUME Typed, PInv, PreLaunchKill PROVE PInv'
<1> USE DEF PInv
<1>1. /\ pc = "prekill" /\ pc' \in {"launch", "fsub"}
      /\ UNCHANGED <<run, crashed, lost, recorded, interrupted>>
      /\ unkilled \subseteq unkilled'
      /\ \A p \in Proc : proc'[p] \in {proc[p], "none"}
  BY DEF PreLaunchKill, PkillHits, PkillFails, Raise, harness, Typed, TypeOK
<1>2. \A p \in Proc : /\ Executing(p)' => Executing(p)
                      /\ Excused(p) => Excused(p)'
  BY <1>1 DEF Executing, Excused
<1>3. pc' = "launch" => \A p \in Proc : Executing(p)' => p[1] \in Submitter
  <2> SUFFICES ASSUME pc' = "launch", NEW p \in Proc, p[1] \in Home PROVE ~ Executing(p)'
    BY ProcTypes
  <2>1. PkillHits /\ Settled
    BY DEF PreLaunchKill, Raise
  <2> QED
    BY <2>1 DEF PkillHits, Settled, Executing
<1>4. \A p \in Proc : p[2] = run => ~ Executing(p)
  BY <1>1 DEF Fresh, Executing, SetupPhase
<1>5. pc \in TryPhase /\ pc # "idle" /\ pc' # "idle" /\ pc' \notin SetupPhase
  BY <1>1 DEF TryPhase, SetupPhase
<1>6. Fresh'
  BY <1>1, <1>5 DEF Fresh
<1>7. Past'
  BY <1>1, <1>2, <1>3, <1>5 DEF Past, LoadedPhase, LaunchPhase, LoadPhase
<1>8. Tracked'
  BY <1>1, <1>2, <1>4, <1>5 DEF Tracked
<1>9. Cleared'
  BY <1>1, <1>2, <1>4 DEF Cleared
<1> QED
  BY <1>6, <1>7, <1>8, <1>9

LEMMA PInvFork == ASSUME Typed, PInv, Fork \/ ForkSubmitter PROVE PInv'
<1> USE DEF PInv
<1>1. run \in Run /\ next \in 0 .. NHomes - 1
  BY BoundsAssumption DEF Fork, ForkSubmitter, Typed, TypeOK, Counted, Run
<1>2. PICK c \in Proc :
        /\ c[2] = run /\ proc' = [proc EXCEPT ![c] = IF pc = "launch" THEN "numactl" ELSE "run"]
        /\ c \in Child'
  <2>1. CASE Fork
    <3>1. HomeAt(next) \in Home
      BY <1>1, Members
    <3>2. PICK c \in Proc : c = <<HomeAt(next), run>>
      BY <1>1, <3>1 DEF Proc
    <3> QED
      BY <2>1, <3>2 DEF Fork, harness, Child, Mine, HomeAt
  <2>2. CASE ForkSubmitter
    <3>1. <<"submitter", next>> \in Submitter
      BY <2>2, <1>1, Members DEF ForkSubmitter, Typed, TypeOK, Counted
    <3>2. PICK c \in Proc : c = <<<<"submitter", next>>, run>>
      BY <1>1, <3>1 DEF Proc
    <3> QED
      BY <2>2, <3>2 DEF ForkSubmitter, harness, Child, Mine
  <2> QED
    BY <2>1, <2>2
<1>3. /\ pc \in {"launch", "submit"} /\ pc' \in {"spawn", "fork"} /\ Child = {}
      /\ UNCHANGED <<run, crashed, lost, unkilled, recorded, interrupted>>
  BY DEF Fork, ForkSubmitter, harness, history, Child
<1>4. /\ proc \in [Proc -> {"none", "numactl", "run"}]
      /\ \A p \in Proc : Executing(p)' <=> Executing(p) \/ p = c
      /\ \A p \in Proc : Excused(p)' <=> Excused(p)
  BY <1>2, <1>3 DEF Executing, Excused, Typed, TypeOK
<1>5. pc \in LoadedPhase /\ pc' \in LoadedPhase /\ pc \in TryPhase /\ pc' \in TryPhase
      /\ pc' \notin SetupPhase /\ pc # "idle" /\ pc' # "idle" /\ run \in Nat
  BY <1>1, <1>3 DEF LoadedPhase, TryPhase, LaunchPhase, LoadPhase, SetupPhase, Run
<1>6. Fresh'
  BY <1>2, <1>3, <1>4, <1>5 DEF Fresh
<1>7. Past'
  BY <1>2, <1>3, <1>4, <1>5 DEF Past
<1>8. Tracked'
  BY <1>2, <1>3, <1>4, <1>5 DEF Tracked
<1>9. Cleared'
  <2>1. \A p \in lost : p[2] # run
    BY <1>5 DEF Tracked
  <2> QED
    BY <1>3, <2>1 DEF Cleared
<1> QED
  BY <1>6, <1>7, <1>8, <1>9

\* Executing processes of this invocation are recorded or lost when the cleanup
\* comes; it kills the recorded ones.
LEMMA PInvCleanup == ASSUME Typed, PInv, CleanupSubmitters \/ KillGroups PROVE PInv'
<1> USE DEF PInv
<1>1. PICK S \in SUBSET (Home \cup Submitter) :
        /\ proc' = [p \in Proc |-> IF p[1] \in S /\ p[2] = run /\ Executing(p)
                                   THEN "none" ELSE proc[p]]
        /\ \/ CleanupSubmitters /\ S = recorded \cap Submitter
           \/ KillGroups /\ S = recorded \cap Home
  BY DEF CleanupSubmitters, KillGroups, Kill
<1>2. /\ \/ pc = "fsub" /\ pc' = "fgroups" /\ S = recorded \cap Submitter
         \/ pc = "hsub" /\ pc' = "hgroups" /\ S = recorded \cap Submitter
         \/ pc = "fgroups" /\ pc' = "fpkill" /\ S = recorded \cap Home
         \/ pc = "hgroups" /\ pc' = "hpkill" /\ S = recorded \cap Home
      /\ UNCHANGED <<run, cont, crashed, lost, unkilled, recorded, interrupted>>
  BY <1>1 DEF CleanupSubmitters, KillGroups, InCleanup, harness, history
<1>3. \A p \in Proc : /\ Executing(p)' => Executing(p) /\ proc'[p] = proc[p]
                      /\ Executing(p)' /\ p[2] = run => p[1] \notin S
                      /\ Excused(p)' <=> Excused(p)
  BY <1>1, <1>2 DEF Executing, Excused
<1>4. pc # "idle" /\ Child = {} /\ Child' = {} /\ pc' \notin SetupPhase \cup LoadedPhase \cup TryPhase
  BY <1>2 DEF Child, SetupPhase, LoadedPhase, TryPhase, LaunchPhase, LoadPhase
<1>5. Fresh'
  BY <1>1, <1>2, <1>4 DEF Fresh
<1>6. Past'
  BY <1>2, <1>3, <1>4 DEF Past
<1>7. Tracked'
  BY <1>2, <1>3, <1>4 DEF Tracked
<1>8. Cleared'
  <2>1. \A p \in Proc : Executing(p)' /\ p[2] = run => p[1] \in recorded \/ p \in lost
    BY <1>3, <1>4 DEF Tracked
  <2>2. Home \cap Submitter = {}
    BY ProcTypes
  <2> QED
    BY <1>2, <1>3, <2>1, <2>2 DEF Cleared, HandlerPhase
<1> QED
  BY <1>5, <1>6, <1>7, <1>8

\* Before the pkill of a cleanup all that is left of the invocation is lost; if
\* it fails, the invocation has an unkilled node at worst.
LEMMA PInvPkill == ASSUME Typed, PInv, HandlerPkill \/ FinallyPkill PROVE PInv'
<1> USE DEF PInv
<1>1. /\ pc \in {"hpkill", "fpkill"} /\ pc' \in {"hslept", "fsub", "idle", "fslept"}
      /\ UNCHANGED <<run, cont, crashed, lost, interrupted>>
      /\ pc' # "idle" => recorded' = recorded
      /\ unkilled \subseteq unkilled'
      /\ \A p \in Proc : proc'[p] \in {proc[p], "none"}
  BY DEF HandlerPkill, FinallyPkill, PkillHits, PkillFails, LeaveHandler, Exit, Keep,
     harness, Typed, TypeOK
<1>2. \/ /\ pc' \in {"hslept", "fslept"} /\ (pc' = "hslept" <=> pc = "hpkill")
         /\ unkilled' = unkilled
         /\ \A p \in Proc : p[1] \in Home /\ proc[p] = "run" => proc'[p] = "none"
      \/ run \in unkilled' /\ pc' \in {"fsub", "idle"}
  BY DEF HandlerPkill, FinallyPkill, PkillHits, PkillFails, LeaveHandler, Exit
<1>3. \A p \in Proc : /\ Executing(p)' => Executing(p) /\ proc'[p] = proc[p]
                      /\ Excused(p) => Excused(p)'
  BY <1>1 DEF Executing, Excused
<1>4. pc # "idle" /\ Child = {} /\ Child' = {} /\ pc' \notin SetupPhase \cup LoadedPhase \cup TryPhase
  BY <1>1 DEF Child, SetupPhase, LoadedPhase, TryPhase, LaunchPhase, LoadPhase
<1>5. \A p \in Proc : Executing(p) /\ p[2] = run => p \in lost
  BY <1>1, ProcTypes DEF Cleared
<1>6. \A p \in Proc : p[2] \in Nat /\ run \in Nat
  BY ProcTypes, BoundsAssumption DEF Typed, TypeOK
<1>7. Fresh'
  BY <1>1, <1>4 DEF Fresh
<1>8. Past'
  <2> SUFFICES ASSUME NEW p \in Proc, Executing(p)', p[2] < run \/ pc' = "idle" PROVE Excused(p)'
    BY <1>1, <1>4 DEF Past
  <2>1. CASE p[2] < run
    BY <1>3, <2>1 DEF Past
  <2>2. CASE p[2] = run
    BY <1>1, <1>2, <1>3, <1>5, <1>6, <2>2 DEF Excused
  <2>3. CASE p[2] > run
    BY <1>1, <1>3, <2>3 DEF Fresh, Executing
  <2> QED
    BY <1>6, <2>1, <2>2, <2>3
<1>9. Tracked'
  BY <1>1, <1>3, <1>4, <1>5 DEF Tracked
<1>10. Cleared'
  BY <1>1, <1>2, <1>3, <1>5 DEF Cleared, HandlerPhase, Executing
<1> QED
  BY <1>7, <1>8, <1>9, <1>10

\* After the sleep there is nobody left who is not excused.
LEMMA PInvSlept ==
  ASSUME Typed, PInv, HandlerSlept \/ FinallySlept \/ WriteResults
  PROVE  PInv'
<1> USE DEF PInv
<1>1. /\ \/ pc = "hslept" /\ cont = "fsub" /\ pc' = "fsub" /\ Settled
         \/ pc = "hslept" /\ cont # "fsub" /\ pc' = "idle"
         \/ pc = "fslept" /\ pc' \in {"idle", "write"}
         \/ pc = "write" /\ pc' = "idle"
      /\ pc' # "idle" => recorded' = recorded
      /\ UNCHANGED <<run, cont, proc, crashed, lost, unkilled, interrupted>>
  BY DEF HandlerSlept, FinallySlept, WriteResults, LeaveHandler, Exit, Keep, harness, history
<1>2. \A p \in Proc : /\ Executing(p)' <=> Executing(p)
                      /\ Excused(p)' <=> Excused(p)
  BY <1>1 DEF Executing, Excused
<1>3. pc # "idle" /\ Child = {} /\ Child' = {} /\ pc' \notin SetupPhase \cup LoadedPhase \cup TryPhase
  BY <1>1 DEF Child, SetupPhase, LoadedPhase, TryPhase, LaunchPhase, LoadPhase
<1>4. \A p \in Proc : Executing(p) /\ p[2] = run => p \in lost
  BY <1>1, ProcTypes DEF Cleared
<1>5. pc' # "fsub" => \A p \in Proc : Executing(p) /\ p[2] = run => Excused(p)
  BY <1>1, <1>4, ProcTypes DEF Cleared, Excused, HandlerPhase
<1>6. \A p \in Proc : p[2] \in Nat /\ run \in Nat
  BY ProcTypes, BoundsAssumption DEF Typed, TypeOK
<1>7. Fresh'
  BY <1>1, <1>3 DEF Fresh
<1>8. Past'
  <2> SUFFICES ASSUME NEW p \in Proc, Executing(p), p[2] < run \/ pc' = "idle" PROVE Excused(p)
    BY <1>1, <1>2, <1>3 DEF Past
  <2>1. CASE p[2] < run
    BY <2>1 DEF Past
  <2>2. CASE p[2] = run
    BY <1>5, <1>6, <2>2
  <2>3. CASE p[2] > run
    BY <2>3 DEF Fresh, Executing
  <2> QED
    BY <1>6, <2>1, <2>2, <2>3
<1>9. Tracked'
  BY <1>1, <1>2, <1>3, <1>4 DEF Tracked
<1>10. Cleared'
  <2>1. pc' = "fsub" => \A p \in Proc : Executing(p) => proc[p] = "run"
    BY <1>1 DEF Settled, Executing
  <2> QED
    BY <1>1, <1>2, <1>4, <2>1 DEF Cleared, HandlerPhase
<1> QED
  BY <1>7, <1>8, <1>9, <1>10

\* A SIGINT in the try block may lose the child; the handler runs twice then.
LEMMA PInvInterrupt == ASSUME Typed, PInv, Interrupt PROVE PInv'
<1> USE DEF PInv
<1>1. /\ ~ interrupted /\ interrupted' /\ pc # "idle" /\ pc' = "hsub"
      /\ cont' = IF pc \in TryPhase THEN "fsub" ELSE "idle"
      /\ UNCHANGED <<run, proc, recorded, crashed, unkilled>>
  BY DEF Interrupt, harness
<1>2. lost' = lost \cup Child /\ (Child # {} => pc \in TryPhase)
  BY DEF Interrupt, Child, TryPhase, LaunchPhase, LoadPhase
<1>3. /\ \A p \in Proc : /\ Executing(p)' <=> Executing(p)
                         /\ Excused(p) => Excused(p)'
      /\ Child' = {} /\ \A p \in Child : p[2] = run
      /\ pc' \notin SetupPhase \cup LoadedPhase \cup TryPhase
  BY <1>1, <1>2 DEF Executing, Excused, Child, Mine, SetupPhase, LoadedPhase, TryPhase,
     LaunchPhase, LoadPhase
<1>4. Fresh'
  BY <1>1, <1>2, <1>3, BoundsAssumption DEF Fresh, Typed, TypeOK
<1>5. Past'
  BY <1>1, <1>3 DEF Past
<1>6. Tracked'
  BY <1>1, <1>2, <1>3 DEF Tracked
<1>7. Cleared'
  <2>1. \A p \in lost : p[2] # run
    BY <1>1 DEF Tracked
  <2>2. \A p \in Proc : p \in lost' /\ p[2] = run => cont' = "fsub"
    BY <1>1, <1>2, <2>1
  <2> QED
    BY <1>1, <1>3, <2>2 DEF Cleared
<1> QED
  BY <1>4, <1>5, <1>6, <1>7

LEMMA PInvCrash == ASSUME Typed, PInv, Crash PROVE PInv'
<1> USE DEF PInv
<1>1. /\ pc # "idle" /\ pc' = "idle" /\ crashed' = crashed \cup {run}
      /\ UNCHANGED <<run, proc, lost, unkilled, interrupted>>
  BY DEF Crash, Exit, harness
<1>2. \A p \in Proc : /\ Executing(p)' <=> Executing(p)
                      /\ Excused(p) => Excused(p)'
                      /\ p[2] = run => Excused(p)'
                      /\ p[2] \in Nat /\ run \in Nat
  BY <1>1, ProcTypes, BoundsAssumption DEF Executing, Excused, Typed, TypeOK
<1>3. pc' \notin SetupPhase \cup LoadedPhase \cup TryPhase
  BY <1>1 DEF SetupPhase, LoadedPhase, TryPhase, LaunchPhase, LoadPhase
<1>4. Fresh'
  BY <1>1, <1>3 DEF Fresh
<1>5. Past'
  <2>1. \A p \in Proc : Executing(p) => p[2] < run \/ p[2] = run
    BY <1>2 DEF Fresh, Executing
  <2> QED
    BY <1>1, <1>2, <1>3, <2>1 DEF Past
<1>6. Tracked'
  BY <1>1, <1>3 DEF Tracked
<1>7. Cleared'
  BY <1>1 DEF Cleared, HandlerPhase
<1> QED
  BY <1>4, <1>5, <1>6, <1>7

LEMMA PInvProcess ==
  ASSUME Typed, PInv, (\E p \in Proc : Exec(p) \/ Die(p)) \/ UNCHANGED vars
  PROVE  PInv'
<1> USE DEF PInv
<1>1. /\ UNCHANGED <<pc, run, next, cont, interrupted, recorded, crashed, lost, unkilled>>
      /\ \A p \in Proc : \/ proc'[p] \in {proc[p], "none"}
                         \/ proc[p] = "numactl" /\ proc'[p] = "run"
  BY DEF Exec, Die, vars, harness, history, load, files, Typed, TypeOK
<1>2. \A p \in Proc : /\ Executing(p)' => Executing(p)
                      /\ Executing(p)' /\ proc[p] = "run" => proc'[p] = "run"
                      /\ proc[p] = "none" => proc'[p] = "none"
                      /\ Excused(p)' <=> Excused(p)
  BY <1>1 DEF Executing, Excused
<1>3. Child' = Child
  BY <1>1 DEF Child, Mine
<1>4. Fresh'
  BY <1>1, <1>2 DEF Fresh
<1>5. Past'
  BY <1>1, <1>2 DEF Past
<1>6. Tracked'
  BY <1>1, <1>2, <1>3 DEF Tracked
<1>7. Cleared'
  BY <1>1, <1>2 DEF Cleared
<1> QED
  BY <1>4, <1>5, <1>6, <1>7

LEMMA PInvStep == ASSUME Typed, PInv, [Next]_vars PROVE PInv'
BY TrySteps, PInvTry, PInvStart, PInvPreLaunchKill, PInvFork, PInvCleanup, PInvPkill,
   PInvSlept, PInvInterrupt, PInvCrash, PInvProcess
DEF Next, HarnessStep, BoundReached

\* The invariant of the processes, with the types it rests on.
THEOREM ProcessInvariant == Spec => [](Typed /\ PInv)
<1>1. Init => Typed /\ PInv
  BY TypedInit, PInvInit
<1>2. Typed /\ PInv /\ [Next]_vars => (Typed /\ PInv)'
  BY TypedStep, PInvStep
<1> QED
  BY <1>1, <1>2, PTL DEF Spec

\* When an invocation is over or writes its results, of its nodes and submitters
\* only those are left that its death, a failed pkill or a SIGINT between Popen
\* and append account for.
THEOREM GoneAfterwards == Spec => []GoneAfterRun
<1>1. Typed /\ PInv => GoneAfterRun
  <2> SUFFICES ASSUME Typed, PInv, pc \in {"idle", "write"}, NEW p \in Proc, Executing(p)
               PROVE  Excused(p)
    BY DEF GoneAfterRun, Excused
  <2>1. p[2] < run \/ p[2] = run
    BY ProcTypes, BoundsAssumption DEF Typed, TypeOK, PInv, Fresh, Executing
  <2>2. CASE p[2] < run \/ pc = "idle"
    BY <2>2 DEF PInv, Past
  <2>3. CASE p[2] = run /\ pc = "write"
    BY <2>3, ProcTypes DEF PInv, Cleared, Excused
  <2> QED
    BY <2>1, <2>2, <2>3
<1> QED
  BY <1>1, ProcessInvariant, PTL

\* From the launch to the measurement no node of an earlier invocation runs, and
\* a submitter of one only if that was killed, or interrupted before its append.
THEOREM ForeignLoadIsExplained == Spec => []ForeignLoadExplained
<1>1. Typed /\ PInv => ForeignLoadExplained
  BY DEF ForeignLoadExplained, PInv, Past, Excused, LoadedPhase
<1> QED
  BY <1>1, ProcessInvariant, PTL


(***************************************************************************)
(* The files of the homes.                                                 *)
(***************************************************************************)

\* The homes that a loop of the setup has done.
Done(n) == {HomeAt(i) : i \in 0 .. n - 1}

NoValidatorKey(S) == \A h \in S : IsObserver(h) => vkey[h] = Absent
OneGenesis(S) == \A h \in S : genesis[h] = AccountKeys
OnePeerList(S) == \A h \in S : boot[h] = nkey

\* Each loop of the setup has brought its property to the homes it has done, and
\* no later one takes it away.
FInv ==
  /\ pc = "idle" => next = 0
  /\ pc \in {"keys", "unlink"} => NoValidatorKey(Done(next))
  /\ pc \in {"genesis", "copy", "config", "prekill"} \cup LoadedPhase => NoValidatorKey(Home)
  /\ pc = "copy" => shared = AccountKeys /\ OneGenesis(Done(next))
  /\ pc \in {"config", "prekill"} \cup LoadedPhase => OneGenesis(Home)
  /\ pc = "config" => OnePeerList(Done(next))
  /\ pc \in {"prekill"} \cup LoadedPhase => OnePeerList(Home)

LEMMA DoneNext ==
  /\ Done(0) = {}
  /\ \A n \in 0 .. NHomes - 1 : /\ Done(n + 1) = Done(n) \cup {HomeAt(n)}
                                /\ Done(n) \subseteq Home
                                /\ IsObserver(HomeAt(n)) => HomeAt(n) \notin Done(n)
                                /\ ~ (n + 1 < NHomes) => Done(n + 1) = Home
<1>1. Done(0) = {}
  BY DEF Done
<1>2. SUFFICES ASSUME NEW n \in 0 .. NHomes - 1
               PROVE  /\ Done(n + 1) = Done(n) \cup {HomeAt(n)}
                      /\ Done(n) \subseteq Home
                      /\ IsObserver(HomeAt(n)) => HomeAt(n) \notin Done(n)
                      /\ ~ (n + 1 < NHomes) => Done(n + 1) = Home
  BY <1>1
<1> USE Members
<1>3. 0 .. (n + 1) - 1 = (0 .. n - 1) \cup {n} /\ 0 .. n - 1 \subseteq 0 .. NHomes - 1
  OBVIOUS
<1>4. Done(n + 1) = Done(n) \cup {HomeAt(n)}
  BY <1>3 DEF Done
<1>5. Done(n) \subseteq Home
  BY <1>3 DEF Done
<1>6. ~ (n + 1 < NHomes) => Done(n + 1) = Home
  <2> SUFFICES ASSUME ~ (n + 1 < NHomes) PROVE Done(n + 1) = Home
    OBVIOUS
  <2>1. 0 .. (n + 1) - 1 = 0 .. NHomes - 1
    OBVIOUS
  <2> QED
    BY <2>1 DEF Done
<1>7. ASSUME IsObserver(HomeAt(n)), HomeAt(n) \in Done(n) PROVE FALSE
  <2>1. PICK i \in 0 .. n - 1 : HomeAt(i) = HomeAt(n)
    BY <1>7 DEF Done
  <2>2. ~ (n < NValidators) /\ ~ (i < NValidators)
    BY <1>7, <2>1 DEF HomeAt, IsObserver
  <2>3. i - NValidators = n - NValidators
    BY <2>1, <2>2 DEF HomeAt
  <2> QED
    BY <2>3
<1> QED
  BY <1>4, <1>5, <1>6, <1>7

LEMMA FInvInit == Init => FInv
  BY DEF Init, FInv, LoadedPhase, LaunchPhase, LoadPhase

LEMMA FInvSetup ==
  ASSUME Typed, FInv, EnsureKeys \/ DropValidatorKey \/ BuildGenesis \/ CopyGenesis \/ WriteConfig
  PROVE  FInv'
<1> USE DEF FInv, LoadedPhase, LaunchPhase, LoadPhase
<1> DEFINE h == HomeAt(next)
<1>0. /\ h \in Home /\ next \in 0 .. NHomes - 1
      /\ nkey \in [Home -> Absent .. MaxRuns] /\ vkey \in [Home -> Absent .. MaxRuns]
      /\ genesis \in [Home -> Content] /\ boot \in [Home -> Content]
  BY Members DEF Typed, TypeOK, Content
<1> HIDE DEF h
<1>1. CASE EnsureKeys
  <2>1. /\ pc = "keys"
        /\ \A g \in Home : g # h => vkey'[g] = vkey[g]
        /\ IF IsObserver(h) THEN pc' = "unlink" /\ next' = next
           ELSE Advance(NHomes, "keys", "genesis")
    BY <1>0, <1>1 DEF EnsureKeys, keys, h
  <2>2. CASE IsObserver(h)
    <3>1. h \notin Done(next) /\ Done(next) \subseteq Home
      BY <1>0, <2>2, DoneNext DEF h
    <3> QED
      BY <2>1, <2>2, <3>1 DEF NoValidatorKey
  <2>3. CASE ~ IsObserver(h)
    <3>1. \A g \in Home : IsObserver(g) => vkey'[g] = vkey[g]
      BY <2>1, <2>3
    <3>2. \A g \in Done(next + 1) : IsObserver(g) => vkey'[g] = Absent
      BY <1>0, <2>1, <2>3, <3>1, DoneNext DEF NoValidatorKey, h
    <3> QED
      BY <1>0, <2>1, <2>3, <3>2, DoneNext DEF Advance, NoValidatorKey
  <2> QED
    BY <2>2, <2>3
<1>2. CASE DropValidatorKey
  <2>1. /\ pc = "unlink" /\ vkey' = [vkey EXCEPT ![h] = Absent]
        /\ Advance(NHomes, "keys", "genesis")
    BY <1>2 DEF DropValidatorKey, h
  <2>2. \A g \in Done(next + 1) : IsObserver(g) => vkey'[g] = Absent
    BY <1>0, <2>1, DoneNext DEF NoValidatorKey, h
  <2> QED
    BY <1>0, <2>1, <2>2, DoneNext DEF Advance, NoValidatorKey
<1>3. CASE BuildGenesis
  <2>1. /\ pc = "genesis" /\ UNCHANGED <<nkey, vkey, genesis, boot>>
        /\ \/ pc' = "copy" /\ next' = 0 /\ shared' = AccountKeys
           \/ pc' = "fsub"
    BY <1>3 DEF BuildGenesis, keys, Raise
  <2> QED
    BY <2>1, DoneNext DEF NoValidatorKey, OneGenesis, AccountKeys
<1>4. CASE CopyGenesis
  <2>1. /\ pc = "copy" /\ genesis' = [genesis EXCEPT ![h] = shared]
        /\ Advance(NHomes, "copy", "config") /\ UNCHANGED <<nkey, vkey, shared, boot>>
    BY <1>4 DEF CopyGenesis, keys, h
  <2>2. AccountKeys' = AccountKeys /\ shared = AccountKeys
    BY <2>1 DEF AccountKeys
  <2>3. \A g \in Done(next + 1) : genesis'[g] = AccountKeys
    BY <1>0, <2>1, <2>2, DoneNext DEF OneGenesis, h
  <2>4. pc' = "config" => OneGenesis(Home)'
    BY <1>0, <2>1, <2>2, <2>3, DoneNext DEF Advance, OneGenesis
  <2>5. pc' \in {"copy", "config"} /\ (pc' = "copy" => next' = next + 1)
        /\ (pc' = "config" => next' = 0)
    BY <2>1 DEF Advance
  <2>6. pc' = "copy" => OneGenesis(Done(next))'
    BY <2>2, <2>3, <2>5 DEF OneGenesis
  <2> QED
    BY <1>0, <2>1, <2>2, <2>4, <2>5, <2>6, DoneNext DEF NoValidatorKey, OnePeerList
<1>5. CASE WriteConfig
  <2>1. /\ pc = "config" /\ boot' = [boot EXCEPT ![h] = nkey]
        /\ Advance(NHomes, "config", "prekill") /\ UNCHANGED <<nkey, vkey, shared, genesis>>
    BY <1>5 DEF WriteConfig, keys, h
  <2>2. AccountKeys' = AccountKeys
    BY <2>1 DEF AccountKeys
  <2>3. \A g \in Done(next + 1) : boot'[g] = nkey
    BY <1>0, <2>1, DoneNext DEF OnePeerList, h
  <2>4. pc' = "prekill" => OnePeerList(Home)'
    BY <1>0, <2>1, <2>3, DoneNext DEF Advance, OnePeerList
  <2>5. pc' \in {"config", "prekill"} /\ (pc' = "config" => next' = next + 1)
    BY <2>1 DEF Advance
  <2>6. pc' = "config" => OnePeerList(Done(next))'
    BY <2>1, <2>3, <2>5 DEF OnePeerList
  <2> QED
    BY <2>1, <2>2, <2>4, <2>5, <2>6 DEF NoValidatorKey, OneGenesis
<1> QED
  BY <1>1, <1>2, <1>3, <1>4, <1>5

\* Nothing writes into the homes once the setup is over.
LEMMA FInvRest ==
  ASSUME Typed, FInv,
         \/ \E s \in BOOLEAN : StartRun(s)
         \/ StartFails \/ AccountsMissing \/ SetupFails
         \/ PreLaunchKill \/ Fork \/ LaunchFails \/ Record \/ GatePass \/ GateTimeout
         \/ Assign \/ Unresolved \/ ForkSubmitter \/ RecordSubmitter \/ Measure
         \/ CleanupSubmitters \/ KillGroups \/ HandlerPkill \/ HandlerSlept
         \/ FinallyPkill \/ FinallySlept \/ WriteResults \/ Interrupt \/ Crash
         \/ \E p \in Proc : Exec(p) \/ Die(p)
         \/ UNCHANGED vars
  PROVE  FInv'
<1>1. /\ UNCHANGED <<nkey, vkey, shared, genesis, boot>>
      /\ \/ pc = "idle" /\ pc' = "keys" /\ next' = next
         \/ pc' = "idle" /\ next' = 0
         \/ pc' \in {"write"} \cup HandlerPhase \cup FinallyPhase
         \/ pc \in {"prekill"} \cup LoadedPhase /\ pc' \in LoadedPhase
         \/ UNCHANGED <<pc, next>>
  <2> USE DEF harness, files, keys, Raise, Exit, Keep, LoadedPhase, LaunchPhase, LoadPhase,
              HandlerPhase, FinallyPhase
  <2>1. CASE (\E s \in BOOLEAN : StartRun(s)) \/ StartFails \/ AccountsMissing \/ SetupFails
    BY <2>1 DEF StartRun, StartFails, AccountsMissing, SetupFails
  <2>2. CASE PreLaunchKill \/ Fork \/ LaunchFails \/ Record \/ GatePass \/ GateTimeout
    BY <2>2 DEF PreLaunchKill, Fork, LaunchFails, Record, GatePass, GateTimeout, Advance
  <2>3. CASE Assign
    BY <2>3 DEF Assign
  <2>4. CASE Unresolved \/ ForkSubmitter \/ RecordSubmitter \/ Measure
    BY <2>4 DEF Unresolved, ForkSubmitter, RecordSubmitter, Measure, Advance
  <2>5. CASE CleanupSubmitters \/ KillGroups \/ HandlerPkill \/ HandlerSlept
    BY <2>5 DEF CleanupSubmitters, KillGroups, InCleanup, HandlerPkill, HandlerSlept, LeaveHandler
  <2>6. CASE FinallyPkill \/ FinallySlept \/ WriteResults \/ Interrupt \/ Crash
    BY <2>6 DEF FinallyPkill, FinallySlept, WriteResults, Interrupt, Crash
  <2>7. CASE (\E p \in Proc : Exec(p) \/ Die(p)) \/ UNCHANGED vars
    BY <2>7 DEF Exec, Die, vars
  <2> QED
    BY <2>1, <2>2, <2>3, <2>4, <2>5, <2>6, <2>7
<1>2. AccountKeys' = AccountKeys
  BY <1>1 DEF AccountKeys
<1>3. /\ NoValidatorKey(Home)' <=> NoValidatorKey(Home)
      /\ OneGenesis(Home)' <=> OneGenesis(Home)
      /\ OnePeerList(Home)' <=> OnePeerList(Home)
  BY <1>1, <1>2 DEF NoValidatorKey, OneGenesis, OnePeerList
<1> USE DEF FInv, LoadedPhase, LaunchPhase, LoadPhase, HandlerPhase, FinallyPhase
<1>4. CASE pc = "idle" /\ pc' = "keys" /\ next' = next
  BY <1>4, DoneNext DEF NoValidatorKey
<1>5. CASE (pc' = "idle" /\ next' = 0) \/ pc' \in {"write"} \cup HandlerPhase \cup FinallyPhase
  BY <1>5
<1>6. CASE pc \in {"prekill"} \cup LoadedPhase /\ pc' \in LoadedPhase
  BY <1>3, <1>6
<1>7. CASE UNCHANGED <<pc, next>>
  BY <1>1, <1>2, <1>3, <1>7 DEF NoValidatorKey, OneGenesis, OnePeerList
<1> QED
  BY <1>1, <1>4, <1>5, <1>6, <1>7

LEMMA FInvStep == ASSUME Typed, FInv, [Next]_vars PROVE FInv'
BY FInvSetup, FInvRest DEF Next, HarnessStep, BoundReached

\* The invariant of the files, with the types it rests on.
THEOREM FilesInvariant == Spec => [](Typed /\ FInv)
<1>1. Init => Typed /\ FInv
  BY TypedInit, FInvInit
<1>2. Typed /\ FInv /\ [Next]_vars => (Typed /\ FInv)'
  BY TypedStep, FInvStep
<1> QED
  BY <1>1, <1>2, PTL DEF Spec

\* All nodes of a launch have one genesis, made of the keys in their homes, and
\* one list of peers, whatever earlier invocations left there.
THEOREM LaunchesAgree == Spec => []FilesAgree
<1>1. FInv => FilesAgree
  BY DEF FInv, FilesAgree, LoadedPhase, OneGenesis, OnePeerList
<1> QED
  BY <1>1, FilesInvariant, PTL

\* No observer is launched with a validator key in its home.
THEOREM ObserversObserve == Spec => []ObserversDoNotValidate
<1>1. FInv => ObserversDoNotValidate
  BY DEF FInv, ObserversDoNotValidate, LoadedPhase, NoValidatorKey
<1> QED
  BY <1>1, FilesInvariant, PTL


(***************************************************************************)
(* The load.                                                               *)
(***************************************************************************)

Fed(s) == \E i \in Validator : /\ {t \in target : t[1] = s} = {<<s, i>>}
                               /\ <<i, s>> \in assignment

\* The shards of the first m submitters are fed, the others not.
FedBelow(m) ==
  \A s \in Shard : IF s \div Width < m THEN Fed(s) ELSE \A t \in target : t[1] # s

EInv ==
  /\ pc \in {"idle"} \cup SetupPhase \cup LaunchPhase => target = {}
  /\ pc = "submit" => FedBelow(next)
  /\ pc = "fork" => FedBelow(next + 1)
  /\ pc = "measure" => FedBelow(NObservers)

LEMMA Quotient ==
  ASSUME NEW n \in Nat \ {0}, NEW a \in Nat, a % n = 0
  PROVE  a \div n \in Nat /\ a = n * (a \div n)
<1> DEFINE d == a \div n
           m == a % n
<1>1. d \in Nat /\ m \in 0 .. n - 1 /\ a = n * d + m
  OBVIOUS
<1> QED
  BY <1>1

\* Every shard belongs to one of the submitters.
LEMMA Slots == \A s \in Shard : s \div Width \in 0 .. NObservers - 1
<1> USE MembersAssumption
<1> DEFINE w == NValidators \div NObservers
<1>1. w \in Nat /\ NValidators = NObservers * w
  BY Quotient
<1>2. w = Width
  BY DEF Width
<1> HIDE DEF w
<1>3. w # 0
  BY <1>1
<1> SUFFICES ASSUME NEW s \in Shard PROVE s \div w \in 0 .. NObservers - 1
  BY <1>2
<1> DEFINE d == s \div w
<1>4. s \in 0 .. NValidators - 1
  BY DEF Shard, Validator
<1>5. d \in Nat /\ w * d <= s
  BY <1>1, <1>3, <1>4
<1> HIDE DEF d
<1>6. d >= NObservers => w * (d - NObservers) >= 0
  BY <1>1, <1>5
<1>7. w * (d - NObservers) = w * d - NValidators
  BY <1>1, <1>5
<1>8. ~ (d >= NObservers)
  BY <1>1, <1>4, <1>5, <1>6, <1>7
<1> QED
  BY <1>5, <1>8 DEF d

LEMMA NoneFed == target = {} => FedBelow(0)
  BY Slots DEF FedBelow

LEMMA EInvInit == Init => EInv
  BY DEF Init, EInv, SetupPhase, LaunchPhase

\* A submitter is given the shards of its own number, each at a validator that
\* the verification found for it.
LEMMA EInvFork == ASSUME Typed, EInv, ForkSubmitter PROVE EInv'
<1> DEFINE V(s) == CHOOSE i \in Ports(s) : TRUE
<1>1. /\ pc = "submit" /\ pc' = "fork" /\ next' = next /\ assignment' = assignment
      /\ next \in Nat /\ target \subseteq Shard \X Validator
      /\ target' = target \cup {<<s, V(s)>> : s \in ShardsOf(next)}
  BY DEF ForkSubmitter, Typed, TypeOK
<1>2. \A s \in Shard : V(s) \in Validator /\ <<V(s), s>> \in assignment
  <2>1. \A s \in Shard : V(s) \in Ports(s)
    BY DEF ForkSubmitter, Resolved
  <2> QED
    BY <2>1 DEF Ports
<1> HIDE DEF V
<1>3. FedBelow(next)
  BY <1>1 DEF EInv
<1>4. ASSUME NEW s \in Shard
      PROVE  IF s \div Width < next + 1 THEN Fed(s)' ELSE \A t \in target' : t[1] # s
  <2>1. s \div Width \in Nat
    BY Slots
  <2>2. ShardsOf(next) \subseteq Shard /\ (s \in ShardsOf(next) <=> s \div Width = next)
    BY DEF ShardsOf
  <2>3. CASE s \div Width < next
    <3>1. Fed(s)
      BY <1>3, <2>3 DEF FedBelow
    <3>2. s \notin ShardsOf(next)
      BY <1>1, <2>1, <2>2, <2>3
    <3>3. {t \in target' : t[1] = s} = {t \in target : t[1] = s}
      BY <1>1, <3>2
    <3> QED
      BY <1>1, <2>1, <2>3, <3>1, <3>3 DEF Fed
  <2>4. CASE s \div Width = next
    <3>1. \A t \in target : t[1] # s
      BY <1>1, <1>3, <2>4 DEF FedBelow
    <3>2. {t \in target' : t[1] = s} = {<<s, V(s)>>}
      BY <1>1, <2>2, <2>4, <3>1
    <3>3. Fed(s)'
      BY <1>1, <1>2, <3>2 DEF Fed
    <3> QED
      BY <1>1, <2>4, <3>3
  <2>5. CASE s \div Width > next
    <3>1. \A t \in target : t[1] # s
      BY <1>1, <1>3, <2>1, <2>5 DEF FedBelow
    <3>2. s \notin ShardsOf(next)
      BY <1>1, <2>1, <2>2, <2>5
    <3> QED
      BY <1>1, <2>1, <2>5, <3>1, <3>2
  <2> QED
    BY <1>1, <2>1, <2>3, <2>4, <2>5
<1>5. FedBelow(next + 1)'
  BY <1>1, <1>4 DEF FedBelow
<1> QED
  BY <1>1, <1>5 DEF EInv, SetupPhase, LaunchPhase

LEMMA EInvRest ==
  ASSUME Typed, EInv,
         \/ \E s \in BOOLEAN : StartRun(s)
         \/ StartFails \/ AccountsMissing \/ SetupFails \/ EnsureKeys \/ DropValidatorKey
         \/ BuildGenesis \/ CopyGenesis \/ WriteConfig
         \/ PreLaunchKill \/ Fork \/ LaunchFails \/ Record \/ GatePass \/ GateTimeout
         \/ Assign \/ Unresolved \/ RecordSubmitter \/ Measure
         \/ CleanupSubmitters \/ KillGroups \/ HandlerPkill \/ HandlerSlept
         \/ FinallyPkill \/ FinallySlept \/ WriteResults \/ Interrupt \/ Crash
         \/ \E p \in Proc : Exec(p) \/ Die(p)
         \/ UNCHANGED vars
  PROVE  EInv'
<1> DEFINE Unloaded == {"idle"} \cup SetupPhase \cup LaunchPhase
           Over == {"write"} \cup HandlerPhase \cup FinallyPhase
<1>1. \/ pc' = "idle" /\ target' = {}
      \/ pc' \in Over
      \/ pc \in Unloaded /\ pc' \in Unloaded /\ target' = target
      \/ pc = "assign" /\ pc' = "submit" /\ next' = 0 /\ target' = target
      \/ /\ pc = "fork" /\ UNCHANGED <<assignment, target>>
         /\ \/ pc' = "submit" /\ next' = next + 1
            \/ pc' = "measure" /\ ~ (next + 1 < NObservers)
      \/ UNCHANGED <<pc, next, assignment, target>>
  <2> USE DEF harness, files, keys, load, Raise, Exit, Keep, SetupPhase, LaunchPhase,
              HandlerPhase, FinallyPhase
  <2>1. CASE (\E s \in BOOLEAN : StartRun(s)) \/ StartFails \/ AccountsMissing \/ SetupFails
    BY <2>1 DEF StartRun, StartFails, AccountsMissing, SetupFails
  <2>2. CASE EnsureKeys \/ DropValidatorKey \/ BuildGenesis \/ CopyGenesis \/ WriteConfig
    BY <2>2 DEF EnsureKeys, DropValidatorKey, BuildGenesis, CopyGenesis, WriteConfig, Advance
  <2>3. CASE PreLaunchKill \/ Fork \/ LaunchFails \/ Record \/ GatePass \/ GateTimeout
    BY <2>3 DEF PreLaunchKill, Fork, LaunchFails, Record, GatePass, GateTimeout, Advance
  <2>4. CASE Assign
    BY <2>4 DEF Assign
  <2>5. CASE Unresolved \/ RecordSubmitter \/ Measure
    BY <2>5 DEF Unresolved, RecordSubmitter, Measure, Advance
  <2>6. CASE CleanupSubmitters \/ KillGroups \/ HandlerPkill \/ HandlerSlept
    BY <2>6 DEF CleanupSubmitters, KillGroups, InCleanup, HandlerPkill, HandlerSlept, LeaveHandler
  <2>7. CASE FinallyPkill \/ FinallySlept \/ WriteResults \/ Interrupt \/ Crash
    BY <2>7 DEF FinallyPkill, FinallySlept, WriteResults, Interrupt, Crash
  <2>8. CASE (\E p \in Proc : Exec(p) \/ Die(p)) \/ UNCHANGED vars
    BY <2>8 DEF Exec, Die, vars
  <2> QED
    BY <2>1, <2>2, <2>3, <2>4, <2>5, <2>6, <2>7, <2>8
<1> USE DEF EInv, SetupPhase, LaunchPhase, HandlerPhase, FinallyPhase
<1>2. CASE (pc' = "idle" /\ target' = {}) \/ pc' \in Over
  BY <1>2
<1>3. CASE pc \in Unloaded /\ pc' \in Unloaded /\ target' = target
  BY <1>3
<1>4. CASE pc = "assign" /\ pc' = "submit" /\ next' = 0 /\ target' = target
  <2>1. target' = {} /\ Width' = Width
    BY <1>4 DEF Width
  <2>2. FedBelow(0)'
    BY <2>1, Slots DEF FedBelow
  <2> QED
    BY <1>4, <2>2 DEF FedBelow
<1>5. CASE pc = "fork" /\ UNCHANGED <<assignment, target>> /\ pc' = "submit" /\ next' = next + 1
  BY <1>5 DEF FedBelow, Fed
<1>6. CASE /\ pc = "fork" /\ UNCHANGED <<assignment, target>> /\ pc' = "measure"
           /\ ~ (next + 1 < NObservers)
  <2>1. \A s \in Shard : s \div Width < next + 1 /\ s \div Width < NObservers
    BY <1>6, Slots, MembersAssumption DEF Typed, TypeOK
  <2> QED
    BY <1>6, <2>1 DEF FedBelow, Fed
<1>7. CASE UNCHANGED <<pc, next, assignment, target>>
  BY <1>7 DEF FedBelow, Fed
<1> QED
  BY <1>1, <1>2, <1>3, <1>4, <1>5, <1>6, <1>7

LEMMA EInvStep == ASSUME Typed, EInv, [Next]_vars PROVE EInv'
BY EInvFork, EInvRest DEF Next, HarnessStep, BoundReached

\* The invariant of the submitters, with the types it rests on.
THEOREM LoadInvariant == Spec => [](Typed /\ EInv)
<1>1. Init => Typed /\ EInv
  BY TypedInit, EInvInit
<1>2. Typed /\ EInv /\ [Next]_vars => (Typed /\ EInv)'
  BY TypedStep, EInvStep
<1> QED
  BY <1>1, <1>2, PTL DEF Spec

\* When the measurement starts every shard has one submitter, which sends to a
\* validator that was found to produce the chunks of the shard.
THEOREM ShardsAreFed == Spec => []EveryShardFed
<1>1. EInv => EveryShardFed
  <2> SUFFICES ASSUME EInv, pc = "measure", NEW s \in Shard PROVE Fed(s)
    BY DEF EveryShardFed, Fed
  <2>1. s \div Width < NObservers
    BY Slots, MembersAssumption
  <2> QED
    BY <2>1 DEF EInv, FedBelow
<1> QED
  BY <1>1, LoadInvariant, PTL

=============================================================================
