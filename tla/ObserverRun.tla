----------------------------- MODULE ObserverRun -----------------------------
(***************************************************************************)
(* scripts/observer_scaling.py: successive invocations of the experiment   *)
(* with validators, observers and external submitters.  An invocation      *)
(* writes keys, genesis and configs into the node homes, launches a neard  *)
(* on every home, waits for the validators, starts the submitters against  *)
(* the validators that produce their shards, measures, and cleans up.      *)
(*                                                                         *)
(* A process is named by its member of the experiment and its invocation.  *)
(* pkill reaches neard processes only: a submitter is killed through the   *)
(* list of the harness that started it or not at all.                      *)
(*                                                                         *)
(* A key is named by the invocation whose "neard init" made it, 0 for one  *)
(* before those modelled here; a genesis or a list of boot nodes by the    *)
(* keys it was built from.                                                 *)
(*                                                                         *)
(* Timing assumption, as in BenchmarkRun: numactl has become neard or has  *)
(* exited when a sleep of the harness or the setup is over (Settled).      *)
(*                                                                         *)
(* crashed, lost and unkilled are history variables: invocations that were *)
(* killed, children forked but not recorded when a SIGINT came, and        *)
(* invocations in which a pkill failed.                                    *)
(***************************************************************************)
EXTENDS Integers, FiniteSets

CONSTANTS NValidators,  \* N_VALIDATORS = N_SHARDS
          NObservers,   \* N_OBSERVERS, and the number of submitters
          MaxRuns,      \* bound: invocations
          MaxDeaths,    \* bound: processes that exit on their own
          PkillMayFail, \* whether pkill may exit with a code above 1
          InitReplaces  \* whether "neard init" replaces a key that exists

ASSUME MembersAssumption == /\ NObservers \in Nat \ {0}
                            /\ NValidators \in Nat \ {0}
                            /\ NValidators % NObservers = 0
ASSUME BoundsAssumption == MaxRuns \in Nat /\ MaxDeaths \in Nat
ASSUME ToolsAssumption == PkillMayFail \in BOOLEAN /\ InitReplaces \in BOOLEAN

Validator == 0 .. NValidators - 1
Shard == Validator
NHomes == NValidators + NObservers
Home == ({"node"} \X Validator) \cup ({"observer"} \X (0 .. NObservers - 1))
Submitter == {"submitter"} \X (0 .. NObservers - 1)
Run == 1 .. MaxRuns
Proc == (Home \cup Submitter) \X Run
Absent == -1
Content == [Home -> Absent .. MaxRuns]
Nothing == [h \in Home |-> Absent]

\* The i-th home of the loops: validators first, then observers.
HomeAt(i) == IF i < NValidators THEN <<"node", i>>
             ELSE <<"observer", i - NValidators>>
IsObserver(h) == h[1] = "observer"

SetupPhase == {"keys", "unlink", "genesis", "copy", "config", "prekill"}
LaunchPhase == {"launch", "spawn", "gate", "assign"}
LoadPhase == {"submit", "fork", "measure"}
TryPhase == SetupPhase \cup LaunchPhase \cup LoadPhase
HandlerPhase == {"hsub", "hgroups", "hpkill", "hslept"}
FinallyPhase == {"fsub", "fgroups", "fpkill", "fslept"}

VARIABLES
  pc,          \* what the harness is about to do
  run, skip,   \* number of the invocation, and --skip-setup
  next,        \* loop index
  cont,        \* where the handler's SystemExit goes: fsub or idle
  measured,    \* measurement is not None
  interrupted, \* whether the SIGINT has been delivered
  nkey, vkey,  \* node_key.json and validator_key.json of every home
  shared, genesis, boot,  \* run_dir/genesis.json; genesis and config per home
  proc,        \* none (or gone), numactl or run
  recorded,    \* ObsProcessState: neard_processes and submitters
  assignment,  \* node -> shard, as the validators RPC gave it
  target,      \* shard -> validator its submitter was started with
  results,     \* invocations whose results were written
  deaths, crashed, lost, unkilled

harness == <<run, skip>>
keys == <<nkey, vkey>>
files == <<keys, shared, genesis, boot>>
load == <<assignment, target>>
history == <<deaths, crashed, lost, unkilled>>
vars == <<pc, harness, next, cont, measured, interrupted, files, proc, recorded,
          load, results, history>>

Executing(p) == proc[p] \in {"numactl", "run"}
Settled == \A p \in Proc : proc[p] # "numactl"
Mine(m) == <<m, run>>

\* The run directory is fresh or that of a complete earlier invocation.
Init ==
  /\ pc = "idle" /\ run = 0 /\ skip = FALSE /\ next = 0 /\ cont = "idle"
  /\ measured = FALSE /\ interrupted = FALSE
  /\ \/ nkey = Nothing /\ vkey = Nothing /\ shared = Nothing
     \/ /\ nkey = [h \in Home |-> 0] /\ shared = nkey
        /\ vkey = [h \in Home |-> IF IsObserver(h) THEN Absent ELSE 0]
  /\ genesis = [h \in Home |-> shared] /\ boot = genesis
  /\ proc = [p \in Proc |-> "none"] /\ recorded = {}
  /\ assignment = {} /\ target = {}
  /\ results = {} /\ deaths = 0 /\ crashed = {} /\ lost = {} /\ unkilled = {}

-----------------------------------------------------------------------------
(* Control flow.                                                           *)

\* An exception inside the try block goes straight to the finally block.
Raise == pc' = "fsub" /\ next' = 0

\* Fault: the loop runs once too often.
Advance_TooFar(n, again, after) ==
  IF next < n THEN pc' = again /\ next' = next + 1
              ELSE pc' = after /\ next' = 0

\* The next element of a loop over the first n homes or submitters.
Advance(n, again, after) ==
  IF next + 1 < n THEN pc' = again /\ next' = next + 1
                  ELSE pc' = after /\ next' = 0

\* The interpreter exits, and what it remembers is gone.
Exit == /\ pc' = "idle" /\ next' = 0 /\ measured' = FALSE
        /\ recorded' = {} /\ assignment' = {} /\ target' = {}
Keep == UNCHANGED <<next, measured, recorded, load>>

PkillHits == /\ proc' = [p \in Proc |->
                           IF p[1] \in Home /\ proc[p] = "run" THEN "none" ELSE proc[p]]
             /\ UNCHANGED unkilled

PkillFails == PkillMayFail /\ unkilled' = unkilled \cup {run} /\ UNCHANGED proc

-----------------------------------------------------------------------------
(* Keys, genesis and configs.                                              *)

\* Preflight passes and the handler is installed.
StartRun(s) ==
  /\ pc = "idle" /\ run < MaxRuns
  /\ pc' = "keys" /\ run' = run + 1 /\ skip' = s
  /\ cont' = "idle" /\ Keep
  /\ UNCHANGED <<interrupted, files, proc, results, history>>

\* Preflight fails, or it was a dry run; nothing has been touched.
StartFails ==
  /\ pc = "idle" /\ run < MaxRuns
  /\ run' = run + 1
  /\ UNCHANGED <<pc, skip, next, cont, measured, interrupted, files, proc,
                 recorded, load, results, history>>

\* An account file is missing: the first call of the try block.
AccountsMissing ==
  /\ pc = "keys" /\ next = 0 /\ Raise
  /\ UNCHANGED <<harness, cont, measured, interrupted, files, proc, recorded,
                 load, results, history>>

\* neard init fails, or a file cannot be written.
SetupFails ==
  /\ pc \in {"keys", "unlink", "copy", "config"} /\ Raise
  /\ UNCHANGED <<harness, cont, measured, interrupted, files, proc, recorded,
                 load, results, history>>

KeysPresent(h) == nkey[h] # Absent /\ (IsObserver(h) \/ vkey[h] # Absent)

InitKey(old) == IF old = Absent \/ InitReplaces THEN run ELSE old

\* Without --skip-setup, or when a key is missing, neard init makes the keys.
EnsureKeys ==
  /\ pc = "keys"
  /\ LET h == HomeAt(next) IN
     /\ IF skip /\ KeysPresent(h) THEN UNCHANGED keys
        ELSE /\ nkey' = [nkey EXCEPT ![h] = InitKey(@)]
             /\ vkey' = [vkey EXCEPT ![h] = InitKey(@)]
     /\ IF IsObserver(h) THEN pc' = "unlink" /\ UNCHANGED next
        ELSE Advance(NHomes, "keys", "genesis")
  /\ UNCHANGED <<harness, cont, measured, interrupted, shared, genesis, boot,
                 proc, recorded, load, results, history>>

\* Fault: validator_key.json is only removed where neard init was called.
DropValidatorKey_AfterInit ==
  /\ pc = "unlink"
  /\ vkey' = IF skip THEN vkey ELSE [vkey EXCEPT ![HomeAt(next)] = Absent]
  /\ Advance(NHomes, "keys", "genesis")
  /\ UNCHANGED <<harness, cont, measured, interrupted, nkey, shared, genesis,
                 boot, proc, recorded, load, results, history>>

\* An observer's home keeps no validator_key.json.
DropValidatorKey ==
  /\ pc = "unlink"
  /\ vkey' = [vkey EXCEPT ![HomeAt(next)] = Absent]
  /\ Advance(NHomes, "keys", "genesis")
  /\ UNCHANGED <<harness, cont, measured, interrupted, nkey, shared, genesis,
                 boot, proc, recorded, load, results, history>>

\* The keys that genesis records for the accounts of the homes.
AccountKeys == [h \in Home |-> IF IsObserver(h) THEN nkey[h] ELSE vkey[h]]

\* The genesis is always built anew; a missing account file is an error.  The
\* help of --skip-setup promises "Reuse existing keys/genesis/configs when
\* present": only the keys are reused, and FilesAgree rests on that.
BuildGenesis ==
  /\ pc = "genesis"
  /\ \/ shared' = AccountKeys /\ pc' = "copy" /\ next' = 0
     \/ Raise /\ UNCHANGED shared
  /\ UNCHANGED <<harness, cont, measured, interrupted, keys, genesis, boot,
                 proc, recorded, load, results, history>>

\* Fault: the loop over the homes of the observers is missing.
CopyGenesis_ValidatorsOnly ==
  /\ pc = "copy"
  /\ genesis' = [genesis EXCEPT ![HomeAt(next)] = shared]
  /\ Advance(NValidators, "copy", "config")
  /\ UNCHANGED <<harness, cont, measured, interrupted, keys, shared, boot,
                 proc, recorded, load, results, history>>

CopyGenesis ==
  /\ pc = "copy"
  /\ genesis' = [genesis EXCEPT ![HomeAt(next)] = shared]
  /\ Advance(NHomes, "copy", "config")
  /\ UNCHANGED <<harness, cont, measured, interrupted, keys, shared, boot,
                 proc, recorded, load, results, history>>

\* config.json: boot_nodes names the node keys of all homes.
WriteConfig ==
  /\ pc = "config"
  /\ boot' = [boot EXCEPT ![HomeAt(next)] = nkey]
  /\ Advance(NHomes, "config", "prekill")
  /\ UNCHANGED <<harness, cont, measured, interrupted, keys, shared, genesis,
                 proc, recorded, load, results, history>>

-----------------------------------------------------------------------------
(* Launch, gate, submitters, measurement.                                  *)

\* Fault: the pre-launch pkill is left out.
PreLaunchKill_Skipped ==
  /\ pc = "prekill" /\ Settled
  /\ pc' = "launch" /\ next' = 0
  /\ UNCHANGED <<harness, cont, measured, interrupted, files, proc, recorded,
                 load, results, history>>

\* pkill, three seconds, and the data directories are wiped.
PreLaunchKill ==
  /\ pc = "prekill" /\ Settled
  /\ \/ PkillHits /\ pc' = "launch" /\ next' = 0
     \/ PkillFails /\ Raise
  /\ UNCHANGED <<harness, cont, measured, interrupted, files, recorded, load,
                 results, deaths, crashed, lost>>

Fork ==
  /\ pc = "launch"
  /\ proc' = [proc EXCEPT ![Mine(HomeAt(next))] = "numactl"]
  /\ pc' = "spawn"
  /\ UNCHANGED <<harness, next, cont, measured, interrupted, files, recorded,
                 load, results, history>>

LaunchFails ==
  /\ pc = "launch" /\ Raise
  /\ UNCHANGED <<harness, cont, measured, interrupted, files, proc, recorded,
                 load, results, history>>

\* Popen has returned and the process is appended to the list.
Record ==
  /\ pc = "spawn"
  /\ recorded' = recorded \cup {HomeAt(next)}
  /\ Advance(NHomes, "launch", "gate")
  /\ UNCHANGED <<harness, cont, measured, interrupted, files, proc, load,
                 results, history>>

\* Only the validators count; an observer that is silent is reported.
GatePass ==
  /\ pc = "gate" /\ Settled
  /\ \A i \in Validator : proc[Mine(<<"node", i>>)] = "run"
  /\ pc' = "assign"
  /\ UNCHANGED <<harness, next, cont, measured, interrupted, files, proc,
                 recorded, load, results, history>>

\* Fault: the deadline is looked at only when every validator answers.
GateTimeout_WhenAllAnswer ==
  /\ pc = "gate" /\ Settled
  /\ IF \A i \in Validator : proc[Mine(<<"node", i>>)] = "run" THEN Raise
     ELSE UNCHANGED <<pc, next>>
  /\ UNCHANGED <<harness, cont, measured, interrupted, files, proc, recorded,
                 load, results, history>>

\* READINESS_TIMEOUT_S is over.
GateTimeout ==
  /\ pc = "gate" /\ Settled /\ Raise
  /\ UNCHANGED <<harness, cont, measured, interrupted, files, proc, recorded,
                 load, results, history>>

\* verify_chunk_producer_shard_assignment gives a pair for some validators,
\* maybe two for the same shard; fewer than all are an error.
Assign ==
  /\ pc = "assign"
  /\ \E known \in SUBSET Validator : \E a \in [known -> Shard] :
       IF known = Validator
       THEN /\ pc' = "submit" /\ next' = 0
            /\ assignment' = {<<i, a[i]>> : i \in known}
       ELSE Raise /\ UNCHANGED assignment
  /\ UNCHANGED <<harness, cont, measured, interrupted, files, proc, recorded,
                 target, results, history>>

Ports(s) == {i \in Validator : <<i, s>> \in assignment}
Resolved == \A s \in Shard : Ports(s) # {}
Width == NValidators \div NObservers
ShardsOf(k) == {s \in Shard : s \div Width = k}

Unresolved ==
  /\ pc = "submit" /\ ~ Resolved /\ Raise
  /\ UNCHANGED <<harness, cont, measured, interrupted, files, proc, recorded,
                 load, results, history>>

\* Fault: the port of a shard nobody was found for is that of its own number.
ForkSubmitter_Guesses ==
  /\ pc = "submit"
  /\ proc' = [proc EXCEPT ![Mine(<<"submitter", next>>)] = "run"]
  /\ target' = target \cup
       {<<s, IF Ports(s) = {} THEN s ELSE CHOOSE i \in Ports(s) : TRUE>> :
          s \in ShardsOf(next)}
  /\ pc' = "fork"
  /\ UNCHANGED <<harness, next, cont, measured, interrupted, files, recorded,
                 assignment, results, history>>

\* Submitter k drives the shards 2k and 2k+1 at the validators found for them.
ForkSubmitter ==
  /\ pc = "submit" /\ Resolved
  /\ proc' = [proc EXCEPT ![Mine(<<"submitter", next>>)] = "run"]
  /\ target' = target \cup
       {<<s, CHOOSE i \in Ports(s) : TRUE>> : s \in ShardsOf(next)}
  /\ pc' = "fork"
  /\ UNCHANGED <<harness, next, cont, measured, interrupted, files, recorded,
                 assignment, results, history>>

RecordSubmitter ==
  /\ pc = "fork"
  /\ recorded' = recorded \cup {<<"submitter", next>>}
  /\ Advance(NObservers, "submit", "measure")
  /\ UNCHANGED <<harness, cont, measured, interrupted, files, proc, load,
                 results, history>>

\* measure_run_observer returns or raises (a request or a sum that fails);
\* nobody looks whether the submitters still run.
Measure ==
  /\ pc = "measure" /\ Raise
  /\ measured' \in BOOLEAN
  /\ UNCHANGED <<harness, cont, interrupted, files, proc, recorded, load,
                 results, history>>

-----------------------------------------------------------------------------
(* Cleanup: in the finally block and in the SIGINT handler.                *)

Kill(S) == proc' = [p \in Proc |-> IF p[1] \in S /\ p[2] = run /\ Executing(p)
                                   THEN "none" ELSE proc[p]]
InCleanup(f, h, f1, h1) == \/ pc = f /\ pc' = f1
                           \/ pc = h /\ pc' = h1

\* SIGTERM, one second, SIGKILL to every submitter of the list.
CleanupSubmitters ==
  /\ InCleanup("fsub", "hsub", "fgroups", "hgroups")
  /\ Kill(recorded \cap Submitter)
  /\ UNCHANGED <<harness, next, cont, measured, interrupted, files, recorded,
                 load, results, history>>

\* Fault: only the validators are killed one by one.
KillGroups_ValidatorsOnly ==
  /\ InCleanup("fgroups", "hgroups", "fpkill", "hpkill")
  /\ Kill({h \in recorded \cap Home : ~ IsObserver(h)})
  /\ UNCHANGED <<harness, next, cont, measured, interrupted, files, recorded,
                 load, results, history>>

\* SIGKILL to the process group of every neard of the list.
KillGroups ==
  /\ InCleanup("fgroups", "hgroups", "fpkill", "hpkill")
  /\ Kill(recorded \cap Home)
  /\ UNCHANGED <<harness, next, cont, measured, interrupted, files, recorded,
                 load, results, history>>

\* SystemExit: into the finally block, or out of it.
LeaveHandler == IF cont = "fsub" THEN pc' = "fsub" /\ Keep ELSE Exit

HandlerPkill ==
  /\ pc = "hpkill"
  /\ \/ PkillHits /\ pc' = "hslept" /\ Keep
     \/ PkillFails /\ LeaveHandler
  /\ UNCHANGED <<harness, cont, interrupted, files, results, deaths, crashed, lost>>

HandlerSlept ==
  /\ pc = "hslept" /\ Settled
  /\ LeaveHandler
  /\ UNCHANGED <<harness, cont, interrupted, files, proc, results, history>>

\* An exception of the finally block replaces everything that follows.
FinallyPkill ==
  /\ pc = "fpkill"
  /\ \/ PkillHits /\ pc' = "fslept" /\ Keep
     \/ PkillFails /\ Exit
  /\ UNCHANGED <<harness, cont, interrupted, files, results, deaths, crashed, lost>>

FinallySlept ==
  /\ pc = "fslept" /\ Settled
  /\ IF measured THEN pc' = "write" /\ Keep ELSE Exit
  /\ UNCHANGED <<harness, cont, interrupted, files, proc, results, history>>

WriteResults ==
  /\ pc = "write"
  /\ results' = results \cup {run} /\ Exit
  /\ UNCHANGED <<harness, cont, interrupted, files, proc, history>>

-----------------------------------------------------------------------------
(* Signals and the processes themselves.                                   *)

\* Ctrl-C; a child between Popen and append is in no list.
Interrupt ==
  /\ ~ interrupted /\ pc \notin {"idle"} \cup HandlerPhase
  /\ interrupted' = TRUE
  /\ cont' = IF pc \in TryPhase THEN "fsub" ELSE "idle"
  /\ lost' = CASE pc = "spawn" -> lost \cup {Mine(HomeAt(next))}
               [] pc = "fork" -> lost \cup {Mine(<<"submitter", next>>)}
               [] OTHER -> lost
  /\ pc' = "hsub" /\ next' = 0
  /\ UNCHANGED <<harness, measured, files, proc, recorded, load, results,
                 deaths, crashed, unkilled>>

\* The harness is killed by a signal it does not handle.
Crash ==
  /\ pc # "idle" /\ crashed = {} /\ Exit
  /\ crashed' = crashed \cup {run}
  /\ UNCHANGED <<harness, cont, interrupted, files, proc, results, deaths, lost,
                 unkilled>>

Exec(p) ==
  /\ proc[p] = "numactl"
  /\ proc' = [proc EXCEPT ![p] = "run"]
  /\ UNCHANGED <<pc, harness, next, cont, measured, interrupted, files,
                 recorded, load, results, history>>

Die(p) ==
  /\ Executing(p) /\ deaths < MaxDeaths
  /\ proc' = [proc EXCEPT ![p] = "none"] /\ deaths' = deaths + 1
  /\ UNCHANGED <<pc, harness, next, cont, measured, interrupted, files,
                 recorded, load, results, crashed, lost, unkilled>>

BoundReached == pc = "idle" /\ run = MaxRuns /\ UNCHANGED vars

HarnessStep ==
  \/ AccountsMissing \/ SetupFails \/ EnsureKeys \/ DropValidatorKey
  \/ BuildGenesis \/ CopyGenesis \/ WriteConfig
  \/ PreLaunchKill \/ Fork \/ LaunchFails \/ Record \/ GatePass \/ GateTimeout
  \/ Assign \/ Unresolved \/ ForkSubmitter \/ RecordSubmitter \/ Measure
  \/ CleanupSubmitters \/ KillGroups \/ HandlerPkill \/ HandlerSlept
  \/ FinallyPkill \/ FinallySlept \/ WriteResults

Next ==
  \/ \E s \in BOOLEAN : StartRun(s)
  \/ StartFails \/ HarnessStep \/ Interrupt \/ Crash
  \/ \E p \in Proc : Exec(p) \/ Die(p)
  \/ BoundReached

Spec == Init /\ [][Next]_vars

\* Every step of the harness has a timeout, and numactl execs or exits.
FairSpec == Spec /\ WF_vars(HarnessStep) /\ \A p \in Proc : WF_vars(Exec(p))

-----------------------------------------------------------------------------
(* Correctness.                                                            *)

\* Every variable stays in its type.
TypeOK ==
  /\ pc \in {"idle", "write"} \cup TryPhase \cup HandlerPhase \cup FinallyPhase
  /\ run \in 0 .. MaxRuns /\ skip \in BOOLEAN /\ next \in 0 .. NHomes - 1
  /\ cont \in {"fsub", "idle"} /\ measured \in BOOLEAN /\ interrupted \in BOOLEAN
  /\ nkey \in Content /\ vkey \in Content /\ shared \in Content
  /\ genesis \in [Home -> Content] /\ boot \in [Home -> Content]
  /\ proc \in [Proc -> {"none", "numactl", "run"}]
  /\ recorded \subseteq Home \cup Submitter
  /\ assignment \subseteq Validator \X Shard
  /\ target \subseteq Shard \X Validator
  /\ results \subseteq Run /\ crashed \subseteq Run /\ unkilled \subseteq Run
  /\ lost \subseteq Proc /\ deaths \in 0 .. MaxDeaths

\* When an invocation is over, or writes its results, its processes are gone,
\* through whatever exception, SIGINT or dead process it got there.  Left are
\* those of an invocation that was killed, a node that had no record in an
\* invocation whose pkill failed, and a submitter that had no record.
GoneAfterRun ==
  pc \in {"idle", "write"} => \A p \in Proc : Executing(p) =>
    \/ p[2] \in crashed
    \/ p \in lost /\ (p[1] \in Submitter \/ p[2] \in unkilled)

\* From the launch to the measurement no node of an earlier invocation runs,
\* and load comes from an earlier invocation only if that was killed or was
\* interrupted right between a Popen and its append.
ForeignLoadExplained ==
  pc \in LaunchPhase \cup LoadPhase =>
    \A p \in Proc : Executing(p) /\ p[2] < run =>
      p[1] \in Submitter /\ (p[2] \in crashed \/ p \in lost)

\* When the measurement starts every shard has been given to one submitter of
\* this invocation, at the validator that was found to produce its chunks.
EveryShardFed ==
  pc = "measure" => \A s \in Shard :
    \E i \in Validator : /\ {t \in target : t[1] = s} = {<<s, i>>}
                         /\ <<i, s>> \in assignment

\* The nodes of one launch start from one genesis, which holds the keys that
\* are in their homes, and find each other, whatever mixture of keys and files
\* earlier invocations left there and with --skip-setup or without.  This is a
\* property of what the code does, not of what the help of --skip-setup says:
\* if an existing genesis were reused as documented, a key that had to be made
\* anew would not be in it.
FilesAgree ==
  pc \in LaunchPhase \cup LoadPhase =>
    \A h \in Home : genesis[h] = AccountKeys /\ boot[h] = nkey

\* No observer is launched with a validator key in its home, also when the
\* invocation that had neard init write it was stopped before removing it.
ObserversDoNotValidate ==
  pc \in LaunchPhase \cup LoadPhase =>
    \A h \in Home : IsObserver(h) => vkey[h] = Absent

\* Every invocation ends, with nodes that never become ready, dead processes, a
\* SIGINT in the cleanup or a pkill that fails there.
EveryRunEnds == pc # "idle" ~> pc = "idle"

=============================================================================
