------------------------------ MODULE SetupFiles ------------------------------
(***************************************************************************)
(* The run directory of one shard count over successive invocations of     *)
(* scripts/run_benchmark.py, up to the launch: keys, the shared genesis,   *)
(* its copies in the node homes and the configs.  An invocation starts     *)
(* from what the last one left: --setup-only leaves a complete setup, a    *)
(* failure, a SIGINT or a SIGKILL whatever it had got to, a measurement    *)
(* nothing; --skip-setup reuses what it finds.                             *)
(*                                                                         *)
(* A validator key is named by the invocation whose "neard init" made it,  *)
(* an account file by the number of the last change to the accounts, which *)
(* are kept by somebody else.  A genesis is known by what it was built     *)
(* from.                                                                   *)
(*                                                                         *)
(* cut and moved are history variables: an invocation ended between two    *)
(* writes of the setup, and the accounts have changed, since all homes     *)
(* last got their copies.                                                  *)
(***************************************************************************)
EXTENDS Integers, FiniteSets

CONSTANTS N,            \* --shards
          MaxAccounts,  \* largest --accounts
          MaxRuns,      \* bound: invocations
          MaxEdits      \* bound: changes to the account files

ASSUME ShardsAssumption == N \in Nat \ {0}
ASSUME BoundsAssumption == MaxAccounts \in Nat \ {0} /\ MaxRuns \in Nat /\ MaxEdits \in Nat

Node == 0 .. N - 1
Shard == Node
Index == 0 .. MaxAccounts - 1
Absent == -1
Keys == [Node -> Absent .. MaxRuns]
Accounts == [Shard -> [Index -> Absent .. MaxEdits]]
NoKeys == [n \in Node |-> Absent]
NoAccounts == [s \in Shard |-> [i \in Index |-> Absent]]

\* own is what "neard init" writes, torn a file whose writer was cut short.
Genesis == [kind : {"none", "own", "torn", "built"}, keys : Keys,
            accounts : Accounts, many : 0 .. MaxAccounts]
Unbuilt(k) == [kind |-> k, keys |-> NoKeys, accounts |-> NoAccounts, many |-> 0]

VARIABLES
  pc,        \* what the harness is about to do
  run, skip, setupOnly, many,  \* the invocation and its arguments
  next,      \* loop index
  accounts,  \* the account files
  vkey,      \* key files of every home
  shared,    \* run_base/genesis.json
  genesis,   \* genesis.json of every home
  boot,      \* the keys in the boot_nodes of every config.json
  edits, cut, moved

args == <<run, skip, setupOnly, many>>
disk == <<vkey, shared, genesis, boot>>
world == <<accounts, edits, moved>>
vars == <<pc, args, next, disk, world, cut>>

Writing == {"keys", "genesis", "write", "copy", "wipe"}

Init ==
  /\ pc = "idle" /\ run = 0 /\ skip = FALSE /\ setupOnly = FALSE /\ many = 1 /\ next = 0
  /\ accounts = [s \in Shard |-> [i \in Index |-> 0]]
  /\ vkey = NoKeys /\ shared = Unbuilt("none")
  /\ genesis = [n \in Node |-> Unbuilt("none")] /\ boot = [n \in Node |-> NoKeys]
  /\ edits = 0 /\ cut = FALSE /\ moved = FALSE

\* One iteration of a loop over the nodes.
Step(here, after) ==
  /\ pc = here
  /\ next' = IF next + 1 < N THEN next + 1 ELSE 0
  /\ pc' = IF next + 1 < N THEN here ELSE after

-----------------------------------------------------------------------------

StartRun ==
  /\ pc = "idle" /\ run < MaxRuns
  /\ pc' = "accounts" /\ run' = run + 1 /\ next' = 0
  /\ skip' \in BOOLEAN /\ setupOnly' \in BOOLEAN /\ many' \in 1 .. MaxAccounts
  /\ UNCHANGED <<disk, world, cut>>

\* The first and the last account file of every shard are looked for.
EnsureAccounts ==
  /\ pc = "accounts"
  /\ pc' = IF \A s \in Shard, i \in {0, many - 1} : accounts[s][i] # Absent
           THEN "keys" ELSE "idle"
  /\ UNCHANGED <<args, next, disk, world, cut>>

\* Fault: keys that exist are not kept on --skip-setup.
EnsureKey_IgnoresSkip ==
  /\ Step("keys", "genesis")
  /\ \E key \in {run} \cup ({vkey[next]} \ {Absent}) :
       vkey' = [vkey EXCEPT ![next] = key]
  /\ genesis' \in {genesis, [genesis EXCEPT ![next] = Unbuilt("own")]}
  /\ UNCHANGED <<args, shared, boot, world, cut>>

\* The keys are kept, or "neard init" runs, which may keep a key or replace it
\* and may put a genesis of its own into the home.
EnsureKey ==
  /\ Step("keys", "genesis")
  /\ IF skip /\ vkey[next] # Absent
     THEN UNCHANGED <<vkey, genesis>>
     ELSE /\ \E key \in {run} \cup ({vkey[next]} \ {Absent}) :
               vkey' = [vkey EXCEPT ![next] = key]
          /\ genesis' \in {genesis, [genesis EXCEPT ![next] = Unbuilt("own")]}
  /\ UNCHANGED <<args, shared, boot, world, cut>>

ReuseGenesis ==
  /\ pc = "genesis" /\ skip /\ shared.kind # "none"
  /\ pc' = "config"
  /\ UNCHANGED <<args, next, disk, world, cut>>

Built == [kind |-> "built", keys |-> vkey,
          accounts |-> [s \in Shard |-> [i \in Index |->
                          IF i < many THEN accounts[s][i] ELSE Absent]],
          many |-> many]

\* build_genesis reads every account file; a missing one cuts the run short.  The
\* file is open for writing until the next step.
BuildGenesis ==
  /\ pc = "genesis" /\ ~ (skip /\ shared.kind # "none")
  /\ \A s \in Shard, i \in 0 .. many - 1 : accounts[s][i] # Absent
  /\ pc' = "write" /\ shared' = Unbuilt("torn")
  /\ UNCHANGED <<args, next, vkey, genesis, boot, world, cut>>

WriteGenesis ==
  /\ pc = "write" /\ pc' = "copy"
  /\ shared' = Built
  /\ UNCHANGED <<args, next, vkey, genesis, boot, world, cut>>

Copied == next + 1 = N

\* Fault: a home that has a genesis keeps it.
CopyGenesis_KeepsOld ==
  /\ Step("copy", "config")
  /\ genesis' = IF genesis[next].kind = "none" THEN [genesis EXCEPT ![next] = shared]
                ELSE genesis
  /\ cut' = (cut /\ ~ Copied) /\ moved' = (moved /\ ~ Copied)
  /\ UNCHANGED <<args, vkey, shared, boot, accounts, edits>>

CopyGenesis ==
  /\ Step("copy", "config")
  /\ genesis' = [genesis EXCEPT ![next] = shared]
  /\ cut' = (cut /\ ~ Copied) /\ moved' = (moved /\ ~ Copied)
  /\ UNCHANGED <<args, vkey, shared, boot, accounts, edits>>

WriteConfig ==
  /\ Step("config", IF setupOnly THEN "idle" ELSE "launch")
  /\ boot' = [boot EXCEPT ![next] = vkey]
  /\ UNCHANGED <<args, vkey, shared, genesis, world, cut>>

\* A failed launch, gate or measurement, or no transactions: all files stay.
RunKept ==
  /\ pc = "launch" /\ pc' = "idle"
  /\ UNCHANGED <<args, next, disk, world, cut>>

RunMeasured ==
  /\ pc = "launch" /\ pc' = "wipe"
  /\ UNCHANGED <<args, next, disk, world, cut>>

\* rmtree takes the entries of the run directory in any order.
WipeEntry ==
  /\ pc = "wipe"
  /\ \/ /\ shared.kind # "none" /\ shared' = Unbuilt("none")
        /\ UNCHANGED <<vkey, genesis, boot>>
     \/ \E n \in Node :
          /\ vkey[n] # Absent
          /\ vkey' = [vkey EXCEPT ![n] = Absent]
          /\ genesis' = [genesis EXCEPT ![n] = Unbuilt("none")]
          /\ boot' = [boot EXCEPT ![n] = NoKeys]
          /\ UNCHANGED shared
  /\ UNCHANGED <<pc, args, next, world, cut>>

Wiped ==
  /\ pc = "wipe" /\ shared.kind = "none" /\ vkey = NoKeys
  /\ pc' = "idle" /\ cut' = FALSE
  /\ UNCHANGED <<args, next, disk, world>>

\* An error, SIGINT or SIGKILL.  What was being written is torn.
CutShort ==
  /\ pc \in Writing \cup {"config"} /\ pc' = "idle"
  /\ genesis' \in IF pc = "copy" THEN {genesis, [genesis EXCEPT ![next] = Unbuilt("torn")]}
                  ELSE {genesis}
  /\ cut' = (cut \/ pc \in Writing)
  /\ UNCHANGED <<args, next, vkey, shared, boot, world>>

\* Somebody makes the account files of a shard anew, or some of them.
AccountsChange(s) ==
  /\ pc = "idle" /\ edits < MaxEdits
  /\ edits' = edits + 1 /\ moved' = TRUE
  /\ \E I \in SUBSET Index :
       accounts' = [accounts EXCEPT ![s] = [i \in Index |->
                      IF i \in I THEN edits + 1 ELSE Absent]]
  /\ UNCHANGED <<pc, args, next, disk, cut>>

Next ==
  \/ StartRun \/ EnsureAccounts \/ EnsureKey \/ ReuseGenesis \/ BuildGenesis
  \/ WriteGenesis \/ CopyGenesis \/ WriteConfig \/ RunKept \/ RunMeasured
  \/ WipeEntry \/ Wiped \/ CutShort
  \/ \E s \in Shard : AccountsChange(s)

Spec == Init /\ [][Next]_vars

-----------------------------------------------------------------------------
(* Correctness.                                                            *)

\* Every variable stays in its type.
TypeOK ==
  /\ pc \in Writing \cup {"idle", "accounts", "config", "launch"}
  /\ run \in 0 .. MaxRuns /\ skip \in BOOLEAN /\ setupOnly \in BOOLEAN
  /\ many \in 1 .. MaxAccounts /\ next \in Node
  /\ accounts \in Accounts /\ vkey \in Keys /\ shared \in Genesis
  /\ genesis \in [Node -> Genesis] /\ boot \in [Node -> Keys]
  /\ edits \in 0 .. MaxEdits /\ cut \in BOOLEAN /\ moved \in BOOLEAN

\* All nodes start from one genesis, made of the keys and accounts of today.
HomesAgree == \A n \in Node : genesis[n] = Built

\* Whatever earlier invocations left behind, one without --skip-setup launches
\* nodes that agree on the genesis and know each other's keys.
FreshSetupAgrees ==
  pc = "launch" => (skip \/ HomesAgree) /\ \A n \in Node : boot[n] = vkey

\* So does one with --skip-setup, unless an invocation was cut short in its
\* setup or while it removed the directory, or the accounts or --accounts have
\* changed since.
ReusedSetupAgrees ==
  pc = "launch" /\ skip /\ ~ cut /\ ~ moved /\ shared.many = many => HomesAgree

=============================================================================
