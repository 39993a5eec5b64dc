----------------------------- MODULE HarnessFiles -----------------------------
(***************************************************************************)
(* The files that outlive an invocation: the run directory that            *)
(* run_benchmark.py sets up, the results it publishes, and the bench       *)
(* directory of genesis_bake.py.  Each of the three is written by its own  *)
(* sequence of invocations, and what an earlier one left, whole or torn,   *)
(* is what the next one starts from.                                       *)
(*                                                                         *)
(* No file belongs to two of them and no property is about two of them, so *)
(* a behaviour of all three is seen through one at a time.  Next therefore *)
(* moves only one of them, the other two being as they are on a machine    *)
(* where nothing has been run yet.                                         *)
(***************************************************************************)
EXTENDS SetupFiles

CONSTANTS Counts,        \* ResultsStore: shard counts the invocations are given
          MaxPublished,  \* bound: invocations
          BakeShards,    \* GenesisBake: largest --num-shards
          BakeAccounts,  \* largest --num-accounts
          BakeHomes,     \* homes besides node0
          MaxBakes       \* bound: invocations

ASSUME StoreAssumption == Counts \subseteq Nat \ {0} /\ MaxPublished \in Nat
ASSUME BakeAssumption == {BakeShards, BakeAccounts, BakeHomes, MaxBakes} \subseteq Nat \ {0}

VARIABLES publishing, published, csv, json, detail, summary, cutRuns, tearer,
          baking, bake, skipWipe, bakeIndex, users, bakeGenesis, data, cutBake

storeVars == <<publishing, published, csv, json, detail, summary, cutRuns, tearer>>
bakeVars == <<baking, bake, skipWipe, bakeIndex, users, bakeGenesis, data, cutBake>>
fileVars == <<vars, storeVars, bakeVars>>

Store == INSTANCE ResultsStore WITH
  Shards <- Counts, MaxRuns <- MaxPublished,
  pc <- publishing, args <- published, cut <- cutRuns

Bakes == INSTANCE GenesisBake WITH
  MaxShards <- BakeShards, MaxAccounts <- BakeAccounts, Homes <- BakeHomes,
  pc <- baking, args <- bake, next <- bakeIndex, genesis <- bakeGenesis, cut <- cutBake

FilesInit == Init /\ Store!Init /\ Bakes!Init

SetupStep == Store!Init /\ Bakes!Init /\ Next /\ UNCHANGED <<storeVars, bakeVars>>
StoreStep == Init /\ Bakes!Init /\ Store!Next /\ UNCHANGED <<vars, bakeVars>>
BakeStep == Init /\ Store!Init /\ Bakes!Next /\ UNCHANGED <<vars, storeVars>>

FilesNext == SetupStep \/ StoreStep \/ BakeStep

FilesSpec == FilesInit /\ [][FilesNext]_fileVars

-----------------------------------------------------------------------------
(* Correctness, besides FreshSetupAgrees and ReusedSetupAgrees.            *)

\* scaling_results_detail.json lists the runs in their order, each once, and
\* every run that measured, unless it was cut short or the file has been torn.
HistoryKept == Store!HistoryKept

\* The summary of a shard count is that of the last record of that count,
\* unless the run of that record was cut short.
SummaryIsOfLastRecord == Store!SummaryIsOfLastRecord

\* After a completed bake every key in the directories of its shards, which the
\* load generator reads, is one that the genesis of every node knows.
BakedKeysAreKnown == Bakes!BakedKeysAreKnown

\* After a completed bake that wiped, no database is of another genesis.
DatabasesAreOfGenesis == Bakes!DatabasesAreOfGenesis

=============================================================================
