----------------------------- MODULE GenesisBake -----------------------------
(***************************************************************************)
(* scripts/genesis_bake.py, run again and again on one bench directory: it *)
(* makes the account files of every shard anew, appends their records to   *)
(* the genesis of node0, copies that genesis to the other homes and wipes  *)
(* the databases.  Between the bakes nodes may run.                        *)
(*                                                                         *)
(* A key is named by the bake that made it.  A genesis is the sequence of  *)
(* the bakes that appended to it, each with its shard and account counts.  *)
(*                                                                         *)
(* cut is a history variable: the last bake ended early.                   *)
(***************************************************************************)
EXTENDS Integers, Sequences, FiniteSets

CONSTANTS MaxShards,    \* largest --num-shards
          MaxAccounts,  \* largest --num-accounts
          Homes,        \* homes besides node0
          MaxBakes      \* bound: invocations

Shard == 0 .. MaxShards - 1
Index == 0 .. MaxAccounts - 1
Home == 0 .. Homes
Absent == 0
Torn == <<[bake |-> 0, shards |-> 0, accounts |-> 0]>>  \* cut short while written
None == <<[bake |-> -1, shards |-> 0, accounts |-> 0]>> \* no database

VARIABLES
  pc,        \* idle, users, genesis, copy or wipe
  args,      \* the bake: its number, --num-shards and --num-accounts
  skipWipe,  \* --skip-wipe-data
  next,      \* loop index
  users,     \* the account files
  genesis,   \* genesis.json of every home
  data,      \* the genesis that the database of a home was made from
  cut

vars == <<pc, args, skipWipe, next, users, genesis, data, cut>>

Init ==
  /\ pc = "idle" /\ args = [bake |-> 0, shards |-> 1, accounts |-> 1]
  /\ skipWipe = FALSE /\ next = 0
  /\ users = [s \in Shard |-> [i \in Index |-> Absent]]
  /\ genesis = [h \in Home |-> <<>>] /\ data = [h \in Home |-> None]
  /\ cut = TRUE

\* One iteration of a loop over shards or homes.
Loop(here, last, after) ==
  /\ pc = here
  /\ IF next < last THEN pc' = here /\ next' = next + 1 ELSE pc' = after /\ next' = 0

-----------------------------------------------------------------------------

StartBake ==
  /\ pc = "idle" /\ args.bake < MaxBakes
  /\ pc' = "users" /\ next' = 0
  /\ \E s \in 1 .. MaxShards, a \in 1 .. MaxAccounts :
       args' = [bake |-> args.bake + 1, shards |-> s, accounts |-> a]
  /\ skipWipe' \in BOOLEAN
  /\ UNCHANGED <<users, genesis, data, cut>>

\* The directory of a shard is removed and filled anew up to some account.
Made(upTo) == [users EXCEPT ![next] =
                 [i \in Index |-> IF i < upTo THEN args.bake ELSE Absent]]

\* Fault: the directory is not removed first.
WriteShard_KeepsDir ==
  /\ Loop("users", args.shards - 1, "genesis")
  /\ users' = [users EXCEPT ![next] =
                 [i \in Index |-> IF i < args.accounts THEN args.bake ELSE @[i]]]
  /\ UNCHANGED <<args, skipWipe, genesis, data, cut>>

WriteShard ==
  /\ Loop("users", args.shards - 1, "genesis")
  /\ users' = Made(args.accounts)
  /\ UNCHANGED <<args, skipWipe, genesis, data, cut>>

\* The records are appended to those of earlier bakes, whose accounts and keys
\* stay; total_supply is summed anew over all of them.
AppendRecords ==
  /\ pc = "genesis" /\ genesis[0] # Torn
  /\ pc' = "copy" /\ next' = 1
  /\ genesis' = [genesis EXCEPT ![0] = Append(@, args)]
  /\ UNCHANGED <<args, skipWipe, users, data, cut>>

\* An unreadable genesis ends this and every later bake, after the account files
\* have been replaced.
GenesisUnreadable ==
  /\ pc = "genesis" /\ genesis[0] = Torn
  /\ pc' = "idle" /\ cut' = TRUE
  /\ UNCHANGED <<args, skipWipe, next, users, genesis, data>>

Copied == [genesis EXCEPT ![next] = genesis[0]]

CopyGenesis ==
  /\ Loop("copy", Homes, "wipe")
  /\ genesis' = Copied
  /\ UNCHANGED <<args, skipWipe, users, data, cut>>

\* Fault: the databases of homes other than node0 are forgotten.
WipeData_Node0Only ==
  /\ Loop("wipe", Homes, "idle")
  /\ data' = IF skipWipe \/ next > 0 THEN data ELSE [data EXCEPT ![next] = None]
  /\ cut' = (cut /\ pc' # "idle")
  /\ UNCHANGED <<args, skipWipe, users, genesis>>

WipeData ==
  /\ Loop("wipe", Homes, "idle")
  /\ data' = IF skipWipe THEN data ELSE [data EXCEPT ![next] = None]
  /\ cut' = (cut /\ pc' # "idle")
  /\ UNCHANGED <<args, skipWipe, users, genesis>>

\* The bake is killed; what it was writing is torn.
CutShort ==
  /\ pc # "idle" /\ pc' = "idle" /\ cut' = TRUE
  /\ users' \in IF pc = "users" THEN {Made(k) : k \in 0 .. args.accounts} ELSE {users}
  /\ genesis' \in IF pc = "genesis" THEN {genesis, [genesis EXCEPT ![0] = Torn]}
                  ELSE IF pc = "copy" THEN {genesis, [genesis EXCEPT ![next] = Torn]}
                  ELSE {genesis}
  /\ UNCHANGED <<args, skipWipe, next, data>>

\* Somebody runs the nodes, which open their databases or make them.
NodesRun ==
  /\ pc = "idle"
  /\ \E h \in Home :
       data[h] = None /\ genesis[h] # Torn /\ data' = [data EXCEPT ![h] = genesis[h]]
  /\ UNCHANGED <<pc, args, skipWipe, next, users, genesis, cut>>

Next ==
  \/ StartBake \/ WriteShard \/ AppendRecords \/ GenesisUnreadable
  \/ CopyGenesis \/ WipeData \/ CutShort \/ NodesRun

Spec == Init /\ [][Next]_vars

-----------------------------------------------------------------------------
(* Correctness.                                                            *)

\* The entry gives account i of shard s the key of bake b.
Covers(e, s, i) == s < e.shards /\ i < e.accounts
Knows(g, s, i, b) == \E k \in DOMAIN g : g[k].bake = b /\ Covers(g[k], s, i)

Done == pc = "idle" /\ ~ cut

\* After a bake that was not cut short every key that the load generator finds
\* in the directories of its shards is one that every node knows.
BakedKeysAreKnown ==
  Done => \A s \in 0 .. args.shards - 1, i \in Index, h \in Home :
            users[s][i] # Absent => Knows(genesis[h], s, i, users[s][i])

\* No node keeps a database of another genesis than the one it is given, unless
\* the wipe was skipped.
DatabasesAreOfGenesis ==
  Done /\ ~ skipWipe => \A h \in Home : data[h] \in {None, genesis[h]}

=============================================================================
