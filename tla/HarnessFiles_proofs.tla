-------------------------- MODULE HarnessFiles_proofs --------------------------
(***************************************************************************)
(* Proofs about the files of HarnessFiles, for every number of nodes,      *)
(* accounts, shard counts, homes and invocations.                          *)
(*                                                                         *)
(* The run directory (SetupFiles): between two invocations, and in one     *)
(* that has decided to reuse what is there, the shared genesis is absent   *)
(* or it is the one that the present keys and accounts give and all homes  *)
(* have a copy of it, unless a setup was cut short or the accounts have    *)
(* changed since (Settled).  That takes the keys of all homes to exist     *)
(* once their loop is over (Keyed), since it is their absence that makes   *)
(* --skip-setup create others, and the copies made so far to be right      *)
(* (Copying).                                                              *)
(*                                                                         *)
(* The results (ResultsStore): a run that measured is in the detail file   *)
(* or there is a reason (NoneLost), because the run of the present         *)
(* invocation is the largest (Numbered); and every shard count with a      *)
(* record has a last one, which its summary follows (Summarized).          *)
(*                                                                         *)
(* The bench directory (GenesisBake): the keys of a bake go into the       *)
(* directories of its shards (Filled) before its accounts go into the      *)
(* genesis of node0 and from there to every home (Spread), and the         *)
(* databases go last (Clean).                                              *)
(***************************************************************************)
EXTENDS HarnessFiles, SequenceTheorems, TLAPS

\* What build_genesis makes of the present keys and accounts for --accounts m.
BuiltFor(m) == [kind |-> "built", keys |-> vkey,
                accounts |-> [s \in Shard |-> [i \in Index |->
                                IF i < m THEN accounts[s][i] ELSE Absent]],
                many |-> m]

Whole ==
  \/ shared.kind = "none"
  \/ /\ shared = BuiltFor(shared.many)
     /\ \A n \in Node : genesis[n] = shared /\ vkey[n] # Absent

Started == pc \in {"accounts", "genesis", "write"} => next = 0

Keyed ==
  /\ pc = "keys" => \A n \in Node : n < next => vkey[n] # Absent
  /\ pc \in {"genesis", "write", "copy", "config", "launch"} => \A n \in Node : vkey[n] # Absent

Copying ==
  pc = "copy" => shared = Built /\ \A n \in Node : n < next => genesis[n] = shared

Configured ==
  /\ pc = "config" => (skip \/ HomesAgree) /\ \A n \in Node : n < next => boot[n] = vkey
  /\ pc \in {"config", "launch"} => shared.kind # "none"

Settled ==
  pc \in {"idle", "accounts", "config", "launch"} \/ (pc \in {"keys", "genesis"} /\ skip)
    => cut \/ moved \/ Whole

SInv == TypeOK /\ Started /\ Keyed /\ Copying /\ Configured /\ FreshSetupAgrees /\ Settled

-----------------------------------------------------------------------------
(* Types.                                                                  *)

LEMMA IndexTypes ==
  /\ 0 \in Node /\ \A n \in Node : n + 1 < N => n + 1 \in Node
  /\ \A n \in Node : ~ (n + 1 < N) => n + 1 = N
  /\ \A n \in Node, m \in Node : m < n + 1 => m < n \/ m = n
  /\ \A n \in Node, m \in Node : n + 1 = N => m < n \/ m = n
BY ShardsAssumption DEF Node

LEMMA UnbuiltTypes ==
  ASSUME NEW k \in {"none", "own", "torn"}
  PROVE  Unbuilt(k) \in Genesis /\ Unbuilt(k).kind = k
<1>1. NoKeys \in Keys
  BY ShardsAssumption, BoundsAssumption DEF NoKeys, Keys, Absent
<1>2. NoAccounts \in Accounts
  BY ShardsAssumption, BoundsAssumption DEF NoAccounts, Accounts, Absent
<1>3. 0 \in 0 .. MaxAccounts
  BY BoundsAssumption
<1> QED
  BY <1>1, <1>2, <1>3 DEF Unbuilt, Genesis

LEMMA BuiltTypes == TypeOK => Built \in Genesis /\ Built = BuiltFor(many)
                              /\ Built.kind = "built" /\ Built.many = many
<1> SUFFICES ASSUME TypeOK
             PROVE  Built \in Genesis /\ Built = BuiltFor(many)
                    /\ Built.kind = "built" /\ Built.many = many
  OBVIOUS
<1>1. vkey \in Keys /\ accounts \in Accounts /\ many \in 1 .. MaxAccounts
  BY DEF TypeOK
<1>2. [s \in Shard |-> [i \in Index |-> IF i < many THEN accounts[s][i] ELSE Absent]]
        \in Accounts
  BY <1>1, BoundsAssumption DEF Accounts, Absent
<1>3. many \in 0 .. MaxAccounts
  BY <1>1, BoundsAssumption
<1> QED
  BY <1>1, <1>2, <1>3 DEF Built, BuiltFor, Genesis

\* What is built stays the same while keys, accounts and arguments do.
LEMMA BuiltKept ==
  /\ UNCHANGED <<vkey, accounts, many>> => Built' = Built
  /\ UNCHANGED <<vkey, accounts, shared, genesis>> /\ Whole => Whole'
<1>1. UNCHANGED <<vkey, accounts, many>> => Built' = Built
  BY DEF Built
<1>2. ASSUME UNCHANGED <<vkey, accounts, shared, genesis>>, Whole PROVE Whole'
  <2>1. BuiltFor(shared.many)' = BuiltFor(shared.many)
    BY <1>2 DEF BuiltFor
  <2> QED
    BY <1>2, <2>1 DEF Whole
<1> QED
  BY <1>1, <1>2

LEMMA SInit == Init => SInv
<1> SUFFICES ASSUME Init PROVE SInv
  OBVIOUS
<1>1. TypeOK
  <2>1. NoKeys \in Keys
    BY ShardsAssumption, BoundsAssumption DEF NoKeys, Keys, Absent
  <2>2. accounts \in Accounts
    BY BoundsAssumption DEF Init, Accounts, Absent
  <2>3. shared \in Genesis /\ genesis \in [Node -> Genesis]
    BY UnbuiltTypes DEF Init
  <2>4. next \in Node /\ many \in 1 .. MaxAccounts /\ run \in 0 .. MaxRuns /\ edits \in 0 .. MaxEdits
    BY IndexTypes, BoundsAssumption DEF Init
  <2> QED
    BY <2>1, <2>2, <2>3, <2>4 DEF Init, TypeOK
<1>2. shared.kind = "none"
  BY UnbuiltTypes DEF Init
<1> QED
  BY <1>1, <1>2 DEF Init, SInv, Started, Keyed, Copying, Configured, FreshSetupAgrees,
                    Settled, Whole

-----------------------------------------------------------------------------
(* The steps.                                                              *)

\* Only pc, the arguments and cut change, and the phase entered says nothing new.
LEMMA BeginStep == SInv /\ (StartRun \/ EnsureAccounts \/ RunKept \/ RunMeasured) => SInv'
<1> SUFFICES ASSUME SInv, StartRun \/ EnsureAccounts \/ RunKept \/ RunMeasured PROVE SInv'
  OBVIOUS
<1>1. /\ UNCHANGED <<vkey, shared, genesis, boot, accounts, edits, moved, cut>>
      /\ pc \in {"idle", "accounts", "launch"}
      /\ pc' \in {"idle", "accounts", "keys", "wipe"}
      /\ pc' \in {"accounts", "keys"} => next' = 0
      /\ next' \in {0, next} /\ run' \in 0 .. MaxRuns /\ many' \in 1 .. MaxAccounts
      /\ skip' \in BOOLEAN /\ setupOnly' \in BOOLEAN
  BY BoundsAssumption
     DEF SInv, TypeOK, Started, StartRun, EnsureAccounts, RunKept, RunMeasured, args, disk, world
<1>2. TypeOK'
  BY <1>1, IndexTypes DEF SInv, TypeOK, Writing
<1>3. (Started /\ Keyed /\ Copying /\ Configured /\ FreshSetupAgrees)'
  BY <1>1 DEF Started, Keyed, Copying, Configured, FreshSetupAgrees, Node
<1>4. Settled'
  BY <1>1, BuiltKept DEF SInv, Settled
<1> QED
  BY <1>2, <1>3, <1>4 DEF SInv

LEMMA KeyStep == SInv /\ EnsureKey => SInv'
<1> SUFFICES ASSUME SInv, EnsureKey PROVE SInv'
  OBVIOUS
<1>1. /\ UNCHANGED <<run, skip, setupOnly, many, shared, boot, accounts, edits, moved, cut>>
      /\ pc = "keys" /\ next \in Node
      /\ next' = (IF next + 1 < N THEN next + 1 ELSE 0)
      /\ pc' = (IF next + 1 < N THEN "keys" ELSE "genesis")
      /\ skip /\ vkey[next] # Absent => UNCHANGED <<vkey, genesis>>
  BY DEF EnsureKey, Step, SInv, TypeOK, args, world
<1>2. /\ vkey' \in Keys /\ vkey'[next] # Absent
      /\ \A n \in Node : n # next => vkey'[n] = vkey[n]
  <2>1. vkey \in Keys /\ run \in Absent .. MaxRuns /\ run # Absent
    BY BoundsAssumption DEF SInv, TypeOK, Absent
  <2>2. CASE skip /\ vkey[next] # Absent
    BY <1>1, <2>1, <2>2
  <2>3. CASE ~ (skip /\ vkey[next] # Absent)
    <3>1. PICK key \in {run} \cup ({vkey[next]} \ {Absent}) : vkey' = [vkey EXCEPT ![next] = key]
      BY <2>3 DEF EnsureKey
    <3>2. key \in Absent .. MaxRuns /\ key # Absent
      BY <1>1, <2>1, <3>1 DEF Keys
    <3> QED
      BY <1>1, <2>1, <3>1, <3>2 DEF Keys
  <2> QED
    BY <2>2, <2>3
<1>3. genesis' \in [Node -> Genesis]
  BY <1>1, UnbuiltTypes DEF EnsureKey, SInv, TypeOK
<1>4. TypeOK'
  BY <1>1, <1>2, <1>3, IndexTypes DEF SInv, TypeOK, Writing
<1>5. (Started /\ Copying /\ Configured /\ FreshSetupAgrees)'
  BY <1>1 DEF Started, Copying, Configured, FreshSetupAgrees
<1>6. Keyed'
  <2>1. \A n \in Node : n < next \/ n = next => vkey'[n] # Absent
    BY <1>1, <1>2 DEF SInv, Keyed
  <2> QED
    BY <1>1, <2>1, IndexTypes DEF Keyed
<1>7. Settled'
  <2> SUFFICES ASSUME skip, ~ cut, ~ moved PROVE Whole'
    BY <1>1 DEF Settled
  <2>1. Whole
    BY <1>1 DEF SInv, Settled
  <2>2. CASE shared.kind = "none"
    BY <1>1, <2>2 DEF Whole
  <2>3. CASE shared.kind # "none"
    <3>1. vkey[next] # Absent
      BY <1>1, <2>1, <2>3 DEF Whole
    <3> QED
      BY <1>1, <2>1, <3>1, BuiltKept
  <2> QED
    BY <2>2, <2>3
<1> QED
  BY <1>4, <1>5, <1>6, <1>7 DEF SInv

LEMMA GenesisStep == SInv /\ (ReuseGenesis \/ BuildGenesis \/ WriteGenesis) => SInv'
<1> SUFFICES ASSUME SInv, ReuseGenesis \/ BuildGenesis \/ WriteGenesis PROVE SInv'
  OBVIOUS
<1>1. /\ UNCHANGED <<run, skip, setupOnly, many, next, vkey, genesis, boot, accounts, edits,
                     moved, cut>>
      /\ pc \in {"genesis", "write"} /\ next = 0
      /\ \/ pc = "genesis" /\ pc' = "config" /\ skip /\ shared.kind # "none" /\ UNCHANGED shared
         \/ pc = "genesis" /\ pc' = "write" /\ shared' = Unbuilt("torn")
         \/ pc = "write" /\ pc' = "copy" /\ shared' = Built
  BY DEF ReuseGenesis, BuildGenesis, WriteGenesis, SInv, Started, args, disk, world
<1>2. TypeOK'
  <2>1. shared' \in Genesis
    BY <1>1, UnbuiltTypes, BuiltTypes DEF SInv, TypeOK
  <2> QED
    BY <1>1, <2>1 DEF SInv, TypeOK, Writing
<1>3. (Started /\ Keyed)'
  BY <1>1 DEF SInv, Started, Keyed
<1>4. Copying'
  BY <1>1, BuiltKept DEF Copying, Node
<1>5. (Configured /\ FreshSetupAgrees)'
  BY <1>1 DEF Configured, FreshSetupAgrees, Node
<1>6. Settled'
  BY <1>1, BuiltKept DEF SInv, Settled
<1> QED
  BY <1>2, <1>3, <1>4, <1>5, <1>6 DEF SInv

\* The last copy settles the directory.
LEMMA CopyStep == SInv /\ CopyGenesis => SInv'
<1> SUFFICES ASSUME SInv, CopyGenesis PROVE SInv'
  OBVIOUS
<1>1. /\ UNCHANGED <<run, skip, setupOnly, many, vkey, shared, boot, accounts, edits>>
      /\ pc = "copy" /\ next \in Node
      /\ next' = (IF next + 1 < N THEN next + 1 ELSE 0)
      /\ pc' = (IF next + 1 < N THEN "copy" ELSE "config")
      /\ genesis' = [genesis EXCEPT ![next] = shared]
      /\ cut' \in BOOLEAN /\ moved' \in BOOLEAN
  BY DEF CopyGenesis, Step, SInv, TypeOK, args
<1>2. TypeOK'
  BY <1>1, IndexTypes DEF SInv, TypeOK, Writing
<1>3. shared = Built /\ \A n \in Node : n < next \/ n = next => genesis'[n] = shared
  BY <1>1 DEF SInv, Copying, TypeOK
<1>4. Built' = Built /\ Built = BuiltFor(many) /\ BuiltFor(many)' = BuiltFor(many)
      /\ Built.kind = "built" /\ Built.many = many
  BY <1>1, BuiltKept, BuiltTypes DEF SInv, BuiltFor
<1>5. (Started /\ Keyed)'
  BY <1>1 DEF SInv, Started, Keyed
<1>6. Copying'
  BY <1>1, <1>3, <1>4, IndexTypes DEF Copying
<1>7. pc' = "config" => \A n \in Node : genesis'[n] = shared
  BY <1>1, <1>3, IndexTypes
<1>8. (Configured /\ FreshSetupAgrees)'
  BY <1>1, <1>3, <1>4, <1>7 DEF Configured, FreshSetupAgrees, HomesAgree, Node
<1>9. Settled'
  <2> SUFFICES ASSUME pc' = "config" PROVE Whole'
    BY <1>1 DEF Settled
  <2>1. shared' = BuiltFor(shared.many)'
    BY <1>1, <1>3, <1>4 DEF BuiltFor
  <2>2. \A n \in Node : genesis'[n] = shared' /\ vkey'[n] # Absent
    BY <1>1, <1>7 DEF SInv, Keyed
  <2> QED
    BY <2>1, <2>2 DEF Whole
<1> QED
  BY <1>2, <1>5, <1>6, <1>8, <1>9 DEF SInv

LEMMA ConfigStep == SInv /\ WriteConfig => SInv'
<1> SUFFICES ASSUME SInv, WriteConfig PROVE SInv'
  OBVIOUS
<1>1. /\ UNCHANGED <<run, skip, setupOnly, many, vkey, shared, genesis, accounts, edits, moved, cut>>
      /\ pc = "config" /\ next \in Node
      /\ next' = (IF next + 1 < N THEN next + 1 ELSE 0)
      /\ \/ next + 1 < N /\ pc' = "config"
         \/ ~ (next + 1 < N) /\ pc' \in {"idle", "launch"}
      /\ boot' = [boot EXCEPT ![next] = vkey]
  BY DEF WriteConfig, Step, SInv, TypeOK, args, world
<1>2. TypeOK'
  BY <1>1, IndexTypes DEF SInv, TypeOK, Writing
<1>3. \A n \in Node : n < next \/ n = next => boot'[n] = vkey
  BY <1>1 DEF SInv, Configured, TypeOK
<1>4. (skip \/ HomesAgree) => (skip \/ HomesAgree)'
  BY <1>1, BuiltKept DEF HomesAgree
<1>5. (Started /\ Keyed /\ Copying)'
  BY <1>1 DEF SInv, Started, Keyed, Copying
<1>6. Configured'
  BY <1>1, <1>3, <1>4, IndexTypes DEF SInv, Configured
<1>7. FreshSetupAgrees'
  BY <1>1, <1>3, <1>4, IndexTypes DEF SInv, Configured, FreshSetupAgrees
<1>8. Settled'
  BY <1>1, BuiltKept DEF SInv, Settled
<1> QED
  BY <1>2, <1>5, <1>6, <1>7, <1>8 DEF SInv

LEMMA WipeStep == SInv /\ (WipeEntry \/ Wiped) => SInv'
<1> SUFFICES ASSUME SInv, WipeEntry \/ Wiped PROVE SInv'
  OBVIOUS
<1>1. /\ UNCHANGED <<run, skip, setupOnly, many, next, accounts, edits, moved>>
      /\ pc = "wipe" /\ cut' \in BOOLEAN
      /\ \/ pc' = "wipe"
         \/ pc' = "idle" /\ shared'.kind = "none"
  BY DEF WipeEntry, Wiped, SInv, TypeOK, args, disk, world
<1>2. /\ vkey' \in Keys /\ shared' \in Genesis /\ genesis' \in [Node -> Genesis]
      /\ boot' \in [Node -> Keys]
  <2>1. NoKeys \in Keys /\ Absent \in Absent .. MaxRuns
    BY ShardsAssumption, BoundsAssumption DEF NoKeys, Keys, Absent
  <2>2. /\ vkey \in [Node -> Absent .. MaxRuns] /\ shared \in Genesis
        /\ genesis \in [Node -> Genesis] /\ boot \in [Node -> Keys]
    BY DEF SInv, TypeOK, Keys
  <2>3. CASE Wiped
    BY <2>2, <2>3 DEF Wiped, disk, Keys
  <2>4. CASE WipeEntry
    <3>1. CASE shared' = Unbuilt("none") /\ UNCHANGED <<vkey, genesis, boot>>
      BY <2>2, <3>1, UnbuiltTypes DEF Keys
    <3>2. ASSUME NEW n \in Node,
                 vkey' = [vkey EXCEPT ![n] = Absent],
                 genesis' = [genesis EXCEPT ![n] = Unbuilt("none")],
                 boot' = [boot EXCEPT ![n] = NoKeys], UNCHANGED shared
          PROVE  /\ vkey' \in Keys /\ shared' \in Genesis /\ genesis' \in [Node -> Genesis]
                 /\ boot' \in [Node -> Keys]
      <4>1. vkey' \in Keys
        BY <2>1, <2>2, <3>2 DEF Keys
      <4> QED
        BY <2>1, <2>2, <3>2, <4>1, UnbuiltTypes
    <3> QED
      BY <2>4, <3>1, <3>2 DEF WipeEntry
  <2> QED
    BY <2>3, <2>4
<1>3. TypeOK'
  BY <1>1, <1>2 DEF SInv, TypeOK, Writing
<1> QED
  BY <1>1, <1>3 DEF SInv, Started, Keyed, Copying, Configured, FreshSetupAgrees, Settled, Whole

\* An interrupted setup says so; an interrupted config loop leaves the genesis
\* as it is.
LEMMA CutStep == SInv /\ CutShort => SInv'
<1> SUFFICES ASSUME SInv, CutShort PROVE SInv'
  OBVIOUS
<1>1. /\ UNCHANGED <<run, skip, setupOnly, many, next, vkey, shared, boot, accounts, edits, moved>>
      /\ pc' = "idle" /\ pc \in Writing \cup {"config"}
      /\ cut' = (cut \/ pc \in Writing)
      /\ pc # "copy" => UNCHANGED genesis
      /\ genesis' \in [Node -> Genesis]
  BY UnbuiltTypes DEF CutShort, SInv, TypeOK, args, world
<1>2. TypeOK'
  BY <1>1 DEF SInv, TypeOK
<1>3. (Started /\ Keyed /\ Copying /\ Configured /\ FreshSetupAgrees)'
  BY <1>1 DEF Started, Keyed, Copying, Configured, FreshSetupAgrees
<1>4. Settled'
  <2>1. CASE pc \in Writing
    BY <1>1, <2>1 DEF Settled
  <2>2. CASE pc = "config"
    BY <1>1, <2>2, BuiltKept DEF SInv, Settled
  <2> QED
    BY <1>1, <2>1, <2>2
<1> QED
  BY <1>2, <1>3, <1>4 DEF SInv

LEMMA ChangeStep == ASSUME NEW s \in Shard, SInv, AccountsChange(s) PROVE SInv'
<1>1. /\ UNCHANGED <<pc, run, skip, setupOnly, many, next, vkey, shared, genesis, boot, cut>>
      /\ pc = "idle" /\ moved' = TRUE /\ edits' \in 0 .. MaxEdits /\ edits + 1 \in 0 .. MaxEdits
  BY BoundsAssumption DEF AccountsChange, SInv, TypeOK, args, disk
<1>2. accounts' \in Accounts
  <2>1. PICK I \in SUBSET Index :
          accounts' = [accounts EXCEPT ![s] = [i \in Index |-> IF i \in I THEN edits + 1 ELSE Absent]]
    BY DEF AccountsChange
  <2>2. [i \in Index |-> IF i \in I THEN edits + 1 ELSE Absent] \in [Index -> Absent .. MaxEdits]
    BY <1>1, BoundsAssumption DEF Absent
  <2> QED
    BY <2>1, <2>2 DEF SInv, TypeOK, Accounts
<1>3. TypeOK'
  BY <1>1, <1>2 DEF SInv, TypeOK
<1> QED
  BY <1>1, <1>3 DEF SInv, Started, Keyed, Copying, Configured, FreshSetupAgrees, Settled

LEMMA SStep == SInv /\ [Next]_vars => SInv'
<1> SUFFICES ASSUME SInv, [Next]_vars PROVE SInv'
  OBVIOUS
<1>1. CASE StartRun \/ EnsureAccounts \/ RunKept \/ RunMeasured
  BY <1>1, BeginStep
<1>2. CASE EnsureKey
  BY <1>2, KeyStep
<1>3. CASE ReuseGenesis \/ BuildGenesis \/ WriteGenesis
  BY <1>3, GenesisStep
<1>4. CASE CopyGenesis
  BY <1>4, CopyStep
<1>5. CASE WriteConfig
  BY <1>5, ConfigStep
<1>6. CASE WipeEntry \/ Wiped
  BY <1>6, WipeStep
<1>7. CASE CutShort
  BY <1>7, CutStep
<1>8. ASSUME NEW s \in Shard, AccountsChange(s) PROVE SInv'
  BY <1>8, ChangeStep
<1>9. CASE UNCHANGED vars
  <2>1. /\ UNCHANGED <<pc, run, skip, setupOnly, many, next, cut>>
        /\ UNCHANGED <<accounts, edits, moved, vkey, shared, genesis, boot>>
    BY <1>9 DEF vars, args, disk, world
  <2>2. TypeOK'
    BY <2>1 DEF SInv, TypeOK
  <2>3. (Started /\ Keyed)'
    BY <2>1 DEF SInv, Started, Keyed
  <2>4. (Copying /\ Configured /\ FreshSetupAgrees)'
    BY <2>1, BuiltKept DEF SInv, Copying, Configured, FreshSetupAgrees, HomesAgree
  <2>5. Settled'
    BY <2>1, BuiltKept DEF SInv, Settled
  <2> QED
    BY <2>2, <2>3, <2>4, <2>5 DEF SInv
<1> QED
  BY <1>1, <1>2, <1>3, <1>4, <1>5, <1>6, <1>7, <1>8, <1>9 DEF Next

-----------------------------------------------------------------------------
(* The theorems.                                                           *)

\* The invariant of the run directory: what its files are in every phase of an
\* invocation, and between two of them.
THEOREM SetupInvariant == Spec => []SInv
BY SInit, SStep, PTL DEF Spec

\* Every variable stays in its type.
THEOREM SetupTypes == Spec => []TypeOK
<1>1. SInv => TypeOK
  BY DEF SInv
<1> QED
  BY <1>1, SetupInvariant, PTL

\* Without --skip-setup the nodes are launched on one genesis, made of the
\* present keys and accounts, and with each other's keys in their configs,
\* whatever earlier invocations left behind.
THEOREM FreshSetups == Spec => []FreshSetupAgrees
<1>1. SInv => FreshSetupAgrees
  BY DEF SInv
<1> QED
  BY <1>1, SetupInvariant, PTL

\* With --skip-setup they are too, if no setup was cut short and neither the
\* account files nor --accounts have changed since the genesis was built.
THEOREM ReusedSetups == Spec => []ReusedSetupAgrees
<1>1. SInv => ReusedSetupAgrees
  <2> SUFFICES ASSUME SInv, pc = "launch", ~ cut, ~ moved, shared.many = many PROVE HomesAgree
    BY DEF ReusedSetupAgrees
  <2>1. Whole /\ shared.kind # "none"
    BY DEF SInv, Settled, Configured
  <2>2. Built = BuiltFor(shared.many)
    BY BuiltTypes DEF SInv
  <2> QED
    BY <2>1, <2>2 DEF Whole, HomesAgree
<1> QED
  BY <1>1, SetupInvariant, PTL

-----------------------------------------------------------------------------
(* The results store: its inductive invariant.                             *)

Record == [run : Nat, n : Counts, ok : BOOLEAN]

StoreTypes ==
  /\ publishing \in {"idle", "work", "csv", "detail", "summary"}
  /\ published.run \in Nat
  /\ publishing # "idle" => published \in Record
  /\ csv \subseteq Nat /\ cutRuns \subseteq Nat /\ tearer \in Nat
  /\ detail \in Seq(Record) /\ (json # "list" => detail = <<>>)
  /\ summary \in [Counts -> Nat]

\* What is in the files is from invocations up to the present one, which comes
\* last in them if it has got there.
Numbered ==
  /\ \A i, j \in DOMAIN detail : i < j => detail[i].run < detail[j].run
  /\ \A i \in DOMAIN detail : detail[i].run <= published.run
  /\ \A r \in csv : r <= published.run
  /\ publishing \in {"work", "csv", "detail"} =>
       \A i \in DOMAIN detail : detail[i].run < published.run
  /\ publishing = "summary" => detail # <<>> /\ detail[Len(detail)] = published

IsRecorded(r) == \E i \in DOMAIN detail : detail[i].run = r

NoneLost ==
  \A r \in csv : \/ IsRecorded(r) \/ r \in cutRuns \/ r <= tearer
                 \/ r = published.run /\ publishing = "detail"

\* Record i is the last one of shard count n.
LastOf(i, n) ==
  detail[i].n = n /\ \A j \in DOMAIN detail : detail[j].n = n => j <= i

\* A shard count with a record has a last one, and its summary is that of this
\* record or is about to be.
Summarized ==
  \A n \in Counts : (\E i \in DOMAIN detail : detail[i].n = n) =>
    \E i \in DOMAIN detail :
      /\ LastOf(i, n)
      /\ \/ summary[n] = detail[i].run \/ detail[i].run \in cutRuns
         \/ publishing = "summary" /\ i = Len(detail)

StoreInv == StoreTypes /\ Numbered /\ NoneLost /\ Summarized

-----------------------------------------------------------------------------
(* Its steps.                                                              *)

LEMMA StoreInitially == Store!Init => StoreInv
<1> SUFFICES ASSUME Store!Init PROVE StoreInv
  OBVIOUS
<1>1. /\ publishing = "idle" /\ published.run = 0 /\ csv = {} /\ cutRuns = {} /\ tearer = 0
      /\ detail = <<>> /\ summary = [n \in Counts |-> 0]
  BY DEF Store!Init, Store!Torn
<1> QED
  BY <1>1 DEF StoreInv, StoreTypes, Numbered, NoneLost, Summarized

LEMMA DetailTypes ==
  StoreTypes => /\ Len(detail) \in Nat /\ DOMAIN detail = 1 .. Len(detail)
                /\ \A i \in DOMAIN detail : /\ detail[i] \in Record
                                            /\ detail[i].run \in Nat /\ detail[i].n \in Counts
<1>1. ASSUME NEW r \in Record PROVE r.run \in Nat /\ r.n \in Counts
  BY DEF Record
<1> QED
  BY <1>1, LenProperties DEF StoreTypes

\* The steps that leave the records and the summaries alone.
LEMMA StoreBegins ==
  ASSUME StoreInv, (\E n \in Counts : Store!StartRun(n)) \/ Store!WorkEnds
                     \/ Store!AppendCsv \/ Store!CutWork \/ Store!CutCsv
  PROVE  StoreInv'
<1> USE DEF StoreInv, Store!history
<1>1. /\ publishing \in {"idle", "work", "csv"}
      /\ publishing' \in {"idle", "work", "csv", "detail"}
      /\ publishing = "csv" /\ publishing' = "idle" => published.run \in cutRuns'
      /\ csv' \subseteq csv \cup {published.run} /\ cutRuns' \subseteq cutRuns \cup {published.run}
      /\ cutRuns \subseteq cutRuns'
      /\ published.run \in csv' => published.run \in csv \/ publishing' = "detail"
      /\ UNCHANGED <<json, detail, summary, tearer>>
  BY DEF Store!StartRun, Store!WorkEnds, Store!AppendCsv, Store!CutWork, Store!CutCsv,
     Store!Stop, StoreTypes
<1>2. /\ published'.run \in Nat
      /\ publishing' # "idle" => published' \in Record
      /\ \/ /\ published'.run = published.run
            /\ publishing' \in {"work", "csv", "detail"} => publishing \in {"work", "csv"}
         \/ published'.run = published.run + 1 /\ csv' = csv
  <2>1. ASSUME NEW n \in Counts, Store!StartRun(n)
        PROVE  /\ published' \in Record /\ published'.run = published.run + 1 /\ csv' = csv
               /\ published'.run \in Nat
    BY <2>1 DEF Store!StartRun, StoreTypes, Record
  <2>2. CASE Store!WorkEnds
    <3>1. PICK b \in BOOLEAN : published' = [published EXCEPT !.ok = b]
      BY <2>2 DEF Store!WorkEnds
    <3>2. published \in Record /\ publishing = "work"
      BY <2>2 DEF Store!WorkEnds, StoreTypes
    <3> QED
      BY <3>1, <3>2 DEF Record
  <2>3. CASE Store!AppendCsv \/ Store!CutWork \/ Store!CutCsv
    BY <2>3 DEF Store!AppendCsv, Store!CutWork, Store!CutCsv, Store!Stop, StoreTypes
  <2> QED
    BY <2>1, <2>2, <2>3
<1>3. published.run \in Nat
  BY DEF StoreTypes
<1>4. StoreTypes'
  BY <1>1, <1>2, <1>3 DEF StoreTypes
<1>5. Numbered'
  <2>1. published.run <= published'.run /\ published'.run \in Nat
    BY <1>2, <1>3
  <2>2. \A i \in DOMAIN detail : detail[i].run <= published'.run
    BY <1>3, <2>1, DetailTypes DEF Numbered, StoreTypes
  <2>3. \A r \in csv' : r <= published'.run
    BY <1>1, <1>3, <2>1 DEF Numbered, StoreTypes
  <2>4. publishing' \in {"work", "csv", "detail"} =>
          \A i \in DOMAIN detail : detail[i].run < published'.run
    BY <1>2, <1>3, DetailTypes DEF Numbered, StoreTypes
  <2> QED
    BY <1>1, <2>2, <2>3, <2>4 DEF Numbered
<1>6. NoneLost'
  <2> SUFFICES ASSUME NEW r \in csv'
               PROVE  \/ IsRecorded(r) \/ r \in cutRuns' \/ r <= tearer
                      \/ r = published'.run /\ publishing' = "detail"
    BY <1>1 DEF NoneLost, IsRecorded
  <2>1. CASE r \in csv
    BY <1>1, <2>1 DEF NoneLost
  <2>2. CASE r \notin csv
    <3>1. r = published.run /\ publishing' = "detail" /\ csv' # csv
      BY <1>1, <2>2
    <3> QED
      BY <1>2, <3>1
  <2> QED
    BY <2>1, <2>2
<1>7. Summarized'
  BY <1>1 DEF Summarized, LastOf
<1> QED
  BY <1>4, <1>5, <1>6, <1>7

\* The new record is the last one of its shard count and of the file.
LEMMA StoreRewrites == ASSUME StoreInv, Store!RewriteDetail PROVE StoreInv'
<1> USE DEF StoreInv
<1> DEFINE old == Store!ReadDetail
<1>1. /\ publishing = "detail" /\ publishing' = "summary" /\ json' = "list"
      /\ detail' = Append(old, published)
      /\ UNCHANGED <<published, csv, summary, cutRuns, tearer>>
  BY DEF Store!RewriteDetail, Store!history
<1>2. old = detail /\ published \in Record /\ published.run \in Nat /\ published.n \in Counts
  BY <1>1 DEF StoreTypes, Store!ReadDetail, Record
<1>3. /\ detail \in Seq(Record) /\ Len(detail) \in Nat /\ DOMAIN detail = 1 .. Len(detail)
      /\ detail' \in Seq(Record) /\ Len(detail') = Len(detail) + 1
      /\ DOMAIN detail' = DOMAIN detail \cup {Len(detail')}
      /\ \A i \in DOMAIN detail : detail'[i] = detail[i]
      /\ detail'[Len(detail')] = published
  BY <1>1, <1>2, AppendProperties, LenProperties DEF StoreTypes
<1>4. \A i \in DOMAIN detail : i < Len(detail')
  BY <1>3
<1> HIDE DEF old
<1>5. StoreTypes'
  BY <1>1, <1>2, <1>3 DEF StoreTypes
<1>6. Numbered'
  <2>1. \A i \in DOMAIN detail' : detail'[i].run <= published.run
    BY <1>1, <1>2, <1>3 DEF Numbered
  <2>2. \A i, j \in DOMAIN detail' : i < j => detail'[i].run < detail'[j].run
    <3> SUFFICES ASSUME NEW i \in DOMAIN detail', NEW j \in DOMAIN detail', i < j
                 PROVE  detail'[i].run < detail'[j].run
      OBVIOUS
    <3>1. i \in DOMAIN detail
      BY <1>3
    <3> QED
      BY <3>1, <1>1, <1>3 DEF Numbered
  <2>3. detail' # <<>>
    BY <1>3
  <2> QED
    BY <1>1, <1>3, <2>1, <2>2, <2>3 DEF Numbered
<1>7. NoneLost'
  <2> SUFFICES ASSUME NEW r \in csv'
               PROVE  IsRecorded(r)' \/ r \in cutRuns' \/ r <= tearer'
    BY DEF NoneLost
  <2>1. IsRecorded(r) => IsRecorded(r)'
    BY <1>3 DEF IsRecorded
  <2>2. r = published.run => IsRecorded(r)'
    BY <1>3 DEF IsRecorded
  <2> QED
    BY <1>1, <2>1, <2>2 DEF NoneLost
<1>8. Summarized'
  <2> SUFFICES ASSUME NEW n \in Counts, \E i \in DOMAIN detail' : detail'[i].n = n
               PROVE  \E i \in DOMAIN detail' :
                        /\ LastOf(i, n)'
                        /\ \/ summary[n] = detail'[i].run \/ detail'[i].run \in cutRuns
                           \/ i = Len(detail')
    BY <1>1 DEF Summarized
  <2>1. CASE n = published.n
    <3>1. PICK i \in DOMAIN detail' : i = Len(detail')
      BY <1>3
    <3>2. \A j \in DOMAIN detail' : j <= i
      BY <1>3, <3>1
    <3>3. LastOf(i, n)'
      BY <1>3, <2>1, <3>1, <3>2 DEF LastOf
    <3> QED
      BY <3>1, <3>3
  <2>2. CASE n # published.n
    <3>1. \E i \in DOMAIN detail : detail[i].n = n
      BY <1>3, <2>2
    <3>2. PICK i \in DOMAIN detail :
            LastOf(i, n) /\ (summary[n] = detail[i].run \/ detail[i].run \in cutRuns)
      BY <1>1, <3>1 DEF Summarized
    <3>3. LastOf(i, n)'
      BY <1>3, <2>2, <3>2 DEF LastOf
    <3> QED
      BY <1>3, <3>2, <3>3
  <2> QED
    BY <2>1, <2>2
<1> QED
  BY <1>5, <1>6, <1>7, <1>8

\* Once the record is there, only the summary of its shard count changes.
LEMMA StoreSummarizes == ASSUME StoreInv, Store!WriteSummary \/ Store!CutSummary PROVE StoreInv'
<1> USE DEF StoreInv
<1>1. /\ publishing = "summary" /\ publishing' = "idle" /\ published \in Record
      /\ \/ summary' = [summary EXCEPT ![published.n] = published.run] /\ cutRuns' = cutRuns
         \/ /\ summary' \in {summary, [summary EXCEPT ![published.n] = 0]}
            /\ cutRuns' = cutRuns \cup {published.run}
      /\ UNCHANGED <<published, csv, json, detail, tearer>>
  BY DEF Store!WriteSummary, Store!CutSummary, Store!Stop, Store!history, Store!Torn, StoreTypes
<1>2. published.run \in Nat /\ published.n \in Counts
  BY <1>1 DEF Record
<1>3. StoreTypes' /\ Numbered' /\ NoneLost'
  <2>1. StoreTypes'
    <3>1. summary \in [Counts -> Nat] /\ cutRuns \subseteq Nat
      BY DEF StoreTypes
    <3>2. \A v \in Nat : [summary EXCEPT ![published.n] = v] \in [Counts -> Nat]
      BY <3>1
    <3>3. summary' \in [Counts -> Nat]
      BY <1>1, <1>2, <3>1, <3>2
    <3>4. cutRuns' \subseteq Nat
      BY <1>1, <1>2, <3>1
    <3> QED
      BY <1>1, <1>2, <3>3, <3>4 DEF StoreTypes
  <2>2. Numbered'
    BY <1>1 DEF Numbered
  <2>3. NoneLost'
    BY <1>1 DEF NoneLost, IsRecorded
  <2> QED
    BY <2>1, <2>2, <2>3
<1>4. Summarized'
  <2> SUFFICES ASSUME NEW n \in Counts, \E i \in DOMAIN detail : detail[i].n = n
               PROVE  \E i \in DOMAIN detail :
                        LastOf(i, n) /\ (summary'[n] = detail[i].run \/ detail[i].run \in cutRuns')
    BY <1>1 DEF Summarized, LastOf
  <2>1. PICK i \in DOMAIN detail :
          /\ LastOf(i, n)
          /\ summary[n] = detail[i].run \/ detail[i].run \in cutRuns \/ i = Len(detail)
    BY DEF Summarized
  <2>2. detail[Len(detail)] = published /\ Len(detail) \in DOMAIN detail /\ DOMAIN detail \subseteq Nat
    BY <1>1, LenProperties, EmptySeq DEF StoreTypes, Numbered
  <2>3. CASE n = published.n
    <3>1. i = Len(detail)
      BY <2>1, <2>2, <2>3, LenProperties DEF LastOf, StoreTypes
    <3>2. summary'[n] = published.run \/ published.run \in cutRuns'
      BY <1>1, <2>3 DEF StoreTypes
    <3> QED
      BY <2>1, <2>2, <3>1, <3>2
  <2>4. CASE n # published.n
    <3>1. summary'[n] = summary[n] /\ cutRuns \subseteq cutRuns'
      BY <1>1, <2>4 DEF StoreTypes
    <3>2. i # Len(detail)
      BY <2>1, <2>2, <2>4 DEF LastOf
    <3> QED
      BY <2>1, <3>1, <3>2
  <2> QED
    BY <2>3, <2>4
<1> QED
  BY <1>3, <1>4

\* A rewrite that is cut short loses no more than everything so far.
LEMMA StoreTorn == ASSUME StoreInv, Store!CutDetail PROVE StoreInv'
<1> USE DEF StoreInv
<1>1. /\ publishing = "detail" /\ publishing' = "idle" /\ published \in Record
      /\ cutRuns' = cutRuns \cup {published.run}
      /\ UNCHANGED <<published, csv, summary>>
  BY DEF Store!CutDetail, Store!Stop, StoreTypes
<1>2. published.run \in Nat
  BY <1>1 DEF Record
<1>3. CASE UNCHANGED <<json, detail, tearer>>
  <2>1. StoreTypes'
    BY <1>1, <1>2, <1>3 DEF StoreTypes
  <2>2. Numbered'
    BY <1>1, <1>3 DEF Numbered
  <2>3. NoneLost'
    BY <1>1, <1>3 DEF NoneLost, IsRecorded
  <2>4. Summarized'
    BY <1>1, <1>3 DEF Summarized, LastOf
  <2> QED
    BY <2>1, <2>2, <2>3, <2>4
<1>4. CASE json' \in {"empty", "torn"} /\ detail' = <<>> /\ tearer' = published.run
  <2>1. StoreTypes'
    BY <1>1, <1>2, <1>4, EmptySeq DEF StoreTypes
  <2>2. Numbered'
    BY <1>1, <1>4 DEF Numbered
  <2>3. NoneLost'
    BY <1>1, <1>4 DEF NoneLost, Numbered
  <2>4. Summarized'
    BY <1>1, <1>4 DEF Summarized
  <2> QED
    BY <2>1, <2>2, <2>3, <2>4
<1> QED
  BY <1>3, <1>4 DEF Store!CutDetail

LEMMA StoreKept == ASSUME StoreInv, [Store!Next]_storeVars PROVE StoreInv'
<1>1. CASE UNCHANGED storeVars
  BY <1>1 DEF storeVars, StoreInv, StoreTypes, Numbered, NoneLost, Summarized, IsRecorded, LastOf
<1> QED
  BY <1>1, StoreBegins, StoreRewrites, StoreSummarizes, StoreTorn DEF Store!Next

-----------------------------------------------------------------------------

LEMMA MaximumIs ==
  ASSUME NEW S \in SUBSET Nat, NEW m \in S, \A k \in S : k <= m
  PROVE  Store!Max(S) = m
<1>1. \E x \in S : \A y \in S : x >= y
  OBVIOUS
<1>2. Store!Max(S) \in S /\ \A k \in S : Store!Max(S) >= k
  BY <1>1 DEF Store!Max
<1>3. Store!Max(S) >= m /\ m >= Store!Max(S) /\ Store!Max(S) \in Nat
  BY <1>2
<1> QED
  BY <1>3

LEMMA StoreAgrees == StoreInv => HistoryKept /\ SummaryIsOfLastRecord
<1> SUFFICES ASSUME StoreInv PROVE HistoryKept /\ SummaryIsOfLastRecord
  OBVIOUS
<1> USE DEF StoreInv
<1>1. \A i \in DOMAIN detail : detail[i] \in Record
  BY LenProperties DEF StoreTypes
<1>2. \A S : Store!Recorded(S) = {r.run : r \in {s \in Store!Range(detail) : s.n \in S}}
  BY DEF Store!Recorded
<1>3. \A S, r : r \in Store!Recorded(S) <=>
              \E i \in DOMAIN detail : detail[i].n \in S /\ detail[i].run = r
  BY <1>2 DEF Store!Range
<1>4. HistoryKept
  <2>1. \A r \in csv : r \in Store!Recorded(Counts) \/ r \in cutRuns \/ r <= tearer \/ Store!Current(r)
    BY <1>1, <1>3 DEF NoneLost, IsRecorded, Store!Current, Record
  <2> QED
    BY <2>1 DEF HistoryKept, Store!HistoryKept, Numbered
<1>5. SummaryIsOfLastRecord
  <2> SUFFICES ASSUME publishing = "idle", NEW n \in Counts, Store!Recorded({n}) # {}
               PROVE  LET last == Store!Max(Store!Recorded({n}))
                      IN summary[n] = last \/ last \in cutRuns
    BY DEF SummaryIsOfLastRecord, Store!SummaryIsOfLastRecord
  <2>1. \E i \in DOMAIN detail : detail[i].n = n
    BY <1>3
  <2>2. PICK i \in DOMAIN detail :
          LastOf(i, n) /\ (summary[n] = detail[i].run \/ detail[i].run \in cutRuns)
    BY <2>1 DEF Summarized
  <2>3. detail[i].run \in Store!Recorded({n}) /\ Store!Recorded({n}) \in SUBSET Nat
    BY <1>1, <1>3, <2>2 DEF LastOf, Record
  <2>4. ASSUME NEW r \in Store!Recorded({n}) PROVE r <= detail[i].run
    <3>1. PICK j \in DOMAIN detail : detail[j].n = n /\ detail[j].run = r
      BY <1>3
    <3>2. j <= i /\ j \in Nat /\ i \in Nat
      BY <2>2, <3>1, LenProperties DEF LastOf, StoreTypes
    <3>3. j = i \/ j < i
      BY <3>2
    <3>4. detail[i].run \in Nat /\ detail[j].run \in Nat
      BY <1>1 DEF Record
    <3> QED
      BY <3>1, <3>3, <3>4 DEF Numbered
  <2>5. Store!Max(Store!Recorded({n})) = detail[i].run
    BY <2>3, <2>4, MaximumIs
  <2> QED
    BY <2>2, <2>5
<1> QED
  BY <1>4, <1>5

-----------------------------------------------------------------------------
(* The bench directory of genesis_bake: its inductive invariant.           *)

BakeArgs == [bake : Nat, shards : 1 .. BakeShards, accounts : 1 .. BakeAccounts]
Entry == [bake : Int, shards : Nat, accounts : Nat]

BakeTypes ==
  /\ baking \in {"idle", "users", "genesis", "copy", "wipe"}
  /\ bake \in BakeArgs /\ skipWipe \in BOOLEAN /\ cutBake \in BOOLEAN
  /\ users \in [Bakes!Shard -> [Bakes!Index -> Nat]]
  /\ bakeGenesis \in [Bakes!Home -> Seq(Entry)]
  /\ data \in [Bakes!Home -> Seq(Entry)]

Indexed ==
  /\ baking = "users" => bakeIndex \in 0 .. bake.shards - 1
  /\ baking = "copy" => bakeIndex \in 1 .. BakeHomes
  /\ baking = "wipe" => bakeIndex \in Bakes!Home

\* Shard s has the keys of this bake, and no others.
Made(s) == \A i \in Bakes!Index :
             users[s][i] = IF i < bake.accounts THEN bake.bake ELSE Bakes!Absent

Filled ==
  /\ baking = "users" => \A s \in Bakes!Shard : s < bakeIndex => Made(s)
  /\ baking \in {"genesis", "copy", "wipe"} \/ Bakes!Done =>
       \A s \in Bakes!Shard : s < bake.shards => Made(s)

\* Home h has a genesis to which this bake has appended its accounts.
Holds(h) == \E k \in DOMAIN bakeGenesis[h] : bakeGenesis[h][k] = bake

Spread ==
  /\ baking = "copy" => \A h \in Bakes!Home : h < bakeIndex => Holds(h)
  /\ baking = "wipe" \/ Bakes!Done => \A h \in Bakes!Home : Holds(h)

Clean ==
  /\ baking = "wipe" /\ ~ skipWipe =>
       \A h \in Bakes!Home : h < bakeIndex => data[h] = Bakes!None
  /\ Bakes!Done /\ ~ skipWipe =>
       \A h \in Bakes!Home : data[h] \in {Bakes!None, bakeGenesis[h]}

BakeInv == BakeTypes /\ Indexed /\ Filled /\ Spread /\ Clean

-----------------------------------------------------------------------------
(* Its steps.                                                              *)

LEMMA BakeBounds ==
  /\ BakeShards \in Nat \ {0} /\ BakeAccounts \in Nat \ {0} /\ BakeHomes \in Nat \ {0}
  /\ BakeArgs \subseteq Entry
  /\ \A b \in BakeArgs : /\ b.bake \in Nat /\ b.shards \in 1 .. BakeShards
                         /\ b.accounts \in 1 .. BakeAccounts
  /\ Bakes!Torn \in Seq(Entry) /\ Bakes!None \in Seq(Entry)
<1>1. BakeShards \in Nat \ {0} /\ BakeAccounts \in Nat \ {0} /\ BakeHomes \in Nat \ {0}
  BY BakeAssumption
<1>2. BakeArgs \subseteq Entry
  BY <1>1 DEF BakeArgs, Entry
<1>3. ASSUME NEW b \in BakeArgs
      PROVE  b.bake \in Nat /\ b.shards \in 1 .. BakeShards /\ b.accounts \in 1 .. BakeAccounts
  BY DEF BakeArgs
<1>4. [bake |-> 0, shards |-> 0, accounts |-> 0] \in Entry
  BY DEF Entry
<1>5. [bake |-> -1, shards |-> 0, accounts |-> 0] \in Entry
  BY DEF Entry
<1> QED
  BY <1>1, <1>2, <1>3, <1>4, <1>5 DEF Bakes!Torn, Bakes!None

LEMMA BakeInitially == Bakes!Init => BakeInv
<1> SUFFICES ASSUME Bakes!Init PROVE BakeInv
  OBVIOUS
<1>1. bake \in BakeArgs
  BY BakeBounds DEF Bakes!Init, BakeArgs
<1>2. users \in [Bakes!Shard -> [Bakes!Index -> Nat]]
  BY DEF Bakes!Init, Bakes!Absent
<1>3. bakeGenesis \in [Bakes!Home -> Seq(Entry)] /\ data \in [Bakes!Home -> Seq(Entry)]
  BY BakeBounds, EmptySeq DEF Bakes!Init
<1>4. baking = "idle" /\ cutBake = TRUE /\ skipWipe = FALSE
  BY DEF Bakes!Init
<1> QED
  BY <1>1, <1>2, <1>3, <1>4
  DEF BakeInv, BakeTypes, Indexed, Filled, Spread, Clean, Bakes!Done

LEMMA BakeStarts == ASSUME BakeInv, Bakes!StartBake PROVE BakeInv'
<1>1. /\ baking' = "users" /\ bakeIndex' = 0 /\ skipWipe' \in BOOLEAN
      /\ UNCHANGED <<users, bakeGenesis, data, cutBake>>
  BY DEF Bakes!StartBake
<1>2. bake' \in BakeArgs /\ bake'.shards \in Nat \ {0}
  <2>1. PICK s \in 1 .. BakeShards, a \in 1 .. BakeAccounts :
          bake' = [bake |-> bake.bake + 1, shards |-> s, accounts |-> a]
    BY DEF Bakes!StartBake
  <2>2. bake.bake + 1 \in Nat
    BY BakeBounds DEF BakeInv, BakeTypes
  <2> QED
    BY <2>1, <2>2, BakeBounds DEF BakeArgs
<1> QED
  BY <1>1, <1>2, BakeBounds
  DEF BakeInv, BakeTypes, Indexed, Filled, Spread, Clean, Bakes!Done, Bakes!Shard

LEMMA BakeFills == ASSUME BakeInv, Bakes!WriteShard PROVE BakeInv'
<1> USE DEF BakeInv
<1>1. /\ baking = "users" /\ bakeIndex \in 0 .. bake.shards - 1 /\ bakeIndex \in Bakes!Shard
      /\ bake.shards \in 1 .. BakeShards /\ bake.bake \in Nat /\ bake.accounts \in Nat
      /\ UNCHANGED <<bake, skipWipe, bakeGenesis, data, cutBake>>
      /\ IF bakeIndex < bake.shards - 1
         THEN baking' = "users" /\ bakeIndex' = bakeIndex + 1
         ELSE baking' = "genesis" /\ bakeIndex' = 0
  BY BakeBounds DEF Bakes!WriteShard, Bakes!Loop, Indexed, BakeTypes, Bakes!Shard
<1>2. users' = [users EXCEPT ![bakeIndex] =
                  [i \in Bakes!Index |-> IF i < bake.accounts THEN bake.bake ELSE 0]]
  BY DEF Bakes!WriteShard, Bakes!Made, Bakes!Absent
<1>3. users' \in [Bakes!Shard -> [Bakes!Index -> Nat]]
  <2>1. [i \in Bakes!Index |-> IF i < bake.accounts THEN bake.bake ELSE 0] \in [Bakes!Index -> Nat]
    BY <1>1
  <2> QED
    BY <1>2, <2>1 DEF BakeTypes
<1>4. \A s \in Bakes!Shard : s < bakeIndex \/ s = bakeIndex => Made(s)'
  BY <1>1, <1>2 DEF Filled, Made, Bakes!Absent, BakeTypes
<1>5. BakeTypes' /\ Indexed'
  BY <1>1, <1>3 DEF BakeTypes, Indexed
<1>6. Filled'
  BY <1>1, <1>4 DEF Filled, Bakes!Done, Bakes!Shard
<1> QED
  BY <1>1, <1>5, <1>6 DEF Spread, Clean, Bakes!Done

LEMMA BakeAppends == ASSUME BakeInv, Bakes!AppendRecords PROVE BakeInv'
<1> USE DEF BakeInv
<1>1. /\ baking = "genesis" /\ baking' = "copy" /\ bakeIndex' = 1 /\ bake \in Entry
      /\ bakeGenesis' = [bakeGenesis EXCEPT ![0] = Append(bakeGenesis[0], bake)]
      /\ UNCHANGED <<bake, skipWipe, users, data, cutBake>>
  BY BakeBounds DEF Bakes!AppendRecords, BakeTypes
<1>2. 0 \in Bakes!Home /\ 1 \in 1 .. BakeHomes /\ \A h \in Bakes!Home : h < 1 => h = 0
  BY BakeBounds DEF Bakes!Home
<1>3. /\ Append(bakeGenesis[0], bake) \in Seq(Entry)
      /\ \E k \in DOMAIN Append(bakeGenesis[0], bake) : Append(bakeGenesis[0], bake)[k] = bake
  <2>1. bakeGenesis[0] \in Seq(Entry)
    BY <1>2 DEF BakeTypes
  <2> QED
    BY <1>1, <2>1, AppendProperties, LenProperties
<1>4. BakeTypes'
  BY <1>1, <1>3 DEF BakeTypes
<1>5. Holds(0)'
  BY <1>1, <1>2, <1>3 DEF Holds, BakeTypes
<1>6. Spread'
  BY <1>1, <1>2, <1>5 DEF Spread, Bakes!Done
<1> QED
  BY <1>1, <1>2, <1>4, <1>6 DEF Indexed, Filled, Made, Clean, Bakes!Done

LEMMA BakeCopies == ASSUME BakeInv, Bakes!CopyGenesis PROVE BakeInv'
<1> USE DEF BakeInv
<1>1. /\ baking = "copy" /\ bakeIndex \in 1 .. BakeHomes /\ bakeIndex \in Bakes!Home
      /\ 0 \in Bakes!Home
      /\ bakeGenesis' = [bakeGenesis EXCEPT ![bakeIndex] = bakeGenesis[0]]
      /\ IF bakeIndex < BakeHomes
         THEN baking' = "copy" /\ bakeIndex' = bakeIndex + 1
         ELSE baking' = "wipe" /\ bakeIndex' = 0
      /\ UNCHANGED <<bake, skipWipe, users, data, cutBake>>
  BY BakeBounds DEF Bakes!CopyGenesis, Bakes!Copied, Bakes!Loop, Indexed, Bakes!Home
<1>2. BakeTypes' /\ Indexed'
  BY <1>1, BakeBounds DEF BakeTypes, Indexed
<1>3. \A h \in Bakes!Home : h < bakeIndex \/ h = bakeIndex => Holds(h)'
  BY <1>1, BakeBounds DEF Spread, Holds, BakeTypes
<1>4. Spread'
  BY <1>1, <1>3, BakeBounds DEF Spread, Bakes!Done, Bakes!Home
<1> QED
  BY <1>1, <1>2, <1>4, BakeBounds DEF Filled, Made, Clean, Bakes!Done, Bakes!Home

LEMMA BakeWipes == ASSUME BakeInv, Bakes!WipeData PROVE BakeInv'
<1> USE DEF BakeInv
<1>1. /\ baking = "wipe" /\ bakeIndex \in Bakes!Home
      /\ data' = IF skipWipe THEN data ELSE [data EXCEPT ![bakeIndex] = Bakes!None]
      /\ IF bakeIndex < BakeHomes
         THEN baking' = "wipe" /\ bakeIndex' = bakeIndex + 1
         ELSE baking' = "idle" /\ bakeIndex' = 0
      /\ cutBake' \in BOOLEAN
      /\ UNCHANGED <<bake, skipWipe, users, bakeGenesis>>
  BY DEF Bakes!WipeData, Bakes!Loop, Indexed, BakeTypes
<1>2. data' \in [Bakes!Home -> Seq(Entry)]
  BY <1>1, BakeBounds DEF BakeTypes
<1>3. BakeTypes' /\ Indexed'
  BY <1>1, <1>2, BakeBounds DEF BakeTypes, Indexed, Bakes!Home
<1>4. ~ skipWipe => \A h \in Bakes!Home : h < bakeIndex \/ h = bakeIndex => data'[h] = Bakes!None
  BY <1>1 DEF Clean, BakeTypes
<1>5. Clean'
  BY <1>1, <1>4, BakeBounds DEF Clean, Bakes!Done, Bakes!Home
<1>6. Filled' /\ Spread'
  BY <1>1 DEF Filled, Made, Spread, Holds, Bakes!Done
<1> QED
  BY <1>3, <1>5, <1>6

\* A bake that ends early promises nothing.
LEMMA BakeCut == ASSUME BakeInv, Bakes!CutShort \/ Bakes!GenesisUnreadable PROVE BakeInv'
<1> USE DEF BakeInv
<1>1. /\ baking' = "idle" /\ cutBake' = TRUE
      /\ UNCHANGED <<bake, skipWipe, bakeIndex, data>>
  BY DEF Bakes!CutShort, Bakes!GenesisUnreadable
<1>2. users' \in [Bakes!Shard -> [Bakes!Index -> Nat]]
  <2>1. \A k : [i \in Bakes!Index |-> IF i < k THEN bake.bake ELSE 0] \in [Bakes!Index -> Nat]
    BY BakeBounds DEF BakeTypes
  <2>2. \A k : Bakes!Made(k) \in [Bakes!Shard -> [Bakes!Index -> Nat]]
    BY <2>1 DEF BakeTypes, Bakes!Made, Bakes!Absent
  <2> QED
    BY <2>2 DEF Bakes!CutShort, Bakes!GenesisUnreadable, BakeTypes
<1>3. bakeGenesis' \in [Bakes!Home -> Seq(Entry)]
  BY BakeBounds DEF Bakes!CutShort, Bakes!GenesisUnreadable, BakeTypes
<1>4. BakeTypes'
  BY <1>1, <1>2, <1>3 DEF BakeTypes
<1> QED
  BY <1>1, <1>4 DEF Indexed, Filled, Spread, Clean, Bakes!Done

\* A node makes its database from the genesis it has.
LEMMA BakeRuns == ASSUME BakeInv, Bakes!NodesRun PROVE BakeInv'
<1> USE DEF BakeInv
<1>1. PICK h \in Bakes!Home : data' = [data EXCEPT ![h] = bakeGenesis[h]]
  BY DEF Bakes!NodesRun
<1>2. /\ baking = "idle"
      /\ UNCHANGED <<baking, bake, skipWipe, bakeIndex, users, bakeGenesis, cutBake>>
  BY DEF Bakes!NodesRun
<1>3. BakeTypes'
  BY <1>1, <1>2 DEF BakeTypes
<1>4. Clean'
  BY <1>1, <1>2 DEF Clean, Bakes!Done, BakeTypes
<1> QED
  BY <1>2, <1>3, <1>4 DEF Indexed, Filled, Made, Spread, Holds, Bakes!Done

LEMMA BakeKept == ASSUME BakeInv, [Bakes!Next]_bakeVars PROVE BakeInv'
<1>1. CASE UNCHANGED bakeVars
  BY <1>1 DEF bakeVars, BakeInv, BakeTypes, Indexed, Filled, Made, Spread, Holds, Clean, Bakes!Done
<1> QED
  BY <1>1, BakeStarts, BakeFills, BakeAppends, BakeCopies, BakeWipes, BakeCut, BakeRuns
  DEF Bakes!Next

LEMMA BakeAgrees == BakeInv => BakedKeysAreKnown /\ DatabasesAreOfGenesis
<1> SUFFICES ASSUME BakeInv PROVE BakedKeysAreKnown /\ DatabasesAreOfGenesis
  OBVIOUS
<1> USE DEF BakeInv
<1>1. BakedKeysAreKnown
  <2> SUFFICES ASSUME Bakes!Done, NEW s \in 0 .. bake.shards - 1, NEW i \in Bakes!Index,
                      NEW h \in Bakes!Home, users[s][i] # Bakes!Absent
               PROVE  Bakes!Knows(bakeGenesis[h], s, i, users[s][i])
    BY DEF BakedKeysAreKnown, Bakes!BakedKeysAreKnown
  <2>1. s \in Bakes!Shard /\ s < bake.shards
    BY BakeBounds DEF BakeTypes, Bakes!Shard
  <2>2. users[s][i] = bake.bake /\ i < bake.accounts
    BY <2>1 DEF Filled, Made
  <2>3. PICK k \in DOMAIN bakeGenesis[h] : bakeGenesis[h][k] = bake
    BY DEF Spread, Holds
  <2> QED
    BY <2>1, <2>2, <2>3 DEF Bakes!Knows, Bakes!Covers
<1>2. DatabasesAreOfGenesis
  BY DEF DatabasesAreOfGenesis, Bakes!DatabasesAreOfGenesis, Clean
<1> QED
  BY <1>1, <1>2

-----------------------------------------------------------------------------
(* The files together.                                                     *)

\* A step of the composition is a step of each store, or leaves it alone.
LEMMA FilesStep ==
  [FilesNext]_fileVars => [Next]_vars /\ [Store!Next]_storeVars /\ [Bakes!Next]_bakeVars
BY DEF FilesNext, SetupStep, StoreStep, BakeStep, fileVars

\* The composition adds nothing to the three: what holds of each holds here.
THEOREM FilesKeepTheirSpecs == FilesSpec => Spec /\ Store!Spec /\ Bakes!Spec
<1>1. FilesInit => Init /\ Store!Init /\ Bakes!Init
  BY DEF FilesInit
<1>2. [FilesNext]_fileVars => [Next]_vars /\ [Store!Next]_(Store!vars) /\ [Bakes!Next]_(Bakes!vars)
  BY FilesStep DEF storeVars, bakeVars, Store!vars, Store!history, Bakes!vars
<1> QED
  BY <1>1, <1>2, PTL DEF FilesSpec, Spec, Store!Spec, Bakes!Spec

THEOREM FilesInvariant == FilesSpec => [](SInv /\ StoreInv /\ BakeInv)
<1>1. FilesInit => SInv /\ StoreInv /\ BakeInv
  BY SInit, StoreInitially, BakeInitially DEF FilesInit
<1>2. (SInv /\ StoreInv /\ BakeInv) /\ [FilesNext]_fileVars => (SInv /\ StoreInv /\ BakeInv)'
  BY FilesStep, SStep, StoreKept, BakeKept
<1> QED
  BY <1>1, <1>2, PTL DEF FilesSpec

\* append_results and write_failure_artifacts lose no run that measured, and
\* list none twice, unless a run is cut short while it rewrites the file.
THEOREM HistoryIsKept == FilesSpec => []HistoryKept
BY StoreAgrees, FilesInvariant, PTL

\* The summary of a shard count never lags behind its last record, failures
\* included, unless the run of that record was cut short.
THEOREM SummariesFollow == FilesSpec => []SummaryIsOfLastRecord
BY StoreAgrees, FilesInvariant, PTL

\* After a bake that was not cut short the load generator finds no key that a
\* node does not know, whatever bakes of other sizes or torn genesis came before.
THEOREM KeysAreKnown == FilesSpec => []BakedKeysAreKnown
BY BakeAgrees, FilesInvariant, PTL

\* No node keeps a database of another genesis than its own over such a bake.
THEOREM DatabasesFollow == FilesSpec => []DatabasesAreOfGenesis
BY BakeAgrees, FilesInvariant, PTL

=============================================================================
