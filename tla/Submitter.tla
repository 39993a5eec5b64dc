------------------------------ MODULE Submitter ------------------------------
(***************************************************************************)
(* scripts/external_tx_submitter.py: one process that feeds several shards *)
(* with signed transfers, in turns, and keeps the nonce of every account   *)
(* itself.  A turn is over when the node has acknowledged the transaction; *)
(* after anything else it is tried again, with the same nonce or, if the   *)
(* error speaks of the nonce or says Invalid, with the one after the nonce *)
(* of the final block.                                                     *)
(*                                                                         *)
(* A shard's accounts are the first files of its directory by name.  There *)
(* may be fewer than asked for, and the genesis was built from the account *)
(* numbers, which sort differently, so that the chain may not know one.    *)
(*                                                                         *)
(* The chain is external: a node acknowledges a transaction it could       *)
(* include, an answer may be lost although the request arrives, included   *)
(* transactions are final only later, and another submitter left over from *)
(* an earlier experiment may use the same accounts.                        *)
(*                                                                         *)
(* acked, fed and blind are history variables: the transactions that were  *)
(* acknowledged, how many of each account, and whether a nonce was read    *)
(* back although it was not the nonce that the node had objected to.       *)
(***************************************************************************)
EXTENDS Integers, FiniteSets

CONSTANTS NShards,       \* the shards given by --validator-ports
          NAccounts,     \* --accounts-per-shard
          MaxSubmitted,  \* bound: turns
          MaxUnknown,    \* bound: transactions the process knows nothing of
          MaxTroubles    \* bound: shards with files missing, accounts loaded
                         \* that the chain does not know

ASSUME ShardsAssumption == NShards \in Nat \ {0}
ASSUME AccountsAssumption == NAccounts \in Nat \ {0}
ASSUME BoundsAssumption == MaxSubmitted \in Nat /\ MaxUnknown \in Nat

Shard == 0 .. NShards - 1
Key == Shard \X (0 .. NAccounts - 1)
First == 0

VARIABLES
  loaded,     \* per shard, len(accounts): files found, as many as asked for
  known,      \* the accounts that the genesis has put on the chain
  pc,         \* load, hash, send, resync, or dead after an exception
  nonces,     \* per account, the last nonce used
  submitted,  \* acknowledged turns
  bh,         \* block hash to sign with: none, valid or expired
  up,         \* whether a shard's validator answers and takes what is valid
  head,       \* nonce of the access key in the newest block
  final,      \* nonce of the access key in the newest final block
  pool,       \* transactions the nodes may include
  wire,       \* transactions whose request may still arrive
  unknown,    \* transactions so far that are foreign or have lost their answer
  acked, fed, blind

files == <<loaded, known>>
own == <<pc, nonces, submitted, bh>>
chain == <<head, final, pool>>
history == <<acked, fed, blind>>
vars == <<files, own, up, chain, wire, unknown, history>>

Loaded == {k \in Key : k[2] < loaded[k[1]]}

\* The shard and the account of turn t; a shard without accounts has none.
Port(t) == t % NShards
Account(t) == (t \div NShards) % loaded[Port(t)]

\* The account whose turn it is, and the nonce its transaction carries.
Turn == <<Port(submitted), Account(submitted)>>
Nonce == nonces[Turn] + 1
Answers == up[Port(submitted)]

\* The chain would take a transaction of the account that signs turn t.
Served(t) == loaded[Port(t)] > 0 /\ <<Port(t), Account(t)>> \in known

Init ==
  /\ loaded \in [Shard -> 0 .. NAccounts]
  /\ known \in SUBSET Loaded
  /\ Cardinality({s \in Shard : loaded[s] < NAccounts})
       + Cardinality(Loaded \ known) <= MaxTroubles
  /\ pc = "load"
  /\ nonces = [k \in Key |-> 0] /\ submitted = 0 /\ bh = "none"
  /\ up \in [Shard -> BOOLEAN]
  /\ \E n \in 0 .. 1 : head = [k \in Key |-> IF k \in known THEN n ELSE 0]
  /\ final = head /\ pool = {} /\ wire = {} /\ unknown = 0
  /\ acked = {} /\ fed = [k \in Key |-> 0] /\ blind = FALSE

-----------------------------------------------------------------------------
(* Start-up.                                                               *)

\* The accounts of every shard: their nonces are taken to be 0 or asked for;
\* an account whose query fails, or is answered with an error because the
\* chain does not know it, starts at 0 as well.
LoadNonces ==
  /\ pc = "load"
  /\ pc' = "hash"
  /\ \E skip \in BOOLEAN :
       nonces' = [k \in Key |-> IF ~ skip /\ up[k[1]] /\ k \in known
                                    THEN final[k] ELSE 0]
  /\ UNCHANGED <<files, submitted, bh, up, chain, wire, unknown, history>>

\* Nothing is sent before a block hash is known; it comes from the first port.
FetchHash ==
  /\ pc = "hash" /\ up[First]
  /\ pc' = "send" /\ bh' = "valid"
  /\ UNCHANGED <<files, nonces, submitted, up, chain, wire, unknown, history>>

Unsettled == submitted < MaxSubmitted

\* BLOCK_HASH_REFRESH_S later; without an answer the old hash is kept.
Refresh ==
  /\ pc = "send" /\ Unsettled
  /\ bh' = IF up[First] THEN "valid" ELSE bh
  /\ UNCHANGED <<files, pc, nonces, submitted, up, chain, wire, unknown, history>>

-----------------------------------------------------------------------------
(* One turn of the loop.                                                   *)

Sending == pc = "send" /\ Unsettled /\ loaded[Port(submitted)] > 0

\* The node can take the transaction as it is.
Valid == Turn \in known /\ bh = "valid" /\ Nonce > head[Turn]

\* The remainder by the number of accounts is not defined for 0.
NoAccount ==
  /\ pc = "send" /\ Unsettled /\ loaded[Port(submitted)] = 0
  /\ pc' = "dead"
  /\ UNCHANGED <<files, nonces, submitted, bh, up, chain, wire, unknown, history>>

\* Fault: the nonce is not stored.
Acknowledge_Forgets ==
  /\ Sending /\ Answers /\ Valid
  /\ submitted' = submitted + 1
  /\ pool' = pool \cup {<<Turn, Nonce>>}
  /\ acked' = acked \cup {<<Turn, Nonce>>}
  /\ fed' = [fed EXCEPT ![Turn] = @ + 1]
  /\ UNCHANGED <<files, pc, nonces, bh, up, head, final, wire, unknown, blind>>

\* broadcast_tx_async returns without an error.
Acknowledge ==
  /\ Sending /\ Answers /\ Valid
  /\ nonces' = [nonces EXCEPT ![Turn] = Nonce]
  /\ submitted' = submitted + 1
  /\ pool' = pool \cup {<<Turn, Nonce>>}
  /\ acked' = acked \cup {<<Turn, Nonce>>}
  /\ fed' = [fed EXCEPT ![Turn] = @ + 1]
  /\ UNCHANGED <<files, pc, bh, up, head, final, wire, unknown, blind>>

\* The error names the nonce: it is behind the chain.
NonceRejected ==
  /\ Sending /\ Answers /\ Turn \in known /\ Nonce <= head[Turn]
  /\ pc' = "resync"
  /\ UNCHANGED <<files, nonces, submitted, bh, up, chain, wire, unknown, history>>

\* The error says Invalid, though not because of the nonce: the block hash has
\* expired, the chain does not know the account, or the node is not in order.
InvalidRejected ==
  /\ Sending /\ (bh = "expired" \/ Turn \notin known \/ ~ Answers)
  /\ pc' = "resync"
  /\ blind' = (blind \/ (Turn \in known /\ Nonce > head[Turn]))
  /\ UNCHANGED <<files, nonces, submitted, bh, up, chain, wire, unknown, acked, fed>>

\* An error of another kind is only counted as failed: the turn is repeated.
OtherRejected ==
  /\ Sending /\ ~ (Answers /\ Valid)
  /\ UNCHANGED vars

\* Fault: the turn is over whatever happened to it.
Unanswered_NextTurn ==
  /\ Sending /\ ~ Answers
  /\ submitted' = submitted + 1 /\ UNCHANGED wire
  /\ UNCHANGED <<files, pc, nonces, bh, up, chain, unknown, history>>

\* A timeout: the turn is repeated, and the request has reached the node
\* nevertheless.  One that has not is like an error that says nothing.
Unanswered ==
  /\ Sending /\ ~ Answers /\ Turn \in known
  /\ bh = "valid" /\ unknown < MaxUnknown
  /\ wire' = wire \cup {<<Turn, Nonce>>}
  /\ unknown' = unknown + 1
  /\ UNCHANGED <<files, own, up, chain, history>>

\* Fault: the nonce that is read back is not stored.
Resync_Ignored ==
  /\ pc = "resync"
  /\ pc' = "send"
  /\ UNCHANGED <<files, nonces, submitted, bh, up, chain, wire, unknown, history>>

\* query_nonce with finality "final"; a query that fails or is answered with
\* an error changes nothing.
Resync ==
  /\ pc = "resync"
  /\ pc' = "send"
  /\ nonces' = IF Answers /\ Turn \in known
               THEN [nonces EXCEPT ![Turn] = final[Turn]] ELSE nonces
  /\ UNCHANGED <<files, submitted, bh, up, chain, wire, unknown, history>>

-----------------------------------------------------------------------------
(* The chain and the network.                                              *)

\* A request whose answer was lost arrives after all.
Deliver(t) ==
  /\ Unsettled /\ t \in wire
  /\ wire' = wire \ {t}
  /\ pool' = IF t[2] > head[t[1]] THEN pool \cup {t} ELSE pool
  /\ UNCHANGED <<files, own, up, head, final, unknown, history>>

\* A block includes a transaction; the nonce of the key moves with it, which
\* leaves no place for earlier ones.
Include(t) ==
  /\ Unsettled /\ t \in pool
  /\ head' = [head EXCEPT ![t[1]] = t[2]]
  /\ pool' = {u \in pool : u[1] = t[1] => u[2] > t[2]}
  /\ UNCHANGED <<files, own, up, final, wire, unknown, history>>

Finalize(k) ==
  /\ Unsettled /\ final[k] # head[k]
  /\ final' = [final EXCEPT ![k] = head[k]]
  /\ UNCHANGED <<files, own, up, head, pool, wire, unknown, history>>

\* The same account is used by somebody else.
Foreign(k) ==
  /\ Unsettled /\ k \in known /\ unknown < MaxUnknown
  /\ unknown' = unknown + 1
  /\ head' = [head EXCEPT ![k] = @ + 1]
  /\ pool' = {t \in pool : t[1] = k => t[2] > head'[k]}
  /\ UNCHANGED <<files, own, up, final, wire, history>>

Switch(s) ==
  /\ Unsettled
  /\ up' = [up EXCEPT ![s] = ~ @]
  /\ UNCHANGED <<files, own, chain, wire, unknown, history>>

\* The hash outlives its validity only while the first port does not answer.
HashExpires ==
  /\ Unsettled /\ bh = "valid" /\ ~ up[First]
  /\ bh' = "expired"
  /\ UNCHANGED <<files, pc, nonces, submitted, up, chain, wire, unknown, history>>

BoundReached == (pc = "dead" \/ ~ Unsettled) /\ UNCHANGED vars

LoopStep == \/ LoadNonces \/ FetchHash \/ Acknowledge \/ NoAccount
            \/ NonceRejected \/ InvalidRejected \/ Resync

Next ==
  \/ LoopStep \/ OtherRejected \/ Unanswered \/ Refresh
  \/ \E t \in wire : Deliver(t)
  \/ \E t \in pool : Include(t)
  \/ \E k \in Key : Finalize(k) \/ Foreign(k)
  \/ \E s \in Shard : Switch(s)
  \/ HashExpires \/ BoundReached

Spec == Init /\ [][Next]_vars

\* The loop never stops, it refreshes the hash again and again, and final
\* blocks follow the newest one.
FairSpec == /\ Spec
            /\ WF_vars(LoopStep)
            /\ SF_vars(Refresh)
            /\ \A k \in Key : WF_vars(Finalize(k))

-----------------------------------------------------------------------------
(* Correctness.                                                            *)

\* Every variable stays in its type.
TypeOK ==
  /\ loaded \in [Shard -> 0 .. NAccounts] /\ known \subseteq Key
  /\ pc \in {"load", "hash", "send", "resync", "dead"}
  /\ nonces \in [Key -> Nat] /\ submitted \in 0 .. MaxSubmitted
  /\ bh \in {"none", "valid", "expired"}
  /\ up \in [Shard -> BOOLEAN]
  /\ head \in [Key -> Nat] /\ final \in [Key -> Nat]
  /\ pool \subseteq Key \X Nat /\ wire \subseteq Key \X Nat
  /\ unknown \in 0 .. MaxUnknown
  /\ acked \subseteq Key \X Nat /\ fed \in [Key -> Nat] /\ blind \in BOOLEAN

\* No two acknowledged turns of an account carry the same nonce, whatever
\* answers were lost and however far the final block lags behind: "submitted"
\* counts different transactions.  The exception is a read-back after an error
\* that was not about the nonce; it forgets the transactions in the pool.
SubmittedOnce == ~ blind => Cardinality(acked) = submitted

\* The load is even at any time: no account has had two turns more than one of
\* a shard with as many accounts or fewer.  A shard that does not answer or
\* rejects an account holds up the others and is not passed over.
EvenLoad == \A j, k \in Key :
  k \in Loaded /\ loaded[k[1]] <= loaded[j[1]] => fed[j] <= fed[k] + 1

\* The turn that is never over: the first one of an account that the chain does
\* not know or of a shard without accounts.
LastTurn == CHOOSE t \in 0 .. MaxSubmitted :
              /\ t = MaxSubmitted \/ ~ Served(t)
              /\ \A u \in 0 .. t - 1 : Served(u)

\* Once all shards answer for good, the turns go on: a nonce that is behind
\* catches up with the chain and an expired hash is replaced.  They go on to
\* the first account that the chain does not know, and there they stop for all
\* shards.
KeepsFeeding ==
  <>[](\A s \in Shard : up[s]) => <>[](submitted = LastTurn)

=============================================================================
