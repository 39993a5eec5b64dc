-------------------------- MODULE Submitter_proofs --------------------------
(* Theorems about Submitter for any number of shards, accounts and turns.  *)
EXTENDS Submitter, FiniteSetTheorems, TLAPS

(***************************************************************************)
(* The inductive invariant.                                                *)
(***************************************************************************)

\* Nothing is sent before the nonces are loaded.
NothingYet == pc \in {"load", "hash"} => acked = {}

\* The chain knows every account whose transaction it has acknowledged.
AckedKnown == \A t \in acked : t[1] \in known

\* What a node may include has a nonce ahead of the chain.
PoolAhead == \A t \in pool : head[t[1]] < t[2]

\* Every acknowledged nonce is behind the process's own count or behind the
\* chain, and behind the chain when the count is about to be read back.
AckedBehind ==
  ~ blind => \A t \in acked :
    /\ t[2] <= nonces[t[1]] \/ t[2] <= head[t[1]]
    /\ pc = "resync" /\ t[1] = Turn => t[2] <= head[t[1]]

Counted == IsFiniteSet(acked) /\ SubmittedOnce

SInv == /\ TypeOK /\ NothingYet /\ AckedKnown /\ PoolAhead
        /\ AckedBehind /\ Counted

\* The turn of a shard that has accounts belongs to one of them.
LEMMA TurnIsKey == TypeOK /\ loaded[Port(submitted)] > 0 => Turn \in Key
<1> SUFFICES ASSUME TypeOK, loaded[Port(submitted)] > 0 PROVE Turn \in Key
  OBVIOUS
<1>1. submitted \in Nat
  BY BoundsAssumption DEF TypeOK
<1>2. Port(submitted) \in Shard
  BY <1>1, ShardsAssumption DEF Port, Shard
<1>3. submitted \div NShards \in Nat
  BY <1>1, ShardsAssumption
<1>4. loaded[Port(submitted)] \in Nat \ {0} /\ loaded[Port(submitted)] <= NAccounts
  BY <1>2, AccountsAssumption DEF TypeOK
<1>5. Account(submitted) \in 0 .. NAccounts - 1
  BY <1>3, <1>4, AccountsAssumption DEF Account
<1> QED BY <1>2, <1>5 DEF Turn, Key

LEMMA SInvInit == Init => SInv
<1> SUFFICES ASSUME Init PROVE SInv
  OBVIOUS
<1>1. TypeOK
  <2>1. PICK n \in 0 .. 1 : head = [k \in Key |-> IF k \in known THEN n ELSE 0]
    BY DEF Init
  <2>2. head \in [Key -> Nat] /\ final \in [Key -> Nat]
    BY <2>1 DEF Init
  <2>3. 0 \in 0 .. MaxSubmitted /\ 0 \in 0 .. MaxUnknown
    BY BoundsAssumption
  <2>4. nonces \in [Key -> Nat] /\ fed \in [Key -> Nat]
    BY DEF Init
  <2>5. loaded \in [Shard -> 0 .. NAccounts] /\ known \subseteq Key
    BY DEF Init, Loaded
  <2> QED BY <2>2, <2>3, <2>4, <2>5 DEF Init, TypeOK
<1>2. Counted
  BY FS_EmptySet DEF Init, Counted, SubmittedOnce
<1> QED BY <1>1, <1>2 DEF Init, SInv, NothingYet, AckedKnown, PoolAhead, AckedBehind

\* The turn stays while the count stays.
LEMMA TurnStays ==
  ASSUME submitted' = submitted, UNCHANGED files PROVE Turn' = Turn
  BY DEF Turn, Port, Account, files

\* An acknowledged transaction is a new one.
LEMMA SInvAcknowledge == SInv /\ Acknowledge => SInv'
<1> SUFFICES ASSUME SInv, Acknowledge PROVE SInv'
  OBVIOUS
<1> USE DEF SInv, TypeOK, Sending, Unsettled
<1>1. Turn \in Key /\ Turn \in known
  BY DEF Acknowledge, Valid
<1>2. PICK k \in Key : k = Turn /\ k \in known
  BY <1>1
<1>3. /\ nonces' = [nonces EXCEPT ![k] = Nonce] /\ Nonce = nonces[k] + 1
      /\ head[k] < Nonce /\ Nonce \in Nat /\ pc = "send" /\ pc' = pc
      /\ submitted' = submitted + 1 /\ submitted < MaxSubmitted
      /\ pool' = pool \cup {<<k, Nonce>>} /\ acked' = acked \cup {<<k, Nonce>>}
      /\ fed' = [fed EXCEPT ![k] = @ + 1]
      /\ UNCHANGED <<files, bh, up, head, final, wire, unknown, blind>>
  BY <1>2 DEF Acknowledge, Valid, Nonce
<1>4. TypeOK'
  BY <1>3, BoundsAssumption DEF files
<1>5. NothingYet' /\ AckedKnown' /\ PoolAhead'
  BY <1>2, <1>3 DEF NothingYet, AckedKnown, PoolAhead, files
<1>6. AckedBehind'
  BY <1>3 DEF AckedBehind
<1>7. ~ blind => <<k, Nonce>> \notin acked
  BY <1>3 DEF AckedBehind
<1>8. Counted'
  <2>1. /\ IsFiniteSet(acked')
        /\ <<k, Nonce>> \notin acked => Cardinality(acked') = Cardinality(acked) + 1
    BY <1>3, FS_AddElement DEF Counted
  <2> QED BY <2>1, <1>3, <1>7 DEF Counted, SubmittedOnce
<1> QED BY <1>4, <1>5, <1>6, <1>8

\* Reading a nonce back, in whatever block it was final, forgets nothing that
\* could be acknowledged again.
LEMMA SInvResync == SInv /\ (NonceRejected \/ InvalidRejected \/ Resync) => SInv'
<1> SUFFICES ASSUME SInv, NonceRejected \/ InvalidRejected \/ Resync PROVE SInv'
  OBVIOUS
<1> USE DEF SInv, TypeOK, Sending, Unsettled, files, chain, history
<1>1. submitted' = submitted /\ UNCHANGED files
  BY DEF NonceRejected, InvalidRejected, Resync
<1>2. Turn' = Turn
  BY <1>1, TurnStays
<1>3. CASE NonceRejected
  <2>1. /\ Turn \in Key /\ nonces[Turn] + 1 <= head[Turn]
        /\ pc = "send" /\ pc' = "resync"
        /\ UNCHANGED <<nonces, bh, up, head, final, pool, wire, unknown,
                       acked, fed, blind>>
    BY <1>3 DEF NonceRejected, Nonce
  <2>2. AckedBehind'
    BY <1>2, <2>1 DEF AckedBehind
  <2> QED
    BY <1>1, <2>1, <2>2 DEF NothingYet, AckedKnown, PoolAhead, Counted, SubmittedOnce
<1>4. CASE InvalidRejected
  <2>1. /\ blind' = (blind \/ (Turn \in known /\ Nonce > head[Turn]))
        /\ Nonce = nonces[Turn] + 1 /\ pc = "send" /\ pc' = "resync"
        /\ UNCHANGED <<nonces, bh, up, head, final, pool, wire, unknown, acked, fed>>
    BY <1>4 DEF InvalidRejected, Nonce
  <2>2. blind' \in BOOLEAN
    BY <2>1
  <2>3. ~ blind' => ~ blind /\ (Turn \in known => ~ (Nonce > head[Turn]))
    BY <2>1
  <2>4. TypeOK'
    BY <1>1, <2>1, <2>2
  <2>5. NothingYet' /\ AckedKnown' /\ PoolAhead'
    BY <1>1, <2>1 DEF NothingYet, AckedKnown, PoolAhead
  <2>6. AckedBehind'
    <3>1. SUFFICES ASSUME ~ blind', NEW t \in acked
                   PROVE  /\ t[2] <= nonces[t[1]] \/ t[2] <= head[t[1]]
                          /\ t[1] = Turn => t[2] <= head[t[1]]
      BY <1>2, <2>1 DEF AckedBehind
    <3>2. t[2] <= nonces[t[1]] \/ t[2] <= head[t[1]]
      BY <2>3, <3>1 DEF AckedBehind
    <3>3. ASSUME t[1] = Turn PROVE t[2] <= head[t[1]]
      <4>1. t[1] \in known /\ t[1] \in Key /\ t[2] \in Nat
        BY DEF AckedKnown
      <4>2. nonces[t[1]] + 1 <= head[t[1]]
        BY <2>1, <2>3, <3>1, <3>3, <4>1
      <4> QED BY <3>2, <4>1, <4>2
    <3> QED BY <3>2, <3>3
  <2>7. Counted'
    BY <1>1, <2>1, <2>3 DEF Counted, SubmittedOnce
  <2> QED BY <2>4, <2>5, <2>6, <2>7
<1>5. CASE Resync
  <2>1. /\ pc = "resync" /\ pc' = "send"
        /\ nonces' = nonces \/ (Turn \in Key /\ nonces' = [nonces EXCEPT ![Turn] = final[Turn]])
        /\ UNCHANGED <<bh, up, head, final, pool, wire, unknown, acked, fed, blind>>
    BY <1>5 DEF Resync
  <2>2. TypeOK' /\ NothingYet' /\ AckedKnown' /\ PoolAhead' /\ Counted'
    BY <1>1, <2>1 DEF NothingYet, AckedKnown, PoolAhead, Counted, SubmittedOnce
  <2>3. AckedBehind'
    BY <1>1, <2>1 DEF AckedBehind
  <2> QED BY <2>2, <2>3
<1> QED BY <1>3, <1>4, <1>5

\* The chain only moves forward.
LEMMA SInvChain ==
  SInv /\ (\/ \E t \in wire : Deliver(t)
           \/ \E t \in pool : Include(t)
           \/ \E k \in Key : Finalize(k) \/ Foreign(k)) => SInv'
<1> SUFFICES ASSUME SInv,
                    \/ \E t \in wire : Deliver(t)
                    \/ \E t \in pool : Include(t)
                    \/ \E k \in Key : Finalize(k) \/ Foreign(k)
             PROVE  SInv'
  OBVIOUS
<1> USE DEF SInv, TypeOK, AckedKnown, Unsettled, files, own, history
<1>1. submitted' = submitted /\ UNCHANGED files => Turn' = Turn
  BY TurnStays
<1>2. ASSUME NEW t \in wire, Deliver(t) PROVE SInv'
  BY <1>1, <1>2 DEF Deliver, NothingYet, PoolAhead, AckedBehind, Counted,
     SubmittedOnce
<1>3. ASSUME NEW t \in pool, Include(t) PROVE SInv'
  <2>1. /\ t[1] \in Key /\ t[2] \in Nat /\ head[t[1]] < t[2]
        /\ head' = [head EXCEPT ![t[1]] = t[2]]
        /\ pool' = {u \in pool : u[1] = t[1] => t[2] < u[2]}
        /\ UNCHANGED <<files, pc, nonces, submitted, bh, up, final, wire, unknown,
                       acked, fed, blind>>
    BY <1>3 DEF Include, PoolAhead
  <2>2. TypeOK' /\ NothingYet' /\ AckedKnown' /\ PoolAhead' /\ Counted'
    BY <2>1 DEF NothingYet, PoolAhead, Counted, SubmittedOnce
  <2>3. AckedBehind'
    BY <2>1, <1>1 DEF AckedBehind
  <2> QED BY <2>2, <2>3
<1>4. ASSUME NEW k \in Key, Finalize(k) PROVE SInv'
  BY <1>1, <1>4 DEF Finalize, NothingYet, PoolAhead, AckedBehind, Counted,
     SubmittedOnce
<1>5. ASSUME NEW k \in Key, Foreign(k) PROVE SInv'
  <2>1. /\ head' = [head EXCEPT ![k] = head[k] + 1]
        /\ pool' = {u \in pool : u[1] = k => u[2] > head'[k]}
        /\ unknown' = unknown + 1 /\ unknown < MaxUnknown
        /\ UNCHANGED <<files, pc, nonces, submitted, bh, up, final, wire,
                       acked, fed, blind>>
    BY <1>5 DEF Foreign
  <2>2. TypeOK' /\ NothingYet' /\ AckedKnown' /\ PoolAhead' /\ Counted'
    BY <2>1, BoundsAssumption DEF NothingYet, PoolAhead, Counted, SubmittedOnce
  <2>3. AckedBehind'
    BY <2>1, <1>1 DEF AckedBehind
  <2> QED BY <2>2, <2>3
<1> QED BY <1>2, <1>3, <1>4, <1>5

LEMMA SInvStep == SInv /\ [Next]_vars => SInv'
<1> SUFFICES ASSUME SInv, [Next]_vars PROVE SInv'
  OBVIOUS
<1> USE DEF SInv, TypeOK, AckedKnown, Unsettled, files, own, chain, history
<1>1. submitted' = submitted /\ UNCHANGED files => Turn' = Turn
  BY TurnStays
<1>2. CASE LoadNonces
  <2>1. /\ nonces' \in [Key -> Nat] /\ pc = "load" /\ pc' = "hash"
        /\ UNCHANGED <<files, submitted, bh, up, head, final, pool, wire, unknown,
                       acked, fed, blind>>
    BY <1>2 DEF LoadNonces
  <2> QED BY <2>1 DEF NothingYet, PoolAhead, AckedBehind, Counted, SubmittedOnce
<1>3. CASE FetchHash
  BY <1>1, <1>3 DEF FetchHash, NothingYet, PoolAhead, AckedBehind, Counted,
     SubmittedOnce
<1>4. CASE Unanswered
  <2>1. /\ wire' \subseteq Key \X Nat /\ unknown' \in 0 .. MaxUnknown
        /\ UNCHANGED <<files, pc, nonces, submitted, bh, up, head, final, pool,
                       acked, fed, blind>>
    BY <1>4, BoundsAssumption DEF Unanswered, Nonce
  <2> QED BY <1>1, <2>1 DEF NothingYet, PoolAhead, AckedBehind, Counted,
             SubmittedOnce
<1>5. CASE Refresh
  BY <1>1, <1>5 DEF Refresh, NothingYet, PoolAhead, AckedBehind, Counted,
     SubmittedOnce
<1>6. CASE \E s \in Shard : Switch(s)
  BY <1>1, <1>6 DEF Switch, NothingYet, PoolAhead, AckedBehind, Counted,
     SubmittedOnce
<1>7. CASE HashExpires
  BY <1>1, <1>7 DEF HashExpires, NothingYet, PoolAhead, AckedBehind, Counted,
     SubmittedOnce
<1>8. CASE NoAccount
  BY <1>1, <1>8 DEF NoAccount, NothingYet, PoolAhead, AckedBehind, Counted,
     SubmittedOnce
<1>9. CASE UNCHANGED vars
  BY <1>1, <1>9 DEF vars, NothingYet, PoolAhead, AckedBehind, Counted,
     SubmittedOnce
<1> QED BY <1>2, <1>3, <1>4, <1>5, <1>6, <1>7, <1>8, <1>9,
           SInvAcknowledge, SInvResync, SInvChain
        DEF Next, LoopStep, OtherRejected, BoundReached

THEOREM SubmitterInvariant == Spec => []SInv
<1>1. SInv /\ [Next]_vars => SInv'
  BY SInvStep
<1> QED BY SInvInit, <1>1, PTL DEF Spec

(***************************************************************************)
(* The turns go round: after q rounds over the shards, those before s have *)
(* had one turn more than the others, and so have, within a shard that has *)
(* had n turns, the accounts before n % loaded.                            *)
(***************************************************************************)

Spread(sh, n) ==
  \E p \in Nat, r \in 0 .. loaded[sh] - 1 :
    /\ n = p * loaded[sh] + r
    /\ \A a \in 0 .. NAccounts - 1 :
         fed[<<sh, a>>] = IF a < r THEN p + 1 ELSE IF a < loaded[sh] THEN p ELSE 0

Rounds ==
  \E q \in Nat, s \in Shard :
    /\ submitted = q * NShards + s
    /\ \A sh \in Shard : loaded[sh] > 0 => Spread(sh, IF sh < s THEN q + 1 ELSE q)

\* Where a number lies between two multiples of n is its only division by n.
LEMMA Division ==
  ASSUME NEW n \in Nat \ {0}, NEW x \in Nat, NEW r \in 0 .. n - 1
  PROVE  (x * n + r) \div n = x /\ (x * n + r) % n = r
<1> DEFINE a == x * n + r
           d == a \div n
           m == a % n
<1>1. a \in Nat /\ d \in Nat /\ m \in 0 .. n - 1 /\ a = n * d + m
  OBVIOUS
<1> HIDE DEF d, m
<1>2. x < d => n * (d - x) >= n
  BY <1>1
<1>3. d < x => n * (x - d) >= n
  BY <1>1
<1>4. n * (d - x) = r - m /\ n * (x - d) = m - r
  BY <1>1
<1>5. d = x
  BY <1>1, <1>2, <1>3, <1>4
<1>6. m = r
  BY <1>1, <1>5
<1> QED
  BY <1>5, <1>6 DEF d, m

\* A turn of shard s goes to the next of its accounts.
LEMMA SpreadStep ==
  ASSUME TypeOK, NEW s \in Shard, loaded[s] > 0, NEW q \in Nat, Spread(s, q),
         UNCHANGED loaded,
         fed' = [fed EXCEPT ![<<s, q % loaded[s]>>] = @ + 1]
  PROVE  Spread(s, q + 1)'
<1>1. PICK p \in Nat, r \in 0 .. loaded[s] - 1 :
        /\ q = p * loaded[s] + r
        /\ \A a \in 0 .. NAccounts - 1 :
             fed[<<s, a>>] = IF a < r THEN p + 1 ELSE IF a < loaded[s] THEN p ELSE 0
  BY DEF Spread
<1>2. loaded[s] \in Nat \ {0} /\ loaded[s] <= NAccounts /\ loaded'[s] = loaded[s]
  BY AccountsAssumption DEF TypeOK
<1>3. q % loaded[s] = r
  BY <1>1, <1>2, Division
<1>4. \A a \in 0 .. NAccounts - 1 :
        fed'[<<s, a>>] = IF a = r THEN fed[<<s, a>>] + 1 ELSE fed[<<s, a>>]
  <2>1. \A a \in 0 .. NAccounts - 1 : <<s, a>> \in Key
    BY DEF Key
  <2> QED BY <1>3, <2>1 DEF TypeOK
<1>5. \A a \in 0 .. NAccounts - 1 :
        fed'[<<s, a>>] = IF a <= r THEN p + 1 ELSE IF a < loaded[s] THEN p ELSE 0
  BY <1>1, <1>2, <1>4
<1>6. CASE r + 1 < loaded[s]
  <2>1. q + 1 = p * loaded[s] + (r + 1) /\ r + 1 \in 0 .. loaded[s] - 1
    BY <1>1, <1>2, <1>6
  <2>2. \A a \in 0 .. NAccounts - 1 :
          fed'[<<s, a>>] = IF a < r + 1 THEN p + 1 ELSE IF a < loaded[s] THEN p ELSE 0
    BY <1>5, <1>2
  <2> QED BY <1>2, <2>1, <2>2 DEF Spread
<1>7. CASE r + 1 = loaded[s]
  <2>1. q + 1 = (p + 1) * loaded[s] + 0 /\ 0 \in 0 .. loaded[s] - 1 /\ p + 1 \in Nat
    BY <1>1, <1>2, <1>7
  <2>2. \A a \in 0 .. NAccounts - 1 :
          fed'[<<s, a>>] = IF a < 0 THEN (p + 1) + 1 ELSE IF a < loaded[s] THEN p + 1 ELSE 0
    BY <1>5, <1>2, <1>7
  <2> QED BY <1>2, <2>1, <2>2 DEF Spread
<1>8. r + 1 < loaded[s] \/ r + 1 = loaded[s]
  BY <1>2
<1> QED
  BY <1>6, <1>7, <1>8

\* The turns of another shard are not touched.
LEMMA SpreadKept ==
  ASSUME TypeOK, NEW sh \in Shard, NEW n, Spread(sh, n), UNCHANGED loaded,
         \A a \in 0 .. NAccounts - 1 : fed'[<<sh, a>>] = fed[<<sh, a>>]
  PROVE  Spread(sh, n)'
  BY DEF Spread

\* An acknowledgement is the turn of the next shard of the round.
LEMMA RoundsStep ==
  ASSUME TypeOK, Rounds, Acknowledge
  PROVE  Rounds'
<1>1. PICK q \in Nat, s \in Shard :
        /\ submitted = q * NShards + s
        /\ \A sh \in Shard : loaded[sh] > 0 => Spread(sh, IF sh < s THEN q + 1 ELSE q)
  BY DEF Rounds
<1>2. /\ UNCHANGED loaded /\ submitted' = submitted + 1
      /\ fed' = [fed EXCEPT ![Turn] = @ + 1] /\ loaded[Port(submitted)] > 0
  BY DEF Acknowledge, Sending, files
<1>3. Port(submitted) = s /\ submitted \div NShards = q
  BY <1>1, ShardsAssumption, Division DEF Port, Shard
<1>4. Turn = <<s, q % loaded[s]>> /\ loaded[s] > 0
  BY <1>2, <1>3 DEF Turn, Account
<1>5. ~ (s < s)
  BY DEF Shard
<1>6. Spread(s, q + 1)'
  <2>1. Spread(s, q)
    BY <1>1, <1>4, <1>5
  <2> QED BY <1>2, <1>4, <2>1, SpreadStep
<1>7. \A sh \in Shard : sh # s /\ loaded[sh] > 0 =>
        Spread(sh, IF sh < s THEN q + 1 ELSE q)'
  <2>1. SUFFICES ASSUME NEW sh \in Shard, sh # s, loaded[sh] > 0
                 PROVE  Spread(sh, IF sh < s THEN q + 1 ELSE q)'
    BY DEF Shard
  <2>2. \A a \in 0 .. NAccounts - 1 : fed'[<<sh, a>>] = fed[<<sh, a>>]
    <3>1. SUFFICES ASSUME NEW a \in 0 .. NAccounts - 1 PROVE fed'[<<sh, a>>] = fed[<<sh, a>>]
      OBVIOUS
    <3>2. <<sh, a>> \in Key /\ <<sh, a>> # Turn
      BY <1>4, <2>1 DEF Key
    <3> QED BY <1>2, <3>2 DEF TypeOK
  <2> DEFINE n == IF sh < s THEN q + 1 ELSE q
  <2>3. Spread(sh, n)
    BY <1>1, <2>1
  <2>4. n' = n
    BY DEF Shard
  <2> HIDE DEF n
  <2>5. Spread(sh, n)'
    BY <1>2, <2>2, <2>3, SpreadKept
  <2> QED BY <2>5 DEF n
<1>8. \A sh \in Shard : loaded'[sh] > 0 =>
        Spread(sh, IF sh < s + 1 THEN q + 1 ELSE q)'
  <2>1. SUFFICES ASSUME NEW sh \in Shard, loaded[sh] > 0
                 PROVE  Spread(sh, IF sh < s + 1 THEN q + 1 ELSE q)'
    BY <1>2
  <2>2. CASE sh = s
    BY <1>6, <2>2 DEF Shard
  <2>3. CASE sh # s
    <3>1. sh < s + 1 <=> sh < s
      BY <2>3, ShardsAssumption DEF Shard
    <3> QED BY <1>7, <2>1, <2>3, <3>1
  <2> QED BY <2>2, <2>3
<1>9. CASE s + 1 < NShards
  <2>1. submitted' = q * NShards + (s + 1) /\ s + 1 \in Shard
    BY <1>1, <1>2, <1>9, ShardsAssumption DEF Shard
  <2> QED BY <1>8, <2>1 DEF Rounds
<1>10. CASE s + 1 = NShards
  <2>1. submitted' = (q + 1) * NShards + 0 /\ 0 \in Shard /\ q + 1 \in Nat
    BY <1>1, <1>2, <1>10, ShardsAssumption DEF Shard
  <2>2. \A sh \in Shard : sh < s + 1 /\ ~ (sh < 0)
    BY <1>10, ShardsAssumption DEF Shard
  <2>3. \A sh \in Shard : loaded'[sh] > 0 =>
          Spread(sh, IF sh < 0 THEN (q + 1) + 1 ELSE q + 1)'
    BY <1>8, <2>2
  <2> QED BY <2>1, <2>3 DEF Rounds
<1> QED
  BY <1>9, <1>10, ShardsAssumption DEF Shard

\* Only an acknowledgement ends a turn.
LEMMA TurnsStep == [Next]_vars => Acknowledge \/ UNCHANGED <<loaded, submitted, fed>>
  BY DEF Next, vars, files, own, chain, history, LoopStep, LoadNonces, FetchHash,
     NoAccount, NonceRejected, InvalidRejected, OtherRejected, Resync, Unanswered,
     Refresh, Deliver, Include, Finalize, Foreign, Switch, HashExpires, BoundReached

THEOREM RoundsInvariant == Spec => []Rounds
<1>1. TypeOK /\ Init => Rounds
  <2> SUFFICES ASSUME TypeOK, Init PROVE Rounds
    OBVIOUS
  <2>1. submitted = 0 * NShards + 0 /\ 0 \in Shard
    BY ShardsAssumption DEF Init, Shard
  <2>2. \A sh \in Shard : loaded[sh] > 0 => Spread(sh, 0)
    <3>1. SUFFICES ASSUME NEW sh \in Shard, loaded[sh] > 0 PROVE Spread(sh, 0)
      OBVIOUS
    <3>2. loaded[sh] \in Nat /\ 0 \in 0 .. loaded[sh] - 1 /\ 0 = 0 * loaded[sh] + 0
      BY <3>1, AccountsAssumption DEF TypeOK
    <3>3. \A a \in 0 .. NAccounts - 1 :
            fed[<<sh, a>>] = IF a < 0 THEN 0 + 1 ELSE IF a < loaded[sh] THEN 0 ELSE 0
      BY <3>1 DEF Init, Key
    <3> QED BY <3>2, <3>3 DEF Spread
  <2>3. \A sh \in Shard : ~ (sh < 0)
    BY ShardsAssumption DEF Shard
  <2>4. \A sh \in Shard : loaded[sh] > 0 => Spread(sh, IF sh < 0 THEN 0 + 1 ELSE 0)
    BY <2>2, <2>3
  <2> QED
    BY <2>1, <2>4 DEF Rounds
<1>2. TypeOK /\ Rounds /\ [Next]_vars => Rounds'
  <2>1. TypeOK /\ Rounds /\ Acknowledge => Rounds'
    BY RoundsStep
  <2>2. Rounds /\ UNCHANGED <<loaded, submitted, fed>> => Rounds'
    BY DEF Rounds, Spread
  <2> QED
    BY <2>1, <2>2, TurnsStep
<1>3. SInv => TypeOK
  BY DEF SInv
<1> QED
  BY <1>1, <1>2, <1>3, SubmitterInvariant, PTL DEF Spec

\* Fewer turns dealt to more accounts.
LEMMA ShareOfMore ==
  ASSUME NEW x \in Nat, NEW y \in Nat, NEW l \in Nat, NEW m \in Nat \ {0}, m <= l,
         x * l < (y + 1) * m
  PROVE  x <= y
<1>1. SUFFICES ASSUME y + 1 <= x PROVE FALSE
  OBVIOUS
<1>2. x = (y + 1) + (x - (y + 1)) /\ x - (y + 1) \in Nat
  BY <1>1
<1>3. l = m + (l - m) /\ l - m \in Nat
  OBVIOUS
<1>4. x * l = (y + 1) * m + (y + 1) * (l - m) + (x - (y + 1)) * l
  BY <1>2, <1>3
<1>5. (y + 1) * (l - m) \in Nat /\ (x - (y + 1)) * l \in Nat /\ (y + 1) * m \in Nat
  BY <1>2, <1>3
<1> QED
  BY <1>4, <1>5

LEMMA RoundsAreEven == TypeOK /\ Rounds => EvenLoad
<1>1. SUFFICES ASSUME TypeOK, Rounds, NEW j \in Key, NEW k \in Key, k \in Loaded,
                      loaded[k[1]] <= loaded[j[1]]
               PROVE  fed[j] <= fed[k] + 1
  BY DEF EvenLoad
<1>2. /\ j = <<j[1], j[2]>> /\ j[1] \in Shard /\ j[2] \in 0 .. NAccounts - 1
      /\ k = <<k[1], k[2]>> /\ k[1] \in Shard /\ k[2] \in 0 .. NAccounts - 1
      /\ k[2] < loaded[k[1]]
  BY <1>1 DEF Key, Loaded
<1>3. loaded[j[1]] \in Nat \ {0} /\ loaded[k[1]] \in Nat \ {0}
  BY <1>1, <1>2, AccountsAssumption DEF TypeOK
<1>4. PICK q \in Nat, s \in Shard :
        \A sh \in Shard : loaded[sh] > 0 => Spread(sh, IF sh < s THEN q + 1 ELSE q)
  BY <1>1 DEF Rounds
<1> DEFINE n == IF j[1] < s THEN q + 1 ELSE q
           m == IF k[1] < s THEN q + 1 ELSE q
<1>5. PICK p \in Nat, r \in 0 .. loaded[j[1]] - 1 :
        /\ n = p * loaded[j[1]] + r
        /\ \A a \in 0 .. NAccounts - 1 :
             fed[<<j[1], a>>] = IF a < r THEN p + 1 ELSE IF a < loaded[j[1]] THEN p ELSE 0
  BY <1>2, <1>3, <1>4 DEF Spread
<1>6. PICK u \in Nat, v \in 0 .. loaded[k[1]] - 1 :
        /\ m = u * loaded[k[1]] + v
        /\ \A a \in 0 .. NAccounts - 1 :
             fed[<<k[1], a>>] = IF a < v THEN u + 1 ELSE IF a < loaded[k[1]] THEN u ELSE 0
  BY <1>2, <1>3, <1>4 DEF Spread
<1>7. fed[k] \in {u, u + 1}
  BY <1>2, <1>6
<1>8. n <= m + 1 /\ n \in Nat /\ m \in Nat
  BY DEF Shard
<1> HIDE DEF n, m
<1>9. CASE j[2] < r
  <2>1. fed[j] = p + 1
    BY <1>2, <1>5, <1>9
  <2>2. p * loaded[j[1]] \in Nat /\ u * loaded[k[1]] \in Nat
        /\ (u + 1) * loaded[k[1]] = u * loaded[k[1]] + loaded[k[1]]
    BY <1>3
  <2>3. p * loaded[j[1]] < (u + 1) * loaded[k[1]]
    BY <1>2, <1>3, <1>5, <1>6, <1>8, <1>9, <2>2
  <2>4. p <= u
    BY <1>1, <1>3, <2>3, ShareOfMore
  <2> QED BY <1>7, <2>1, <2>4
<1>10. CASE ~ (j[2] < r)
  <2>1. fed[j] \in {p, 0}
    BY <1>2, <1>5, <1>10
  <2>2. p * loaded[j[1]] \in Nat /\ u * loaded[k[1]] \in Nat
        /\ ((u + 1) + 1) * loaded[k[1]] = u * loaded[k[1]] + loaded[k[1]] + loaded[k[1]]
    BY <1>3
  <2>3. p * loaded[j[1]] < ((u + 1) + 1) * loaded[k[1]]
    BY <1>2, <1>3, <1>5, <1>6, <1>8, <2>2
  <2>4. p <= u + 1
    <3>1. u + 1 \in Nat
      OBVIOUS
    <3> QED BY <1>1, <1>3, <2>3, <3>1, ShareOfMore
  <2> QED BY <1>7, <2>1, <2>4
<1> QED
  BY <1>9, <1>10

(***************************************************************************)
(* The theorems.                                                           *)
(***************************************************************************)

\* Every variable of the submitter keeps its type: a nonce stays a number and
\* a turn an account, for any number of shards and accounts.
THEOREM SubmitterTypes == Spec => []TypeOK
<1>1. SInv => TypeOK
  BY DEF SInv
<1> QED BY SubmitterInvariant, <1>1, PTL

\* The submitter never counts the same nonce of an account twice, as long as
\* nonces are read back only after an error about the nonce.
THEOREM TurnsAreDistinct == Spec => []SubmittedOnce
<1>1. SInv => SubmittedOnce
  BY DEF SInv, Counted
<1> QED BY SubmitterInvariant, <1>1, PTL

\* However many shards there are, however many accounts each of them has and
\* whatever is lost or rejected, no account ever has had two turns more than one
\* of a shard with as many accounts or fewer.
THEOREM LoadIsEven == Spec => []EvenLoad
<1>1. SInv => TypeOK
  BY DEF SInv
<1> QED BY <1>1, RoundsAreEven, RoundsInvariant, SubmitterInvariant, PTL

=============================================================================
