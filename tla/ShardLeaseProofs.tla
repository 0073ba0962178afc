-------------------------- MODULE ShardLeaseProofs --------------------------
(***************************************************************************)
(* What holds of the workers' leases for every number of workers and       *)
(* shards, and however often they start, die, pause and fail.              *)
(***************************************************************************)
EXTENDS ShardLeases, FiniteSetTheorems, TLAPS

\* Rounding down never hands out more shards than there are.
LEMMA QuotientBounded ==
    ASSUME NEW n \in Nat, NEW d \in Nat, d > 0
    PROVE  n \div d \in 0 .. n
<1> DEFINE q == n \div d
<1>1. q \in Nat
  BY SMTT(30)
<1>2. d * q <= n
  BY SMTT(30)
<1> HIDE DEF q
<1>3. q <= d * q
  BY <1>1, SMTT(30)
<1>4. d * q \in Nat
  BY <1>1, SMTT(30)
<1>5. q \in 0 .. n
  BY <1>1, <1>2, <1>3, <1>4
<1> QED
  BY <1>5 DEF q

\* The fair share is between one shard and all of them.
LEMMA ShareIsAShare ==
    ASSUME NEW n \in Nat
    PROVE  FairShare(n) \in 1 .. SHARDS
<1>1. SHARDS \in Nat /\ SHARDS > 0
  BY LeaseConstants
<1>2. AtLeastOne(n) \in Nat /\ AtLeastOne(n) > 0
  BY DEF AtLeastOne
<1>3. SHARDS \div AtLeastOne(n) \in 0 .. SHARDS
  BY <1>1, <1>2, QuotientBounded
<1> QED
  BY <1>1, <1>3 DEF FairShare, AtLeastOne

\* The process that calls balance only ever changes these.
BalanceType ==
    /\ holder \in [Shard -> Worker \cup {Free}]
    /\ mine \in [Worker -> SUBSET Shard]

LEMMA TypeStep == ASSUME TypeOK, [Next]_vars PROVE TypeOK'
<1> USE LeaseConstants DEF TypeOK, Resting
<1>1. ASSUME NEW w \in Worker, Count(w)
      PROVE  TypeOK'
  <2>1. Cardinality(alive) \in Nat
    BY FS_Subset, FS_CardinalityType
  <2>2. FairShare(Cardinality(alive)) \in 1 .. SHARDS
    BY <2>1, ShareIsAShare
  <2> QED
    BY <1>1, <2>2 DEF Count, Shard
<1>2. ASSUME NEW w \in Worker, Renew(w) \/ Take(w) \/ Pass(w)
      PROVE  TypeOK'
  <2>1. at[w] \in Shard /\ at[w] + 1 \in 0 .. SHARDS
    BY <1>2 DEF Renew, Take, Pass, Shard
  <2> QED
    BY <1>2, <2>1 DEF Renew, Take, Pass
<1>3. ASSUME NEW w \in Worker, GiveBack(w)
      PROVE  TypeOK'
  BY <1>3 DEF GiveBack
<1>4. ASSUME NEW w \in Worker, Beat(w) \/ BalanceFails(w)
      PROVE  TypeOK'
  BY <1>4 DEF Beat, BalanceFails, Rest
<1>5. ASSUME NEW w \in Worker, Kill(w) \/ Stop(w)
      PROVE  TypeOK'
  BY <1>5 DEF Kill, Stop, Leave, Rest
<1>6. ASSUME NEW w \in Worker, Start(w) \/ AliveExpires(w)
      PROVE  TypeOK'
  BY <1>6 DEF Start, AliveExpires
<1>7. ASSUME NEW s \in Shard, LeaseExpires(s) \/ Lapse(s)
      PROVE  TypeOK'
  BY <1>7 DEF LeaseExpires, Lapse
<1>8. CASE UNCHANGED vars
  BY <1>8 DEF vars
<1> QED
  BY <1>1, <1>2, <1>3, <1>4, <1>5, <1>6, <1>7, <1>8 DEF Next, Balance

\* The variables of the lease protocol keep their types, whatever the numbers
\* of workers and shards (balance, lines 83-126).
THEOREM LeaseTypes == Spec => []TypeOK
<1>1. Init => TypeOK
  BY LeaseConstants DEF Init, TypeOK, Resting
<1>2. TypeOK /\ [Next]_vars => TypeOK'
  BY TypeStep
<1> QED
  BY <1>1, <1>2, PTL DEF Spec

\* A worker that may write a shard holds its lease, unless a live worker was
\* paused past its TTL: one step of the invariant.
LEMMA OwnersStep ==
    ASSUME TypeOK, OwnersHoldTheirLeases, [Next]_vars
    PROVE  OwnersHoldTheirLeases'
<1> USE LeaseConstants
<1>0. BalanceType /\ lapses \in Nat
  BY DEF TypeOK, BalanceType
<1>1. ASSUME NEW w \in Worker, Count(w) \/ Pass(w) \/ Start(w) \/ AliveExpires(w)
      PROVE  UNCHANGED <<holder, mine, lapses>>
  BY <1>1 DEF Count, Pass, Start, AliveExpires
<1>2. ASSUME NEW w \in Worker, Beat(w) \/ BalanceFails(w)
      PROVE  UNCHANGED <<holder, mine, lapses>>
  BY <1>2 DEF Beat, BalanceFails, Rest
<1>3. ASSUME NEW w \in Worker, Renew(w) \/ Take(w)
      PROVE  OwnersHoldTheirLeases'
  BY <1>0, <1>3 DEF Renew, Take, OwnersHoldTheirLeases, BalanceType
<1>4. ASSUME NEW w \in Worker, GiveBack(w)
      PROVE  OwnersHoldTheirLeases'
  BY <1>0, <1>4 DEF GiveBack, OwnersHoldTheirLeases, BalanceType
<1>5. ASSUME NEW w \in Worker, Kill(w) \/ Stop(w)
      PROVE  OwnersHoldTheirLeases'
  BY <1>0, <1>5 DEF Kill, Stop, Leave, Rest, OwnersHoldTheirLeases, BalanceType
<1>6. ASSUME NEW s \in Shard, LeaseExpires(s)
      PROVE  OwnersHoldTheirLeases'
  BY <1>0, <1>6 DEF LeaseExpires, OwnersHoldTheirLeases, BalanceType
<1>7. ASSUME NEW s \in Shard, Lapse(s)
      PROVE  OwnersHoldTheirLeases'
  BY <1>0, <1>7 DEF Lapse, OwnersHoldTheirLeases
<1>8. CASE UNCHANGED <<holder, mine, lapses>>
  BY <1>8 DEF OwnersHoldTheirLeases
<1>9. UNCHANGED vars => UNCHANGED <<holder, mine, lapses>>
  BY DEF vars
<1> QED
  BY <1>1, <1>2, <1>3, <1>4, <1>5, <1>6, <1>7, <1>8, <1>9 DEF Next, Balance

\* "At any moment every match has exactly one writer" (ingest_worker.py, 4-5),
\* for every number of workers and shards: a worker reads only shards whose
\* lease names it, as long as no live worker was paused past its lease.
THEOREM OneOwner == Spec => []OwnersHoldTheirLeases
<1>1. Init => OwnersHoldTheirLeases
  BY DEF Init, OwnersHoldTheirLeases
<1>2. TypeOK /\ OwnersHoldTheirLeases /\ [Next]_vars => OwnersHoldTheirLeases'
  BY OwnersStep
<1> QED
  BY <1>1, <1>2, LeaseTypes, PTL DEF Spec

\* No step moves a lease from one worker to another: renewal never steals back
\* a shard another worker took (balance, lines 98-111).
THEOREM NothingStolen == Spec => LeaseNotStolen
<1> DEFINE Kept == \A s \in Shard : holder'[s] # holder[s] => Free \in {holder[s], holder'[s]}
<1>1. TypeOK /\ [Next]_vars => [Kept]_vars
  <2> SUFFICES ASSUME TypeOK, Next
               PROVE  Kept
    OBVIOUS
  <2>0. BalanceType
    BY DEF TypeOK, BalanceType
  <2>1. ASSUME NEW w \in Worker, Balance(w) \/ BalanceFails(w)
        PROVE  Kept
    BY <2>0, <2>1 DEF BalanceType, Balance, BalanceFails, Count, Renew, Take, Pass, GiveBack, Beat
  <2>2. ASSUME NEW w \in Worker, Start(w) \/ Kill(w) \/ Stop(w) \/ AliveExpires(w)
        PROVE  Kept
    BY <2>0, <2>2 DEF BalanceType, Start, Kill, Stop, AliveExpires
  <2>3. ASSUME NEW s \in Shard, LeaseExpires(s) \/ Lapse(s)
        PROVE  Kept
    BY <2>0, <2>3 DEF BalanceType, LeaseExpires, Lapse
  <2> QED
    BY <2>1, <2>2, <2>3 DEF Next
<1> QED
  BY <1>1, LeaseTypes, PTL DEF Spec, LeaseNotStolen

=============================================================================
