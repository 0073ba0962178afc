----------------------------- MODULE ShardLeases -----------------------------
(***************************************************************************)
(* How the ingest workers share the shards among themselves: every worker  *)
(* runs balance every few seconds, each from its own count of the live     *)
(* workers, while workers come, go and pause.  Ingest models one shard of  *)
(* this, whose lease is taken, lost and given back at any time; here are   *)
(* all of them and the arithmetic that decides when.                       *)
(*                                                                         *)
(* Sources: backend/onside/workers/ingest_worker.py, lines 67-165, and     *)
(* infra/stacks/compute_stack.py, the autoscaling of the worker service.   *)
(***************************************************************************)
EXTENDS Integers, FiniteSets, FiniteSetsExt

CONSTANTS
    Worker,     \* consumer names
    Free,       \* a lease key that does not exist
    SHARDS,     \* bus.SHARDS
    MaxMove,    \* bound: workers started, stopped or killed
    MaxLapse,   \* bound: leases a live worker failed to renew in time
    MaxFault,   \* bound: calls of balance cut short by a Redis error
    MaxMishap   \* bound: lapses and failed calls together

Shard == 0 .. SHARDS - 1

ASSUME LeaseConstants ==
    /\ Free \notin Worker
    /\ IsFiniteSet(Worker)
    /\ SHARDS \in Nat \ {0}
    /\ MaxMove \in Nat /\ MaxLapse \in Nat /\ MaxFault \in Nat /\ MaxMishap \in Nat

VARIABLES
    up,         \* the worker processes that run
    alive,      \* the worker:alive:<consumer> keys
    holder,     \* lease:ingest:<shard>, per shard
    mine,       \* self.shards, per worker
    target,     \* the fair share its running balance computed
    at,         \* where its balance is: the next shard, SHARDS after, Resting
    moves, lapses, faults   \* how much of each bound is used

vars == <<up, alive, holder, mine, target, at, moves, lapses, faults>>

Resting == -1

\* balance has returned, and its locals are gone.
Rest(w) ==
    /\ at' = [at EXCEPT ![w] = Resting]
    /\ target' = [target EXCEPT ![w] = 1]

Init ==
    /\ up = {}
    /\ alive = {}
    /\ holder = [s \in Shard |-> Free]
    /\ mine = [w \in Worker |-> {}]
    /\ target = [w \in Worker |-> 1]
    /\ at = [w \in Worker |-> Resting]
    /\ moves = 0 /\ lapses = 0 /\ faults = 0

AtLeastOne(n) == IF n < 1 THEN 1 ELSE n

\* Mutant: the caller is counted twice and the share may be nothing.
ShareAmongOthers(n) == SHARDS \div (n + 1)

\* SHARDS // live workers, rounded down, and never nothing
FairShare(n) == AtLeastOne(SHARDS \div AtLeastOne(n))

-----------------------------------------------------------------------------
(* balance, one round trip to Redis at a time. *)

\* Mutant: only the caller's own alive key is seen.
CountAlone(w) ==
    /\ w \in up /\ at[w] = Resting
    /\ target' = [target EXCEPT ![w] = FairShare(1)]
    /\ at' = [at EXCEPT ![w] = 0]
    /\ UNCHANGED <<up, alive, holder, mine, moves, lapses, faults>>

\* _live_workers counts the alive keys; the caller's own may not be there yet.
Count(w) ==
    /\ w \in up /\ at[w] = Resting
    /\ target' = [target EXCEPT ![w] = FairShare(Cardinality(alive))]
    /\ at' = [at EXCEPT ![w] = 0]
    /\ UNCHANGED <<up, alive, holder, mine, moves, lapses, faults>>

\* Mutant: the renewal sets the key without looking whose it is.
RenewBlindly(w) ==
    /\ at[w] \in mine[w]
    /\ holder' = [holder EXCEPT ![at[w]] = w]
    /\ at' = [at EXCEPT ![w] = @ + 1]
    /\ UNCHANGED <<up, alive, mine, target, moves, lapses, faults>>

\* The renewal script: a lease that names somebody else, or nobody, is lost.
Renew(w) ==
    /\ at[w] \in mine[w]
    /\ mine' = [mine EXCEPT ![w] = IF holder[at[w]] = w THEN @ ELSE @ \ {at[w]}]
    /\ at' = [at EXCEPT ![w] = @ + 1]
    /\ UNCHANGED <<up, alive, holder, target, moves, lapses, faults>>

\* Mutant: a failed SET NX counts as a lease.
TakeRegardless(w) ==
    /\ at[w] \in Shard \ mine[w]
    /\ Cardinality(mine[w]) < target[w]
    /\ mine' = [mine EXCEPT ![w] = @ \cup {at[w]}]
    /\ holder' = [holder EXCEPT ![at[w]] = IF @ = Free THEN w ELSE @]
    /\ at' = [at EXCEPT ![w] = @ + 1]
    /\ UNCHANGED <<up, alive, target, moves, lapses, faults>>

\* SET NX PX: below its share a worker takes whatever is free.
Take(w) ==
    /\ at[w] \in Shard \ mine[w]
    /\ Cardinality(mine[w]) < target[w]
    /\ holder[at[w]] = Free
    /\ holder' = [holder EXCEPT ![at[w]] = w]
    /\ mine' = [mine EXCEPT ![w] = @ \cup {at[w]}]
    /\ at' = [at EXCEPT ![w] = @ + 1]
    /\ UNCHANGED <<up, alive, target, moves, lapses, faults>>

Pass(w) ==
    /\ at[w] \in Shard \ mine[w]
    /\ Cardinality(mine[w]) >= target[w] \/ holder[at[w]] # Free
    /\ at' = [at EXCEPT ![w] = @ + 1]
    /\ UNCHANGED <<up, alive, holder, mine, target, moves, lapses, faults>>

\* Above its share a worker deletes its highest lease, if it is still its own.
GiveBack(w) ==
    /\ at[w] = SHARDS
    /\ Cardinality(mine[w]) > target[w]
    /\ LET s == Max(mine[w]) IN
        /\ holder' = [holder EXCEPT ![s] = IF @ = w THEN Free ELSE @]
        /\ mine' = [mine EXCEPT ![w] = @ \ {s}]
    /\ UNCHANGED <<up, alive, target, at, moves, lapses, faults>>

\* The alive key is set last, and the next balance is RENEW_EVERY_S away.
Beat(w) ==
    /\ at[w] = SHARDS
    /\ Cardinality(mine[w]) <= target[w]
    /\ alive' = alive \cup {w}
    /\ Rest(w)
    /\ UNCHANGED <<up, holder, mine, moves, lapses, faults>>

Balance(w) == Count(w) \/ Renew(w) \/ Take(w) \/ Pass(w) \/ GiveBack(w) \/ Beat(w)

\* The heartbeat catches the error; last_renew has moved, so balance starts
\* over in RENEW_EVERY_S.
BalanceFails(w) ==
    /\ faults < MaxFault /\ lapses + faults < MaxMishap
    /\ at[w] # Resting
    /\ Rest(w)
    /\ faults' = faults + 1
    /\ UNCHANGED <<up, alive, holder, mine, moves, lapses>>

-----------------------------------------------------------------------------
(* Workers come and go: the service scales on the backlog, one at a time    *)
(* down and several up, and Spot tasks are taken away.                      *)

Start(w) ==
    /\ moves < MaxMove
    /\ w \notin up
    /\ up' = up \cup {w}
    /\ moves' = moves + 1
    /\ UNCHANGED <<alive, holder, mine, target, at, lapses, faults>>

Leave(w) ==
    /\ moves < MaxMove
    /\ w \in up
    /\ up' = up \ {w}
    /\ mine' = [mine EXCEPT ![w] = {}]
    /\ Rest(w)
    /\ moves' = moves + 1
    /\ UNCHANGED <<lapses, faults>>

\* The process is gone; its keys stay until their TTL passes.
Kill(w) == Leave(w) /\ UNCHANGED <<alive, holder>>

\* SIGTERM: release deletes the leases that are still its own, then the alive
\* key; the lock keeps the heartbeat out of it.
Stop(w) ==
    /\ at[w] = Resting
    /\ Leave(w)
    /\ holder' = [s \in Shard |-> IF s \in mine[w] /\ holder[s] = w THEN Free ELSE holder[s]]
    /\ alive' = alive \ {w}

\* Nobody renews the lease of a worker that is gone, or that was started again
\* under the same name and does not know of it.
LeaseExpires(s) ==
    /\ holder[s] # Free
    /\ s \notin mine[holder[s]]
    /\ holder' = [holder EXCEPT ![s] = Free]
    /\ UNCHANGED <<up, alive, mine, target, at, moves, lapses, faults>>

AliveExpires(w) ==
    /\ w \in alive \ up
    /\ alive' = alive \ {w}
    /\ UNCHANGED <<up, holder, mine, target, at, moves, lapses, faults>>

\* A live worker was paused, or could not reach Redis, for LEASE_TTL_MS.
Lapse(s) ==
    /\ lapses < MaxLapse /\ lapses + faults < MaxMishap
    /\ holder[s] # Free
    /\ s \in mine[holder[s]]
    /\ holder' = [holder EXCEPT ![s] = Free]
    /\ lapses' = lapses + 1
    /\ UNCHANGED <<up, alive, mine, target, at, moves, faults>>

-----------------------------------------------------------------------------
Next ==
    \/ \E w \in Worker : Balance(w) \/ BalanceFails(w) \/ Start(w) \/ Kill(w)
                         \/ Stop(w) \/ AliveExpires(w)
    \/ \E s \in Shard : LeaseExpires(s) \/ Lapse(s)

\* The heartbeat thread of a running worker calls balance for ever, and a TTL
\* passes.  Nobody has to start, leave, pause or fail.
Fairness ==
    /\ \A w \in Worker : WF_vars(Balance(w)) /\ WF_vars(AliveExpires(w))
    /\ \A s \in Shard : WF_vars(LeaseExpires(s))

Spec == Init /\ [][Next]_vars
FairSpec == Spec /\ Fairness

-----------------------------------------------------------------------------
(* Properties. *)

TypeOK ==
    /\ up \in SUBSET Worker
    /\ alive \in SUBSET Worker
    /\ holder \in [Shard -> Worker \cup {Free}]
    /\ mine \in [Worker -> SUBSET Shard]
    /\ target \in [Worker -> 1 .. SHARDS]
    /\ at \in [Worker -> Resting .. SHARDS]
    /\ moves \in 0 .. MaxMove
    /\ lapses \in 0 .. MaxLapse
    /\ faults \in 0 .. MaxFault

\* "At any moment every match has exactly one writer" (ingest_worker.py, 4-5):
\* while no live worker was paused past its lease, a worker only reads shards
\* whose lease names it, through every start, death, give-back and failed
\* balance.
OwnersHoldTheirLeases ==
    lapses = 0 => \A w \in Worker : \A s \in mine[w] : holder[s] = w

\* "A paused process must not silently steal back a shard another worker took"
\* (balance, 99-100): a lease goes from one worker to another only by way of
\* nobody holding it.
LeaseNotStolen ==
    [][\A s \in Shard : holder'[s] # holder[s] => Free \in {holder[s], holder'[s]}]_vars

Served(s) == \E w \in up : s \in mine[w] /\ holder[s] = w

\* The shards spread as workers start and are taken over when they die
\* (balance, 83-87): once the comings and goings are over, every shard has an
\* owner if the number of workers divides the number of shards.  If it does
\* not, the fair share is rounded down and what remains has no owner.
EveryShardServed ==
    <>[](SHARDS % AtLeastOne(Cardinality(up)) = 0 /\ up # {} => \A s \in Shard : Served(s))

\* "A newly started worker gets shards instead of idling" (balance, 115-116):
\* in the end no worker holds several shards and more than its part of them.
SharesAreFair ==
    <>[](\A w \in up : \/ Cardinality(mine[w]) <= 1
                       \/ Cardinality(mine[w]) * Cardinality(up) <= SHARDS)

=============================================================================
