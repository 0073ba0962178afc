------------------------------- MODULE Ingest -------------------------------
(***************************************************************************)
(* The live ingest pipeline of one match: the shard stream and its         *)
(* consumer group, the workers that hold the shard's lease, the reclaimer, *)
(* and the three things they write in DynamoDB - the append-only event     *)
(* log, the STATE item of the match document and the document's other      *)
(* items.                                                                  *)
(*                                                                         *)
(* Sources: backend/onside/workers/ingest_worker.py, projector.py and      *)
(* reclaimer.py, streams/bus.py, store/repo.py.                            *)
(*                                                                         *)
(* A record (an event or a correction) is an element of a set: what the    *)
(* document says is a function of the set of records folded into it (see   *)
(* MatchFold), so a document is represented by that set, and its version,  *)
(* len(events) + len(corrections), by the set's cardinality.               *)
(***************************************************************************)
EXTENDS Integers, Sequences, FiniteSets

CONSTANTS
    Event,          \* canonical events of the match, by event_id
    Correction,     \* corrections of the match, by correction_id
    Worker,         \* ingest workers, by consumer name
    Reclaimer,      \* {} or the one consumer named "reclaimer"
    Reset,          \* the control message {"action": "reset"}
    NoOne,          \* the lease key does not exist
    NoLog,          \* self.logs has no entry for the match
    NoDoc,          \* the store has no STATE item / last_doc is None
    LiveMeta,       \* live:meta:<match> is registered
    SlowBatch,      \* a batch may take longer than MIN_IDLE_MS
    BatchSize,      \* BATCH: messages per XREADGROUP
    MaxStream,      \* bound: messages ever produced
    MaxCrash,       \* bound: process deaths and stops
    MaxLapse,       \* bound: leases lost or given back by a live worker
    MaxFault,       \* bound: DynamoDB and Redis errors
    MaxMishap       \* bound: deaths, lost leases and errors together

Record == Event \cup Correction
Consumer == Worker \cup Reclaimer
Message == Record \cup {Reset}

ASSUME ConsumersDistinct ==
    /\ Worker \cap Reclaimer = {}
    /\ NoOne \notin Consumer

ASSUME ValuesDistinct ==
    /\ Event \cap Correction = {}
    /\ Reset \notin Record
    /\ NoLog \notin SUBSET Record
    /\ NoDoc \notin SUBSET Record

ASSUME FiniteRecords == IsFiniteSet(Event) /\ IsFiniteSet(Correction)

ASSUME ParametersOK ==
    /\ LiveMeta \in BOOLEAN
    /\ SlowBatch \in BOOLEAN
    /\ BatchSize \in Nat \ {0}
    /\ MaxStream \in Nat
    /\ MaxCrash \in Nat
    /\ MaxLapse \in Nat
    /\ MaxFault \in Nat
    /\ MaxMishap \in Nat

VARIABLES
    stream,     \* the shard stream: every message ever added, in order
    cursor,     \* the group's last delivered message
    pending,    \* the group's pending entries: delivered and not acknowledged
    lease,      \* lease:ingest:<shard>: the consumer it names, or NoOne
    owns,       \* per worker: the shard is in self.shards
    lost,       \* per worker: the shard is in self.lost
    pc,         \* per consumer: where its processing loop is
    batch,      \* per consumer: messages of the batch still to be looked at
    took,       \* per consumer: messages of the batch applied so far (touched)
    log,        \* per consumer: MatchLog.events and corrections, or NoLog
    base,       \* per consumer: MatchLog.last_doc, or NoDoc
    fresh,      \* per consumer: new_events + new_corrections not yet written
    expected,   \* per consumer: the version its STATE write is conditional on
    slog,       \* the store's log items EVT# and CORR#
    state,      \* the store's STATE item: the records folded into it
    parts,      \* the store's REPORT, WPSERIES, SHOTS and PASSNET items
    shown,      \* history: records some STATE item has held
    announced,  \* history: records some published diff has told clients of
    crashes, lapses, faults   \* how much of each bound is used

leaseVars == <<lease, owns, lost>>
groupVars == <<stream, cursor, pending>>
memory    == <<pc, batch, took, log, base, fresh, expected>>
store     == <<slog, state, parts, shown, announced>>
budget    == <<crashes, lapses, faults>>
vars == <<groupVars, leaseVars, memory, store, budget>>

PC == {"down", "idle", "polling", "applying", "loading", "appending",
       "projecting", "putting", "parts", "publishing", "acking"}

(***************************************************************************)
(* version of a document: len(events) + len(corrections), and the version  *)
(* state_version returns when there is no STATE item.                      *)
(***************************************************************************)
NoVersion == -1
Version(doc) == IF doc = NoDoc THEN NoVersion ELSE Cardinality(doc)

\* What the driver's _prepare leaves behind: an empty log, no document, and
\* the reset marker as the first message of the new history.
Init ==
    /\ stream = <<Reset>>
    /\ cursor = 0
    /\ pending = {}
    /\ lease = NoOne
    /\ owns = [w \in Worker |-> FALSE]
    /\ lost = [w \in Worker |-> FALSE]
    /\ pc = [c \in Consumer |-> "idle"]
    /\ batch = [c \in Consumer |-> <<>>]
    /\ took = [c \in Consumer |-> {}]
    /\ log = [c \in Consumer |-> NoLog]
    /\ base = [c \in Consumer |-> NoDoc]
    /\ fresh = [c \in Consumer |-> {}]
    /\ expected = [c \in Consumer |-> NoVersion]
    /\ slog = {}
    /\ state = NoDoc
    /\ parts = NoDoc
    /\ shown = {}
    /\ announced = {}
    /\ crashes = 0
    /\ lapses = 0
    /\ faults = 0

Bearable == crashes + lapses + faults < MaxMishap

-----------------------------------------------------------------------------
(* The feed. *)

\* A message is added to the match's stream; feeds redeliver, so the same
\* record may be added again.
Produce(m) ==
    /\ Len(stream) < MaxStream
    /\ stream' = Append(stream, m)
    /\ UNCHANGED <<cursor, pending, leaseVars, memory, store, budget>>

-----------------------------------------------------------------------------
(* The lease.  balance runs in the heartbeat thread, so all of it           *)
(* interleaves with the processing loop of the same worker.                 *)

\* SET key consumer NX PX: a worker below its fair share takes a free shard.
TakeLease(w) ==
    /\ pc[w] # "down"
    /\ ~owns[w]
    /\ lease = NoOne
    /\ lease' = w
    /\ owns' = [owns EXCEPT ![w] = TRUE]
    /\ UNCHANGED <<lost, groupVars, memory, store, budget>>

\* The TTL passes: nobody renews the lease of a worker that died, or that was
\* restarted and does not know it holds one.
ExpireDead ==
    /\ lease # NoOne
    /\ ~owns[lease]
    /\ lease' = NoOne
    /\ UNCHANGED <<owns, lost, groupVars, memory, store, budget>>

\* The TTL passes on a live worker: its process was paused, or its heartbeat
\* could not reach Redis for LEASE_TTL_MS.
Lapse ==
    /\ lapses < MaxLapse /\ Bearable
    /\ lease # NoOne
    /\ owns[lease]
    /\ lease' = NoOne
    /\ lapses' = lapses + 1
    /\ UNCHANGED <<owns, lost, groupVars, memory, store, crashes, faults>>

\* _drop_shard
DropShard(w) ==
    /\ owns' = [owns EXCEPT ![w] = FALSE]
    /\ lost' = [lost EXCEPT ![w] = TRUE]

\* The renewal script finds that the key no longer names this worker.
NoticeLost(w) ==
    /\ owns[w]
    /\ lease # w
    /\ DropShard(w)
    /\ UNCHANGED <<lease, groupVars, memory, store, budget>>

\* More live workers than before: the shard is above the fair share.  The
\* heartbeat thread deletes the key whatever the processing loop is doing.
GiveBack(w) ==
    /\ lapses < MaxLapse /\ Bearable
    /\ owns[w]
    /\ lease = w
    /\ \E other \in Worker \ {w} : pc[other] # "down"
    /\ lease' = NoOne
    /\ DropShard(w)
    /\ lapses' = lapses + 1
    /\ UNCHANGED <<groupVars, memory, store, crashes, faults>>

-----------------------------------------------------------------------------
(* The processing loop: run, and handle step by step. *)

\* The end of handle: the batch is over and nothing of it is acknowledged.
\* The reclaimer's worker dies with its sweep, so its log goes with it.
Abandon(c, keepLog) ==
    /\ pc' = [pc EXCEPT ![c] = "idle"]
    /\ batch' = [batch EXCEPT ![c] = <<>>]
    /\ took' = [took EXCEPT ![c] = {}]
    /\ fresh' = [fresh EXCEPT ![c] = {}]
    /\ IF keepLog /\ c \in Worker
       THEN UNCHANGED <<log, base>>
       ELSE /\ log' = [log EXCEPT ![c] = NoLog]
            /\ base' = [base EXCEPT ![c] = NoDoc]
    /\ expected' = [expected EXCEPT ![c] = NoVersion]

\* _forget_lost, then the snapshot of self.shards that XREADGROUP is sent for.
Poll(w) ==
    /\ pc[w] = "idle"
    /\ owns[w]
    /\ pc' = [pc EXCEPT ![w] = "polling"]
    /\ lost' = [lost EXCEPT ![w] = FALSE]
    /\ IF lost[w]
       THEN /\ log' = [log EXCEPT ![w] = NoLog]
            /\ base' = [base EXCEPT ![w] = NoDoc]
       ELSE UNCHANGED <<log, base>>
    /\ UNCHANGED <<lease, owns, batch, took, fresh, expected, groupVars, store,
                   budget>>

\* Mutant: the group hands out a message that is not in the stream yet.
ReadPastEnd(w) ==
    /\ pc[w] = "polling"
    /\ cursor' = cursor + 1
    /\ pending' = pending \cup {cursor + 1}
    /\ batch' = [batch EXCEPT ![w] = <<cursor + 1>>]
    /\ pc' = [pc EXCEPT ![w] = "applying"]
    /\ UNCHANGED <<stream, took, log, base, fresh, expected, leaseVars, store,
                   budget>>

\* XREADGROUP ">" delivers the next messages to this worker - a block of up to
\* BLOCK_MS after the snapshot, whoever holds the lease by now.
Read(w) ==
    /\ pc[w] = "polling"
    /\ \E n \in 1 .. BatchSize :
        /\ cursor + n <= Len(stream)
        /\ cursor' = cursor + n
        /\ pending' = pending \cup (cursor + 1 .. cursor + n)
        /\ batch' = [batch EXCEPT ![w] = [i \in 1 .. n |-> cursor + i]]
    /\ pc' = [pc EXCEPT ![w] = "applying"]
    /\ UNCHANGED <<stream, took, log, base, fresh, expected, leaseVars, store,
                   budget>>

\* XREADGROUP blocked for BLOCK_MS and returned nothing.
ReadNothing(w) ==
    /\ pc[w] = "polling"
    /\ cursor = Len(stream)
    /\ pc' = [pc EXCEPT ![w] = "idle"]
    /\ UNCHANGED <<batch, took, log, base, fresh, expected, groupVars,
                   leaseVars, store, budget>>

\* reclaim_once: XAUTOCLAIM hands over messages idle for MIN_IDLE_MS, in
\* stream order, to a Worker whose logs are empty.  It takes no lease.  The
\* stream here keeps every message: a pending entry whose message was trimmed
\* (bus.py caps a shard near 200000) is acknowledged by the code unapplied.
Busy == UNION {took[c] \cup {batch[c][i] : i \in DOMAIN batch[c]} :
                  c \in {d \in Consumer : pc[d] # "down"}}

Claim(c) ==
    /\ pc[c] = "idle"
    /\ LET idle == IF SlowBatch THEN pending ELSE pending \ Busy
       IN  \E n \in 1 .. Cardinality(idle) : \E ids \in [1 .. n -> idle] :
               /\ \A i, j \in 1 .. n : i < j => ids[i] < ids[j]
               /\ batch' = [batch EXCEPT ![c] = ids]
    /\ pc' = [pc EXCEPT ![c] = "applying"]
    /\ UNCHANGED <<took, log, base, fresh, expected, groupVars, leaseVars,
                   store, budget>>

\* One message of the batch.  A reset marker pops the match's log.
ApplyReset(c) ==
    /\ pc[c] = "applying"
    /\ batch[c] # <<>>
    /\ stream[Head(batch[c])] = Reset
    /\ log' = [log EXCEPT ![c] = NoLog]
    /\ base' = [base EXCEPT ![c] = NoDoc]
    /\ took' = [took EXCEPT ![c] = @ \cup {Head(batch[c])}]
    /\ batch' = [batch EXCEPT ![c] = Tail(@)]
    /\ UNCHANGED <<pc, fresh, expected, groupVars, leaseVars, store, budget>>

\* MatchLog.load, first half: read_log.
LoadLog(c) ==
    /\ pc[c] = "applying"
    /\ batch[c] # <<>>
    /\ stream[Head(batch[c])] # Reset
    /\ log[c] = NoLog
    /\ log' = [log EXCEPT ![c] = slog]
    /\ pc' = [pc EXCEPT ![c] = "loading"]
    /\ UNCHANGED <<batch, took, base, fresh, expected, groupVars, leaseVars,
                   store, budget>>

\* MatchLog.load, second half: get_document, after the log was read.
LoadDoc(c) ==
    /\ pc[c] = "loading"
    /\ base' = [base EXCEPT ![c] = state]
    /\ pc' = [pc EXCEPT ![c] = "applying"]
    /\ UNCHANGED <<batch, took, log, fresh, expected, groupVars, leaseVars,
                   store, budget>>

\* An event or correction the log already holds is a redelivery; a new one
\* goes to the log in memory and to the batch to be written.
ApplyRecord(c) ==
    /\ pc[c] = "applying"
    /\ batch[c] # <<>>
    /\ log[c] # NoLog
    /\ LET r == stream[Head(batch[c])] IN
        /\ r # Reset
        /\ log' = [log EXCEPT ![c] = @ \cup {r}]
        /\ fresh' = [fresh EXCEPT ![c] = IF r \in log[c] THEN @ ELSE @ \cup {r}]
    /\ took' = [took EXCEPT ![c] = @ \cup {Head(batch[c])}]
    /\ batch' = [batch EXCEPT ![c] = Tail(@)]
    /\ UNCHANGED <<pc, base, expected, groupVars, leaseVars, store, budget>>

\* Mutant: a failed load leaves an empty log behind instead of none.
SkipMessageEmptyLog(c) ==
    /\ faults < MaxFault /\ Bearable
    /\ pc[c] = "loading"
    /\ log' = [log EXCEPT ![c] = {}]
    /\ batch' = [batch EXCEPT ![c] = Tail(@)]
    /\ pc' = [pc EXCEPT ![c] = "applying"]
    /\ faults' = faults + 1
    /\ UNCHANGED <<took, base, fresh, expected, groupVars, leaseVars, store,
                   crashes, lapses>>

\* Loading failed: this message stays pending, the rest of the batch goes on.
SkipMessage(c) ==
    /\ faults < MaxFault /\ Bearable
    /\ \/ pc[c] = "loading"
       \/ /\ pc[c] = "applying"
          /\ batch[c] # <<>>
          /\ stream[Head(batch[c])] # Reset
          /\ log[c] = NoLog
    /\ log' = [log EXCEPT ![c] = NoLog]
    /\ batch' = [batch EXCEPT ![c] = Tail(@)]
    /\ pc' = [pc EXCEPT ![c] = "applying"]
    /\ faults' = faults + 1
    /\ UNCHANGED <<took, base, fresh, expected, groupVars, leaseVars, store,
                   crashes, lapses>>

\* Mutant: the match is projected before its batch is written.
EndOfBatchUnwritten(c) ==
    /\ pc[c] = "applying"
    /\ batch[c] = <<>>
    /\ pc' = [pc EXCEPT ![c] = "projecting"]
    /\ UNCHANGED <<batch, took, log, base, fresh, expected, groupVars,
                   leaseVars, store, budget>>

\* The end of the loop over the batch: what is new in it is written next.
EndOfBatch(c) ==
    /\ pc[c] = "applying"
    /\ batch[c] = <<>>
    /\ pc' = [pc EXCEPT ![c] = IF fresh[c] = {} THEN "projecting" ELSE "appending"]
    /\ UNCHANGED <<batch, took, log, base, fresh, expected, groupVars,
                   leaseVars, store, budget>>

\* Mutant: items a BatchWriteItem call did not process are not sent again.
AppendBatchUnprocessed(c) ==
    /\ pc[c] = "appending"
    /\ \E put \in SUBSET fresh[c] : put # {} /\ slog' = slog \cup put
    /\ fresh' = [fresh EXCEPT ![c] = {}]
    /\ pc' = [pc EXCEPT ![c] = "projecting"]
    /\ UNCHANGED <<batch, took, log, base, expected, state, parts, shown,
                   announced, groupVars, leaseVars, budget>>

\* append_batch: unconditional puts, item by item.
AppendBatch(c) ==
    /\ pc[c] = "appending"
    /\ \E put \in SUBSET fresh[c] :
        /\ put # {}
        /\ slog' = slog \cup put
        /\ fresh' = [fresh EXCEPT ![c] = @ \ put]
        /\ pc' = [pc EXCEPT ![c] = IF put = fresh[c] THEN "projecting" ELSE @]
    /\ UNCHANGED <<batch, took, log, base, expected, state, parts, shown,
                   announced, groupVars, leaseVars, budget>>

\* Mutant: after a failed write the log in memory is kept.
AppendFailsLogKept(c) ==
    /\ faults < MaxFault /\ Bearable
    /\ pc[c] = "appending"
    /\ Abandon(c, TRUE)
    /\ faults' = faults + 1
    /\ UNCHANGED <<groupVars, leaseVars, store, crashes, lapses>>

\* append_batch raised: the log in memory is dropped, nothing is acknowledged.
AppendFails(c) ==
    /\ faults < MaxFault /\ Bearable
    /\ pc[c] = "appending"
    /\ Abandon(c, FALSE)
    /\ faults' = faults + 1
    /\ UNCHANGED <<groupVars, leaseVars, store, crashes, lapses>>

\* Mutant: a batch with nothing to project is not acknowledged.
NothingToProjectUnacked(c) ==
    /\ pc[c] = "projecting"
    /\ log[c] = NoLog \/ log[c] \cap Event = {} \/ ~LiveMeta
    /\ Abandon(c, TRUE)
    /\ UNCHANGED <<groupVars, leaseVars, store, budget>>

\* A batch that leaves no events in memory, or a match without live metadata,
\* is acknowledged without a projection.
NothingToProject(c) ==
    /\ pc[c] = "projecting"
    /\ \/ log[c] = NoLog
       \/ log[c] \cap Event = {}
       \/ ~LiveMeta
    /\ pc' = [pc EXCEPT ![c] = "acking"]
    /\ UNCHANGED <<batch, took, log, base, fresh, expected, groupVars,
                   leaseVars, store, budget>>

\* project_log builds the document and settles the version the write expects:
\* last_doc's, or what state_version reads when there is no last_doc.
Project(c) ==
    /\ pc[c] = "projecting"
    /\ LiveMeta
    /\ log[c] # NoLog
    /\ log[c] \cap Event # {}
    /\ expected' = [expected EXCEPT ![c] =
                       Version(IF base[c] = NoDoc THEN state ELSE base[c])]
    /\ pc' = [pc EXCEPT ![c] = "putting"]
    /\ UNCHANGED <<batch, took, log, base, fresh, groupVars, leaseVars, store,
                   budget>>

\* Mutant: only STATE is written, the other items are left as they were.
PutStateOnly(c) ==
    /\ pc[c] = "putting"
    /\ Version(state) = expected[c]
    /\ state' = log[c]
    /\ shown' = shown \cup log[c]
    /\ pc' = [pc EXCEPT ![c] = "publishing"]
    /\ UNCHANGED <<batch, took, log, base, fresh, expected, slog, parts,
                   announced, groupVars, leaseVars, budget>>

\* write_projection, first write: STATE, conditional on the version.
PutState(c) ==
    /\ pc[c] = "putting"
    /\ Version(state) = expected[c]
    /\ state' = log[c]
    /\ shown' = shown \cup log[c]
    /\ pc' = [pc EXCEPT ![c] = "parts"]
    /\ UNCHANGED <<batch, took, log, base, fresh, expected, slog, parts,
                   announced, groupVars, leaseVars, budget>>

\* VersionConflict: the log in memory is dropped, the batch stays pending.
Conflict(c) ==
    /\ pc[c] = "putting"
    /\ Version(state) # expected[c]
    /\ Abandon(c, FALSE)
    /\ UNCHANGED <<groupVars, leaseVars, store, budget>>

\* write_projection, second write: the document's other items, unconditional.
PutParts(c) ==
    /\ pc[c] = "parts"
    /\ parts' = log[c]
    /\ pc' = [pc EXCEPT ![c] = "publishing"]
    /\ UNCHANGED <<batch, took, log, base, fresh, expected, slog, state, shown,
                   announced, groupVars, leaseVars, budget>>

\* diff(before, after): what the document says that last_doc did not.
Diff(c) == IF base[c] = NoDoc THEN log[c] ELSE log[c] \ base[c]

Publish(c) ==
    /\ pc[c] = "publishing"
    /\ announced' = announced \cup Diff(c)
    /\ base' = [base EXCEPT ![c] = log[c]]
    /\ pc' = [pc EXCEPT ![c] = "acking"]
    /\ UNCHANGED <<batch, took, log, fresh, expected, slog, state, parts, shown,
                   groupVars, leaseVars, budget>>

\* Mutant: a batch whose projection failed is acknowledged.
ProjectFailsAcked(c) ==
    /\ faults < MaxFault /\ Bearable
    /\ pc[c] \in {"projecting", "putting", "parts", "publishing"}
    /\ pending' = pending \ took[c]
    /\ Abandon(c, TRUE)
    /\ faults' = faults + 1
    /\ UNCHANGED <<stream, cursor, store, leaseVars, crashes, lapses>>

\* Any other error in project_log: a failed read or write of DynamoDB, or a
\* Redis error part-way through the diff.  The log in memory stays, last_doc
\* is not advanced, the batch stays pending.
ProjectFails(c) ==
    /\ faults < MaxFault /\ Bearable
    /\ pc[c] \in {"projecting", "putting", "parts", "publishing"}
    /\ log[c] # NoLog
    /\ \E told \in SUBSET Diff(c) :
        /\ told # {} => pc[c] = "publishing"
        /\ announced' = announced \cup told
    /\ Abandon(c, TRUE)
    /\ faults' = faults + 1
    /\ UNCHANGED <<slog, state, parts, shown, groupVars, leaseVars, crashes,
                   lapses>>

\* XACK of what handle returned.
Ack(c) ==
    /\ pc[c] = "acking"
    /\ pending' = pending \ took[c]
    /\ Abandon(c, TRUE)
    /\ UNCHANGED <<stream, cursor, leaseVars, store, budget>>

-----------------------------------------------------------------------------
(* Processes come and go. *)

Forget(c) ==
    /\ batch' = [batch EXCEPT ![c] = <<>>]
    /\ took' = [took EXCEPT ![c] = {}]
    /\ log' = [log EXCEPT ![c] = NoLog]
    /\ base' = [base EXCEPT ![c] = NoDoc]
    /\ fresh' = [fresh EXCEPT ![c] = {}]
    /\ expected' = [expected EXCEPT ![c] = NoVersion]

\* The process dies at any point: everything in memory is gone, the lease key
\* and the pending entries are left as they are.
Crash(c) ==
    /\ crashes < MaxCrash /\ Bearable
    /\ pc[c] # "down"
    /\ pc' = [pc EXCEPT ![c] = "down"]
    /\ Forget(c)
    /\ owns' = [w \in Worker |-> owns[w] /\ w # c]
    /\ lost' = [w \in Worker |-> lost[w] /\ w # c]
    /\ crashes' = crashes + 1
    /\ UNCHANGED <<lease, groupVars, store, lapses, faults>>

\* SIGTERM: the loop ends between batches and release gives the lease up.
Stop(w) ==
    /\ crashes < MaxCrash /\ Bearable
    /\ pc[w] = "idle"
    /\ pc' = [pc EXCEPT ![w] = "down"]
    /\ Forget(w)
    /\ lease' = IF owns[w] /\ lease = w THEN NoOne ELSE lease
    /\ owns' = [owns EXCEPT ![w] = FALSE]
    /\ lost' = [lost EXCEPT ![w] = FALSE]
    /\ crashes' = crashes + 1
    /\ UNCHANGED <<groupVars, store, lapses, faults>>

Restart(c) ==
    /\ pc[c] = "down"
    /\ pc' = [pc EXCEPT ![c] = "idle"]
    /\ UNCHANGED <<batch, took, log, base, fresh, expected, groupVars, leaseVars,
                   store, budget>>

-----------------------------------------------------------------------------
\* One step of handle, the same code for a worker and for the reclaimer.
Handle(c) ==
    \/ ApplyReset(c) \/ LoadLog(c) \/ LoadDoc(c) \/ ApplyRecord(c)
    \/ EndOfBatch(c) \/ AppendBatch(c) \/ NothingToProject(c) \/ Project(c)
    \/ PutState(c) \/ Conflict(c) \/ PutParts(c) \/ Publish(c) \/ Ack(c)

Fault(c) == SkipMessage(c) \/ AppendFails(c) \/ ProjectFails(c)

WorkerStep(w) == TakeLease(w) \/ NoticeLost(w) \/ Poll(w) \/ Read(w) \/ ReadNothing(w)

Next ==
    \/ \E m \in Record : Produce(m)
    \/ \E w \in Worker : WorkerStep(w) \/ GiveBack(w) \/ Stop(w)
    \/ ExpireDead
    \/ Lapse
    \/ \E c \in Reclaimer : Claim(c)
    \/ \E c \in Consumer : Handle(c) \/ Fault(c) \/ Crash(c) \/ Restart(c)

Spec == Init /\ [][Next]_vars

\* What the scheduling of the code justifies.  The heartbeat thread retries
\* the lease every few seconds, the processing loop and the reclaimer run for
\* ever, a dead process is started again by its service, a TTL passes.
Fairness ==
    /\ WF_vars(ExpireDead)
    /\ \A w \in Worker : /\ WF_vars(TakeLease(w))
                          /\ WF_vars(NoticeLost(w))
                          /\ WF_vars(Poll(w) \/ Read(w) \/ ReadNothing(w))
    /\ \A c \in Reclaimer : WF_vars(Claim(c))
    /\ \A c \in Consumer : WF_vars(Handle(c)) /\ WF_vars(Restart(c))

FairSpec == Spec /\ Fairness

\* What "at any moment every match has exactly one writer" would mean
\* (ingest_worker.py 4-5): a consumer begins a batch only when no other one has
\* a batch in hand, or remembers the match from an earlier one.
Remembers(c) == pc[c] \notin {"down", "idle", "polling"} \/ log[c] # NoLog
OneWriter ==
    \A c \in Consumer : pc[c] \in {"idle", "polling"} /\ pc'[c] = "applying" =>
        \A d \in Consumer \ {c} : ~Remembers(d)

OneWriterSpec == Init /\ [][Next /\ OneWriter]_vars

-----------------------------------------------------------------------------
(* Properties. *)

GroupType ==
    /\ stream \in Seq(Message)
    /\ cursor \in 0 .. Len(stream)
    /\ pending \in SUBSET (1 .. cursor)

LeaseType ==
    /\ lease \in Worker \cup {NoOne}
    /\ owns \in [Worker -> BOOLEAN]
    /\ lost \in [Worker -> BOOLEAN]

MemoryType ==
    /\ pc \in [Consumer -> PC]
    /\ batch \in [Consumer -> Seq(1 .. cursor)]
    /\ took \in [Consumer -> SUBSET (1 .. cursor)]
    /\ log \in [Consumer -> (SUBSET Record) \cup {NoLog}]
    /\ base \in [Consumer -> (SUBSET Record) \cup {NoDoc}]
    /\ fresh \in [Consumer -> SUBSET Record]
    /\ expected \in [Consumer -> Int]

StoreType ==
    /\ slog \in SUBSET Record
    /\ state \in (SUBSET Record) \cup {NoDoc}
    /\ parts \in (SUBSET Record) \cup {NoDoc}
    /\ shown \in SUBSET Record
    /\ announced \in SUBSET Record

BudgetType ==
    /\ crashes \in 0 .. MaxCrash
    /\ lapses \in 0 .. MaxLapse
    /\ faults \in 0 .. MaxFault

TypeOK == GroupType /\ LeaseType /\ MemoryType /\ StoreType /\ BudgetType

Acknowledged == (1 .. cursor) \ pending

\* The promise of append-before-acknowledge: a record whose message was
\* acknowledged is in the store's log, through every crash, failed write,
\* reclaim and change of owner (handle, lines 202-236).
AckedIsDurable ==
    \A m \in Acknowledged : stream[m] # Reset => stream[m] \in slog

\* A message is dropped as a redelivery only because the log in memory holds
\* its record; so whatever that log holds must be durable or about to be
\* written by the same batch (handle, lines 186-198 and 204-213).
MemoryIsBacked ==
    \A c \in Consumer : log[c] # NoLog => log[c] \subseteq slog \cup fresh[c]

\* The document, both halves of it, and the diffs sent to clients never say
\* something the durable log does not (handle projects after append_batch).
DocumentIsBacked ==
    /\ state # NoDoc => state \subseteq slog
    /\ parts # NoDoc => parts \subseteq slog
    /\ announced \subseteq slog

\* "A message is acknowledged only after its match has been projected": an
\* acknowledged event has been in a STATE item (ingest_worker.py, lines 15-17).
AckedIsProjected ==
    LiveMeta => \A m \in Acknowledged : stream[m] \in Event => stream[m] \in shown

\* A document never loses a record it has shown (there is no replay restart
\* in this module): nothing a reader has seen disappears.
DocumentOnlyGrows ==
    [][state # NoDoc => state' # NoDoc /\ state \subseteq state']_vars

Settled ==
    /\ \A c \in Consumer : pc[c] \in {"idle", "polling", "down"}
    /\ pending = {}

\* A record the STATE item holds; a correction may come before there is one.
InDocument(r) == IF state = NoDoc THEN r \in Correction ELSE r \in state

\* What is acknowledged stays in the document: whatever fails, crashes or is
\* written again later, an acknowledged event is in the STATE item now, and an
\* acknowledged correction is in it as soon as there is one ("A message is
\* acknowledged only after its match has been projected", ingest_worker.py 17).
AckedIsKept ==
    LiveMeta => \A m \in Acknowledged : stream[m] # Reset => InDocument(stream[m])

\* Once nothing is in flight the items of the document agree with each other,
\* whoever died or failed between the two writes of write_projection: the batch
\* of a half-written document stays pending until both halves are written again.
SettledIsWhole == Settled => parts = state

\* Every delivered message is acknowledged in the end, and every message is
\* delivered: nothing is lost to a crash, a failed write or a conflict.
EveryMessageAcked ==
    \A m \in 1 .. MaxStream : m \in DOMAIN stream ~> m \in Acknowledged

\* The single-writer promise, as an abstract specification.
Ledger == INSTANCE MatchLedger WITH
              Entry <- Record, Blank <- NoDoc, history <- slog, document <- state
LedgerSpec == Ledger!Spec

=============================================================================
